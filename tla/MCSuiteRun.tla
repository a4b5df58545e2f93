----------------------------- MODULE MCSuiteRun -----------------------------
(***************************************************************************)
(* Two targets for SuiteRun, cut down from cmake/agent.cmake and           *)
(* cmake/init.cmake and the main functions of hsa_agent.c and hsa_init.c.  *)
(* iterate_query_attributes is listed under a name the executable does not *)
(* know: there the test is called query_attributes.                        *)
(***************************************************************************)
EXTENDS SuiteRun

MCTargets ==
    <<[name |-> "hsa_agent",
       listed |-> <<"iterate_null_data", "iterate_query_attributes">>,
       added |-> {"iterate_null_data", "query_attributes"}],
      [name |-> "hsa_init",
       listed |-> <<"concurrent_init", "refcount">>,
       added |-> {"concurrent_init", "refcount"}]>>
=============================================================================
