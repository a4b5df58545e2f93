--------------------------- MODULE MCKernelTests ---------------------------
(* Machines of one or two agents, of every kind. *)
EXTENDS KernelTests

Group == [segment |-> "group", flags |-> {}]
Global(flags) == [segment |-> "global", flags |-> flags]
Kinds ==
    {[feature |-> {}, regions |-> <<Global({"fine_grained"})>>],                        \* CPU
     [feature |-> {"kernel_dispatch"},                                                  \* APU
      regions |-> <<Group, Global({"coarse_grained"}), Global({"fine_grained", "kernarg"})>>],
     [feature |-> {"kernel_dispatch"},                                                  \* discrete GPU
      regions |-> <<Group, Global({"coarse_grained"}), Global({"kernarg"})>>],
     [feature |-> {"kernel_dispatch", "agent_dispatch"},                                \* both features
      regions |-> <<Group, Global({"fine_grained", "kernarg"})>>]}

MCMachines == [1..1 -> Kinds] \cup [1..2 -> Kinds]
=============================================================================
