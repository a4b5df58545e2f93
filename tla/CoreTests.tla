------------------------------ MODULE CoreTests ------------------------------
(***************************************************************************)
(* The tests of the twelve executables without images, as two lists that   *)
(* are kept by hand: the ADD_TEST lines of the executable's main function  *)
(* and TEST_LIST in its cmake file, both name by name.  (A name that is    *)
(* added without DEFINE_TEST does not compile.)                            *)
(***************************************************************************)

hsa_api_ADD ==
    <<"hsa_init", "hsa_shut_down", "hsa_shut_down_not_initialized",
      "hsa_shut_down_after_shut_down", "hsa_status_string",
      "hsa_status_string_not_initialized", "hsa_status_string_invalid_status",
      "hsa_status_string_invalid_ptr", "hsa_iterate_agents",
      "hsa_iterate_agents_not_initialized", "hsa_iterate_agents_invalid_callback",
      "hsa_agent_get_info", "hsa_agent_get_info_not_initialized",
      "hsa_agent_get_info_invalid_agent", "hsa_agent_get_info_invalid_attribute",
      "hsa_agent_get_info_invalid_ptr", "hsa_agent_extension_supported",
      "hsa_agent_extension_supported_not_initialized",
      "hsa_agent_extension_supported_invalid_agent",
      "hsa_agent_extension_supported_invalid_extension",
      "hsa_agent_extension_supported_null_result_ptr",
      "hsa_agent_get_exception_policies",
      "hsa_agent_get_exception_policies_not_initialized",
      "hsa_agent_get_exception_policies_invalid_agent",
      "hsa_agent_get_exception_policies_null_mask_ptr",
      "hsa_agent_get_exception_policies_invalid_profile",
      "hsa_system_extension_supported",
      "hsa_system_extension_supported_not_initialized",
      "hsa_system_extension_supported_invalid_extension",
      "hsa_system_extension_supported_null_result_ptr",
      "hsa_system_get_extension_table",
      "hsa_system_get_extension_table_not_initialized",
      "hsa_system_get_extension_table_invalid_extension",
      "hsa_system_get_extension_table_null_table_ptr", "hsa_system_get_info",
      "hsa_system_get_info_not_initialized",
      "hsa_system_get_info_invalid_attribute", "hsa_system_get_info_invalid_ptr",
      "hsa_signal_create", "hsa_signal_create_not_initialized",
      "hsa_signal_create_null_signal", "hsa_signal_create_invalid_arg",
      "hsa_signal_destroy", "hsa_signal_destroy_not_initialized",
      "hsa_signal_destroy_invalid_arg", "hsa_signal_destroy_invalid_signal",
      "hsa_signal_load_acquire", "hsa_signal_load_relaxed",
      "hsa_signal_store_release", "hsa_signal_store_relaxed",
      "hsa_signal_exchange_acq_rel", "hsa_signal_exchange_acquire",
      "hsa_signal_exchange_relaxed", "hsa_signal_exchange_release",
      "hsa_signal_cas_acq_rel", "hsa_signal_cas_acquire", "hsa_signal_cas_relaxed",
      "hsa_signal_cas_release", "hsa_signal_add_acq_rel", "hsa_signal_add_acquire",
      "hsa_signal_add_relaxed", "hsa_signal_add_release",
      "hsa_signal_subtract_acq_rel", "hsa_signal_subtract_acquire",
      "hsa_signal_subtract_relaxed", "hsa_signal_subtract_release",
      "hsa_signal_and_acq_rel", "hsa_signal_and_acquire", "hsa_signal_and_relaxed",
      "hsa_signal_and_release", "hsa_signal_or_acq_rel", "hsa_signal_or_acquire",
      "hsa_signal_or_relaxed", "hsa_signal_or_release", "hsa_signal_xor_acq_rel",
      "hsa_signal_xor_acquire", "hsa_signal_xor_relaxed", "hsa_signal_xor_release",
      "hsa_queue_create", "hsa_queue_create_not_initialized",
      "hsa_queue_create_out_of_resources", "hsa_queue_create_invalid_agent",
      "hsa_queue_create_invalid_queue_creation",
      "hsa_queue_create_invalid_argument", "hsa_queue_destroy",
      "hsa_queue_destroy_not_initialized", "hsa_queue_destroy_invalid_queue",
      "hsa_queue_destroy_invalid_argument", "hsa_queue_inactivate",
      "hsa_queue_inactivate_not_initialized", "hsa_queue_inactivate_invalid_queue",
      "hsa_queue_inactivate_invalid_argument", "hsa_queue_load_read_index_acquire",
      "hsa_queue_load_read_index_relaxed",
      "hsa_queue_load_store_write_index_acquire_relaxed",
      "hsa_queue_load_store_write_index_relaxed_release",
      "hsa_queue_cas_write_index_acq_rel", "hsa_queue_cas_write_index_acquire",
      "hsa_queue_cas_write_index_relaxed", "hsa_queue_cas_write_index_release",
      "hsa_queue_add_write_index_acq_rel", "hsa_queue_add_write_index_acquire",
      "hsa_queue_add_write_index_relaxed", "hsa_queue_add_write_index_release",
      "hsa_memory_allocate", "hsa_memory_allocate_not_initialized",
      "hsa_memory_allocate_null_ptr", "hsa_memory_allocate_zero_size",
      "hsa_memory_allocate_invalid_allocation",
      "hsa_memory_allocate_invalid_region", "hsa_memory_free",
      "hsa_memory_free_not_initialized", "hsa_memory_register",
      "hsa_memory_register_not_initialized", "hsa_memory_register_invalid_argument",
      "hsa_memory_deregister", "hsa_memory_deregister_not_initialized",
      "hsa_region_get_info", "hsa_region_get_info_not_initialized",
      "hsa_region_get_info_invalid_region", "hsa_region_get_info_invalid_argument",
      "hsa_agent_iterate_regions", "hsa_agent_iterate_regions_not_initialized",
      "hsa_agent_iterate_regions_invalid_argument",
      "hsa_agent_iterate_regions_invalid_agent", "hsa_isa_get_info",
      "hsa_isa_get_info_not_initialized", "hsa_isa_get_info_invalid_isa",
      "hsa_isa_get_info_index_out_of_range", "hsa_isa_get_info_invalid_attribute",
      "hsa_isa_get_info_invalid_null_value", "hsa_code_object_get_info",
      "hsa_code_symbol_get_info", "hsa_executable_create",
      "hsa_executable_create_not_initialized",
      "hsa_executable_create_invalid_argument",
      "hsa_executable_create_out_of_resources", "hsa_executable_destroy",
      "hsa_executable_destroy_not_initialized",
      "hsa_executable_destroy_invalid_executable",
      "hsa_executable_load_code_object",
      "hsa_executable_load_code_object_not_initialized",
      "hsa_executable_load_code_object_invalid_executable",
      "hsa_executable_load_code_object_invalid_agent",
      "hsa_executable_load_code_object_invalid_code_object",
      "hsa_executable_load_code_object_frozen_executable",
      "hsa_executable_get_info", "hsa_executable_symbol_get_info",
      "hsa_soft_queue_create", "hsa_isa_from_name", "hsa_isa_from_name_null_name",
      "hsa_isa_from_name_null_isa", "hsa_isa_from_name_invalid_isa_name",
      "hsa_isa_compatible", "hsa_isa_compatible_invalid_isa",
      "hsa_isa_compatible_null_result">>

api_TEST_LIST ==
    <<"hsa_init", "hsa_shut_down", "hsa_shut_down_not_initialized",
      "hsa_shut_down_after_shut_down", "hsa_status_string",
      "hsa_status_string_not_initialized", "hsa_status_string_invalid_status",
      "hsa_status_string_invalid_ptr", "hsa_system_get_info",
      "hsa_system_get_info_not_initialized",
      "hsa_system_get_info_invalid_attribute", "hsa_system_get_info_invalid_ptr",
      "hsa_system_extension_supported",
      "hsa_system_extension_supported_not_initialized",
      "hsa_system_extension_supported_invalid_extension",
      "hsa_system_extension_supported_null_result_ptr",
      "hsa_system_get_extension_table",
      "hsa_system_get_extension_table_not_initialized",
      "hsa_system_get_extension_table_invalid_extension",
      "hsa_system_get_extension_table_null_table_ptr", "hsa_agent_get_info",
      "hsa_agent_get_info_not_initialized", "hsa_agent_get_info_invalid_agent",
      "hsa_agent_get_info_invalid_attribute", "hsa_agent_get_info_invalid_ptr",
      "hsa_iterate_agents", "hsa_iterate_agents_not_initialized",
      "hsa_iterate_agents_invalid_callback", "hsa_agent_get_exception_policies",
      "hsa_agent_get_exception_policies_not_initialized",
      "hsa_agent_get_exception_policies_invalid_agent",
      "hsa_agent_get_exception_policies_null_mask_ptr",
      "hsa_agent_get_exception_policies_invalid_profile",
      "hsa_agent_extension_supported",
      "hsa_agent_extension_supported_not_initialized",
      "hsa_agent_extension_supported_invalid_agent",
      "hsa_agent_extension_supported_invalid_extension",
      "hsa_agent_extension_supported_null_result_ptr", "hsa_signal_create",
      "hsa_signal_create_not_initialized", "hsa_signal_create_null_signal",
      "hsa_signal_create_invalid_arg", "hsa_signal_destroy",
      "hsa_signal_load_acquire", "hsa_signal_load_relaxed",
      "hsa_signal_store_release", "hsa_signal_store_relaxed",
      "hsa_signal_exchange_acq_rel", "hsa_signal_exchange_acquire",
      "hsa_signal_exchange_relaxed", "hsa_signal_exchange_release",
      "hsa_signal_cas_acq_rel", "hsa_signal_cas_acquire", "hsa_signal_cas_relaxed",
      "hsa_signal_cas_release", "hsa_signal_add_acq_rel", "hsa_signal_add_acquire",
      "hsa_signal_add_relaxed", "hsa_signal_add_release",
      "hsa_signal_subtract_acq_rel", "hsa_signal_subtract_acquire",
      "hsa_signal_subtract_relaxed", "hsa_signal_subtract_release",
      "hsa_signal_and_acq_rel", "hsa_signal_and_acquire", "hsa_signal_and_relaxed",
      "hsa_signal_and_release", "hsa_signal_or_acq_rel", "hsa_signal_or_acquire",
      "hsa_signal_or_relaxed", "hsa_signal_or_release", "hsa_signal_xor_acq_rel",
      "hsa_signal_xor_acquire", "hsa_signal_xor_relaxed", "hsa_signal_xor_release",
      "hsa_queue_create", "hsa_queue_create_not_initialized",
      "hsa_queue_create_invalid_agent", "hsa_queue_create_invalid_queue_creation",
      "hsa_queue_create_invalid_argument", "hsa_queue_destroy",
      "hsa_queue_destroy_not_initialized", "hsa_queue_destroy_invalid_queue",
      "hsa_queue_destroy_invalid_argument", "hsa_queue_inactivate",
      "hsa_queue_inactivate_not_initialized", "hsa_queue_inactivate_invalid_queue",
      "hsa_queue_inactivate_invalid_argument", "hsa_queue_load_read_index_acquire",
      "hsa_queue_load_read_index_relaxed",
      "hsa_queue_load_store_write_index_acquire_relaxed",
      "hsa_queue_load_store_write_index_relaxed_release",
      "hsa_queue_cas_write_index_acq_rel", "hsa_queue_cas_write_index_acquire",
      "hsa_queue_cas_write_index_relaxed", "hsa_queue_cas_write_index_release",
      "hsa_queue_add_write_index_acq_rel", "hsa_queue_add_write_index_acquire",
      "hsa_queue_add_write_index_relaxed", "hsa_queue_add_write_index_release",
      "hsa_memory_allocate", "hsa_memory_allocate_not_initialized",
      "hsa_memory_allocate_null_ptr", "hsa_memory_allocate_zero_size",
      "hsa_memory_allocate_invalid_allocation",
      "hsa_memory_allocate_invalid_region", "hsa_memory_free",
      "hsa_memory_free_not_initialized", "hsa_memory_register",
      "hsa_memory_register_not_initialized", "hsa_memory_register_null_ptr",
      "hsa_memory_register_zero_size", "hsa_memory_deregister",
      "hsa_memory_deregister_not_initialized", "hsa_region_get_info",
      "hsa_region_get_info_not_initialized", "hsa_region_get_info_invalid_region",
      "hsa_region_get_info_invalid_argument", "hsa_agent_iterate_regions",
      "hsa_agent_iterate_regions_not_initialized",
      "hsa_agent_iterate_regions_invalid_argument",
      "hsa_agent_iterate_regions_invalid_agent", "hsa_isa_from_name",
      "hsa_isa_from_name_null_name", "hsa_isa_from_name_null_isa",
      "hsa_isa_from_name_invalid_isa_name", "hsa_isa_get_info",
      "hsa_isa_get_info_not_initialized", "hsa_isa_get_info_invalid_isa",
      "hsa_isa_get_info_index_out_of_range", "hsa_isa_get_info_invalid_attribute",
      "hsa_isa_get_info_null_value", "hsa_isa_compatible",
      "hsa_isa_compatible_invalid_isa", "hsa_isa_compatible_null_result">>

hsa_agent_ADD ==
    <<"concurrent_iterate", "iterate_null_data", "iterate_terminate",
      "query_attributes", "concurrent_query", "query_system_attributes">>

agent_TEST_LIST ==
    <<"iterate_null_data", "iterate_terminate", "iterate_query_attributes",
      "concurrent_query", "concurrent_iterate", "query_system_attributes">>

hsa_aql_ADD ==
    <<"aql_launch_size", "aql_barrier_bit_not_set", "aql_barrier_bit_set",
      "aql_barrier_cross_queue_dependency",
      "aql_barrier_cross_queue_dependency_negative_value",
      "aql_barrier_multiple_barriers", "aql_barrier_and", "aql_barrier_or",
      "aql_group_memory", "aql_group_memory_overspecified", "aql_private_memory",
      "aql_private_memory_overspecified", "aql_zero_wg_size">>

aql_TEST_LIST ==
    <<"aql_launch_size", "aql_barrier_bit_not_set", "aql_barrier_bit_set",
      "aql_barrier_cross_queue_dependency",
      "aql_barrier_cross_queue_dependency_negative_value",
      "aql_barrier_multiple_barriers", "aql_group_memory",
      "aql_group_memory_overspecified", "aql_private_memory",
      "aql_private_memory_overspecified", "aql_barrier_and", "aql_barrier_or",
      "aql_zero_wg_size">>

(* Mutant of hsa_async_ADD: a line was copied and its name left as it was. *)
hsa_async_ADD_copied ==
    <<"async_invalid_kernel_object", "async_invalid_kernel_object",
      "async_invalid_dimensions", "async_invalid_workgroup_size",
      "async_invalid_packet">>

hsa_async_ADD ==
    <<"async_invalid_kernel_object", "async_invalid_group_memory",
      "async_invalid_dimensions", "async_invalid_workgroup_size",
      "async_invalid_packet">>

async_TEST_LIST ==
    <<"async_invalid_group_memory", "async_invalid_dimensions",
      "async_invalid_kernel_object">>

hsa_code_ADD ==
    <<"code_define_global_agent", "code_define_global_program",
      "code_define_readonly_agent", "code_mixed_scope", "code_module_scope_symbol",
      "code_program_scope_symbol", "code_multiple_executables",
      "code_serialize_deserialize", "code_iterate_symbols",
      "code_kernarg_alignment", "code_recursive_kernel_function">>

code_TEST_LIST ==
    <<"code_define_globaL_agent", "code_define_global_program",
      "code_define_readonly_agent", "code_mixed_scope", "code_module_scope_symbol",
      "code_program_scope_symbol", "code_multiple_executables",
      "code_serialize_deserialize", "code_iterate_symbols",
      "code_kernarg_alignment", "code_recursive_kernel_function">>

hsa_init_ADD ==
    <<"concurrent_init", "concurrent_shutdown", "concurrent_init_shutdown",
      "refcount", "reinitialize">>

init_TEST_LIST ==
    <<"concurrent_init", "concurrent_shutdown", "concurrent_init_shutdown",
      "refcount", "reinitialize">>

hsa_memory_ADD ==
    <<"memory_allocate_max_size", "memory_allocate_zero_size",
      "memory_assign_agent", "memory_allocated_vector_copy_heap",
      "memory_allocated_vector_copy_stack", "memory_group_dynamic_allocation",
      "memory_copy_allocated_to_allocated", "memory_copy_allocated_to_registered",
      "memory_copy_registered_to_allocated", "memory_copy_registered_to_registered",
      "memory_vector_copy_between_stack_and_heap",
      "memory_vector_copy_heap_not_registered",
      "memory_vector_copy_heap_registered",
      "memory_vector_copy_stack_not_registered",
      "memory_vector_copy_stack_registered", "memory_minimum_region",
      "memory_region_concurrent_get_info", "memory_region_alignment",
      "memory_register_subrange", "memory_concurrent_allocate",
      "memory_concurrent_free", "memory_concurrent_register",
      "memory_concurrent_deregister", "memory_basic_allocate_free",
      "memory_basic_register_deregister", "memory_coherence_after_register",
      "memory_copy_system_and_global">>

memory_TEST_LIST ==
    <<"memory_allocated_vector_copy_heap", "memory_allocated_vector_copy_stack",
      "memory_allocate_max_size", "memory_allocate_zero_size",
      "memory_assign_agent", "memory_basic_allocate_free",
      "memory_basic_register_deregister", "memory_coherence_after_register",
      "memory_concurrent_allocate", "memory_concurrent_deregister",
      "memory_concurrent_free", "memory_concurrent_register",
      "memory_copy_allocated_to_allocated", "memory_copy_allocated_to_registered",
      "memory_copy_registered_to_allocated", "memory_copy_registered_to_registered",
      "memory_copy_system_and_global", "memory_group_dynamic_allocation",
      "memory_minimum_region", "memory_region_concurrent_get_info",
      "memory_region_alignment", "memory_register_subrange",
      "memory_vector_copy_between_stack_and_heap",
      "memory_vector_copy_heap_not_registered",
      "memory_vector_copy_heap_registered",
      "memory_vector_copy_stack_not_registered",
      "memory_vector_copy_stack_registered">>

hsa_memory_atomics_ADD ==
    <<"memory_add_atomic", "memory_and_atomic", "memory_cas_atomic",
      "memory_decrement_atomic", "memory_exchange_atomic",
      "memory_increment_atomic", "memory_load_store_atomic",
      "memory_maximum_atomic", "memory_minimum_atomic", "memory_or_atomic",
      "memory_subtract_atomic", "memory_xor_atomic">>

atomics_TEST_LIST ==
    <<"memory_add_atomic", "memory_and_atomic", "memory_cas_atomic",
      "memory_decrement_atomic", "memory_exchange_atomic",
      "memory_increment_atomic", "memory_load_store_atomic",
      "memory_maximum_atomic", "memory_minimum_atomic", "memory_or_atomic",
      "memory_subtract_atomic", "memory_xor_atomic">>

hsa_queue_ADD ==
    <<"queue_create_parameters", "queue_callback", "queue_create_concurrent",
      "queue_destroy_concurrent", "queue_dispatch_concurrent", "queue_full",
      "queue_multiple_dispatch", "queue_inactivate", "queue_size_create",
      "queue_multiple_queues", "queue_multi_gap",
      "queue_write_index_add_acq_rel_ordering",
      "queue_write_index_add_acquire_release_ordering",
      "queue_write_index_add_atomic", "queue_write_index_cas_acq_rel_ordering",
      "queue_write_index_cas_acquire_release_ordering",
      "queue_write_index_cas_atomic">>

queue_TEST_LIST ==
    <<"queue_create_parameters", "queue_callback", "queue_destroy_concurrent",
      "queue_dispatch_concurrent", "queue_full", "queue_multiple_dispatch",
      "queue_inactivate", "queue_size_create", "queue_multiple_queues",
      "queue_multi_gap", "queue_write_index_add_acq_rel_ordering",
      "queue_write_index_add_acquire_release_ordering",
      "queue_write_index_add_atomic", "queue_write_index_cas_acq_rel_ordering",
      "queue_write_index_cas_acquire_release_ordering",
      "queue_write_index_cas_atomic">>

hsa_signals_ADD ==
    <<"signal_create_concurrent", "signal_create_initial_value",
      "signal_create_max_consumers", "signal_create_one_consumers",
      "signal_create_zero_consumers", "signal_destroy_concurrent",
      "signal_kernel_multi_set", "signal_kernel_multi_wait", "signal_kernel_set",
      "signal_kernel_wait", "signal_wait_acquire_add", "signal_wait_relaxed_add",
      "signal_wait_acquire_and", "signal_wait_relaxed_and",
      "signal_wait_acquire_cas", "signal_wait_relaxed_cas",
      "signal_wait_conditions", "signal_wait_satisfied_conditions",
      "signal_wait_expectancy", "signal_wait_acquire_exchange",
      "signal_wait_relaxed_exchange", "signal_wait_acquire_or",
      "signal_wait_relaxed_or", "signal_wait_store_relaxed",
      "signal_wait_store_release", "signal_wait_acquire_subtract",
      "signal_wait_relaxed_subtract", "signal_wait_acquire_xor",
      "signal_wait_relaxed_xor", "signal_wait_acquire_timeout",
      "signal_wait_relaxed_timeout", "signal_store_release_load_acquire_ordering",
      "signal_store_release_load_acquire_ordering_transitive",
      "signal_load_store_atomic", "signal_add_acq_rel_ordering",
      "signal_add_acq_rel_ordering_transitive",
      "signal_add_acquire_release_ordering",
      "signal_add_acquire_release_ordering_transitive", "signal_add_atomic_acq_rel",
      "signal_add_atomic_acquire", "signal_add_atomic_release",
      "signal_add_atomic_relaxed", "signal_and_acq_rel_ordering",
      "signal_and_acq_rel_ordering_transitive",
      "signal_and_acquire_release_ordering",
      "signal_and_acquire_release_ordering_transitive", "signal_and_atomic_acq_rel",
      "signal_and_atomic_acquire", "signal_and_atomic_release",
      "signal_and_atomic_relaxed", "signal_cas_acq_rel_ordering",
      "signal_cas_acq_rel_ordering_transitive",
      "signal_cas_acquire_release_ordering",
      "signal_cas_acquire_release_ordering_transitive", "signal_cas_atomic_acq_rel",
      "signal_cas_atomic_acquire", "signal_cas_atomic_release",
      "signal_cas_atomic_relaxed", "signal_exchange_acq_rel_ordering",
      "signal_exchange_acq_rel_ordering_transitive",
      "signal_exchange_acquire_release_ordering",
      "signal_exchange_acquire_release_ordering_transitive",
      "signal_exchange_atomic_acq_rel", "signal_exchange_atomic_acquire",
      "signal_exchange_atomic_release", "signal_exchange_atomic_relaxed",
      "signal_or_acq_rel_ordering", "signal_or_acq_rel_ordering_transitive",
      "signal_or_acquire_release_ordering",
      "signal_or_acquire_release_ordering_transitive", "signal_or_atomic_acq_rel",
      "signal_or_atomic_acquire", "signal_or_atomic_release",
      "signal_or_atomic_relaxed", "signal_subtract_acq_rel_ordering",
      "signal_subtract_acq_rel_ordering_transitive",
      "signal_subtract_acquire_release_ordering_transitive",
      "signal_subtract_atomic_acq_rel", "signal_subtract_atomic_acquire",
      "signal_subtract_atomic_release", "signal_subtract_atomic_relaxed",
      "signal_xor_acq_rel_ordering", "signal_xor_acq_rel_ordering_transitive",
      "signal_xor_acquire_release_ordering",
      "signal_xor_acquire_release_ordering_transitive", "signal_xor_atomic_acq_rel",
      "signal_xor_atomic_acquire", "signal_xor_atomic_release",
      "signal_xor_atomic_relaxed">>

signals_TEST_LIST ==
    <<"signal_create_concurrent", "signal_create_initial_value",
      "signal_create_max_consumers", "signal_create_one_consumers",
      "signal_create_zero_consumers", "signal_destroy_concurrent",
      "signal_kernel_multi_set", "signal_kernel_multi_wait", "signal_kernel_set",
      "signal_kernel_wait", "signal_wait_acquire_timeout",
      "signal_wait_acquire_add", "signal_wait_acquire_and",
      "signal_wait_acquire_or", "signal_wait_acquire_subtract",
      "signal_wait_acquire_xor", "signal_wait_relaxed_timeout",
      "signal_wait_relaxed_add", "signal_wait_relaxed_and",
      "signal_wait_relaxed_or", "signal_wait_relaxed_subtract",
      "signal_wait_relaxed_xor", "signal_wait_conditions", "signal_wait_expectancy",
      "signal_wait_satisfied_conditions", "signal_wait_store_release",
      "signal_wait_store_relaxed", "signal_store_release_load_acquire_ordering",
      "signal_store_release_load_acquire_ordering_transitive",
      "signal_load_store_atomic", "signal_add_acq_rel_ordering",
      "signal_add_acq_rel_ordering_transitive",
      "signal_add_acquire_release_ordering",
      "signal_add_acquire_release_ordering_transitive", "signal_add_atomic_acq_rel",
      "signal_add_atomic_acquire", "signal_add_atomic_release",
      "signal_add_atomic_relaxed", "signal_and_acq_rel_ordering",
      "signal_and_acq_rel_ordering_transitive",
      "signal_and_acquire_release_ordering",
      "signal_and_acquire_release_ordering_transitive", "signal_and_atomic_acq_rel",
      "signal_and_atomic_acquire", "signal_and_atomic_release",
      "signal_and_atomic_relaxed", "signal_cas_acq_rel_ordering",
      "signal_cas_acquire_release_ordering", "signal_cas_atomic_acq_rel",
      "signal_cas_atomic_acquire", "signal_cas_atomic_release",
      "signal_cas_atomic_relaxed", "signal_exchange_acq_rel_ordering",
      "signal_exchange_acquire_release_ordering",
      "signal_exchange_acquire_release_ordering_transitive",
      "signal_exchange_atomic_acq_rel", "signal_exchange_atomic_acquire",
      "signal_exchange_atomic_release", "signal_exchange_atomic_relaxed",
      "signal_or_acq_rel_ordering", "signal_or_acq_rel_ordering_transitive",
      "signal_or_acquire_release_ordering",
      "signal_or_acquire_release_ordering_transitive", "signal_or_atomic_acq_rel",
      "signal_or_atomic_acquire", "signal_or_atomic_release",
      "signal_or_atomic_relaxed", "signal_subtract_acq_rel_ordering",
      "signal_subtract_acq_rel_ordering_transitive",
      "signal_subtract_acquire_release_ordering_transitive",
      "signal_subtract_atomic_acq_rel", "signal_subtract_atomic_acquire",
      "signal_subtract_atomic_release", "signal_subtract_atomic_relaxed",
      "signal_xor_acq_rel_ordering", "signal_xor_acq_rel_ordering_transitive",
      "signal_xor_acquire_release_ordering",
      "signal_xor_acquire_release_ordering_transitive", "signal_xor_atomic_acq_rel",
      "signal_xor_atomic_acquire", "signal_xor_atomic_release",
      "signal_xor_atomic_relaxed">>

hsa_ext_api_ADD ==
    <<"hsa_ext_program_create", "hsa_ext_program_create_not_initialized",
      "hsa_ext_program_create_invalid_argument", "hsa_ext_program_destroy",
      "hsa_ext_program_destroy_not_initialized",
      "hsa_ext_program_destroy_invalid_program", "hsa_ext_program_finalize",
      "hsa_ext_program_finalize_not_initialized",
      "hsa_ext_program_finalize_invalid_program",
      "hsa_ext_program_finalize_invalid_isa",
      "hsa_ext_program_finalize_directive_mismatch">>

ext_api_TEST_LIST ==
    <<"hsa_ext_program_create", "hsa_ext_program_create_not_initialized",
      "hsa_ext_program_create_invalid_argument", "hsa_ext_program_destroy",
      "hsa_ext_program_destroy_not_initialized",
      "hsa_ext_program_destroy_invalid_program", "hsa_ext_program_add_module",
      "hsa_ext_program_add_module_not_initialized",
      "hsa_ext_program_add_module_errors">>

hsa_finalization_ADD ==
    <<"finalization_concurrent_finalization",
      "finalization_control_directives_max_dynamic_group_size",
      "finalization_control_directives_max_flat_grid_size",
      "finalization_control_directives_max_flat_workgroup_size",
      "finalization_control_directives_required_grid_size",
      "finalization_control_directives_required_workgroup_size",
      "finalization_control_directives_required_dim",
      "finalization_dependent_modules", "finalization_incompatible_module",
      "finalization_invalid_module", "finalization_module_already_included",
      "finalization_module_count", "finalization_multiple_modules",
      "finalization_out_of_resources">>

finalization_TEST_LIST ==
    <<"finalization_concurrent_finalization", "finalization_dependent_modules",
      "finalization_incompatible_module", "finalization_module_already_included",
      "finalization_module_count", "finalization_multiple_modules">>

-----------------------------------------------------------------------------
(* The lists by executable. *)
CoreAdded ==
    [hsa_api |-> hsa_api_ADD, hsa_agent |-> hsa_agent_ADD, hsa_aql |-> hsa_aql_ADD,
     hsa_async |-> hsa_async_ADD, hsa_code |-> hsa_code_ADD, hsa_init |-> hsa_init_ADD,
     hsa_memory |-> hsa_memory_ADD, hsa_memory_atomics |-> hsa_memory_atomics_ADD,
     hsa_queue |-> hsa_queue_ADD, hsa_signals |-> hsa_signals_ADD,
     hsa_ext_api |-> hsa_ext_api_ADD, hsa_finalization |-> hsa_finalization_ADD]

CoreListed ==
    [hsa_api |-> api_TEST_LIST, hsa_agent |-> agent_TEST_LIST, hsa_aql |-> aql_TEST_LIST,
     hsa_async |-> async_TEST_LIST, hsa_code |-> code_TEST_LIST, hsa_init |-> init_TEST_LIST,
     hsa_memory |-> memory_TEST_LIST, hsa_memory_atomics |-> atomics_TEST_LIST,
     hsa_queue |-> queue_TEST_LIST, hsa_signals |-> signals_TEST_LIST,
     hsa_ext_api |-> ext_api_TEST_LIST, hsa_finalization |-> finalization_TEST_LIST]
=============================================================================
