-------------------------- MODULE TemplateTables ---------------------------
(***************************************************************************)
(* The functions of the template libraries, each described by what it does *)
(* to the heap and to its caller's memory.  Templates gives these effects  *)
(* their meaning.                                                          *)
(***************************************************************************)

(* The tables.  Makes: calloc, or malloc and memset, of a new object, NULL  *)
(* if there is no memory.  Frees: free(argument).  Fills: a result is       *)
(* written if the caller's pointer is not NULL.  Stores: a result is        *)
(* written without looking.  Says: nothing but this answer.                 *)
Functions(does, what, names) == {[name |-> n, does |-> does, what |-> what] : n \in names}

Makes(type, names) == Functions("make", type, names)
Frees(type, names) == Functions("free", type, names)
Fills(names) == Functions("fill", "SUCCESS", names)
Stores(names) == Functions("store", "SUCCESS", names)
Says(what, names) == Functions("say", what, names)

(* src/concurrency/concurrency.c *)
ThreadPool ==
    Makes("thread_pool_t", {"thread_pool_create"})
    \cup Makes("task_t", {"thread_pool_submit", "thread_pool_submit_with_priority"})
    \cup Frees("thread_pool_t", {"thread_pool_destroy"})
    \cup Fills({"thread_pool_get_stats"})
    \cup Says("SUCCESS", {"thread_pool_start", "thread_pool_shutdown", "thread_pool_cancel_task",
                          "thread_pool_wait_for_task", "thread_pool_wait_all", "thread_pool_resize"})

AsyncIo ==
    Makes("async_io_context_t", {"async_io_create"})
    \cup Makes("async_operation_t", {"async_read", "async_write", "async_accept", "async_connect"})
    \cup Frees("async_io_context_t", {"async_io_destroy"})
    \cup Fills({"async_io_get_stats"})
    \cup Says("SUCCESS", {"async_io_run", "async_io_stop", "async_io_register", "async_io_unregister",
                          "async_io_modify", "async_operation_cancel", "async_operation_wait"})
    \cup Says("IO_OP_COMPLETED", {"async_operation_status"})

Backpressure ==
    Makes("backpressure_controller_t", {"backpressure_create"})
    \cup Frees("backpressure_controller_t", {"backpressure_destroy"})
    \cup Fills({"backpressure_get_stats"})
    \cup Says("SUCCESS", {"backpressure_acquire", "backpressure_release",
                          "backpressure_update_metrics", "backpressure_adjust_limits"})
    \cup Says("true", {"backpressure_can_accept"})

(* The locks exclude nobody: every acquire answers SUCCESS at once. *)
Lock ==
    Makes("lock_t", {"lock_create"})
    \cup Frees("lock_t", {"lock_destroy"})
    \cup Fills({"lock_get_stats"})
    \cup Says("SUCCESS", {"lock_acquire", "lock_try_acquire", "lock_release", "lock_read_acquire",
                          "lock_write_acquire", "lock_read_release", "lock_write_release",
                          "lock_reset_stats"})

LockFreeQueue ==
    Makes("lock_free_queue_t", {"lock_free_queue_create"})
    \cup Frees("lock_free_queue_t", {"lock_free_queue_destroy"})
    \cup Says("SUCCESS", {"lock_free_queue_push"})
    \cup Says("NULL", {"lock_free_queue_pop"})
    \cup Says("true", {"lock_free_queue_is_empty"})
    \cup Says("0", {"lock_free_queue_size"})

LockFreeStack ==
    Makes("lock_free_stack_t", {"lock_free_stack_create"})
    \cup Frees("lock_free_stack_t", {"lock_free_stack_destroy"})
    \cup Says("SUCCESS", {"lock_free_stack_push"})
    \cup Says("NULL", {"lock_free_stack_pop"})
    \cup Says("true", {"lock_free_stack_is_empty"})

LockFreeHashmap ==
    Makes("lock_free_hashmap_t", {"lock_free_hashmap_create"})
    \cup Frees("lock_free_hashmap_t", {"lock_free_hashmap_destroy"})
    \cup Says("SUCCESS", {"lock_free_hashmap_put", "lock_free_hashmap_remove"})
    \cup Says("NULL", {"lock_free_hashmap_get"})
    \cup Says("0", {"lock_free_hashmap_size"})

ContentionMonitor ==
    Makes("contention_monitor_t", {"contention_monitor_create"})
    \cup Frees("contention_monitor_t", {"contention_monitor_destroy"})
    \cup Stores({"contention_monitor_get_hotspots"})
    \cup Says("SUCCESS", {"contention_monitor_track_lock", "contention_monitor_record_wait",
                          "contention_monitor_reset"})

ProducerConsumer ==
    Makes("producer_consumer_t", {"producer_consumer_create"})
    \cup Frees("producer_consumer_t", {"producer_consumer_destroy"})
    \cup Says("SUCCESS", {"producer_consumer_produce"})
    \cup Says("NULL", {"producer_consumer_consume"})

ReaderWriter ==
    Makes("reader_writer_t", {"reader_writer_create"})
    \cup Frees("reader_writer_t", {"reader_writer_destroy"})
    \cup Says("SUCCESS", {"reader_writer_read_lock", "reader_writer_read_unlock",
                          "reader_writer_write_lock", "reader_writer_write_unlock"})

Barrier ==
    Makes("barrier_t", {"barrier_create"})
    \cup Frees("barrier_t", {"barrier_destroy"})
    \cup Says("SUCCESS", {"barrier_wait"})

Future ==
    Makes("future_t", {"future_create"})
    \cup Frees("future_t", {"future_destroy"})
    \cup Says("SUCCESS", {"future_set", "future_wait"})
    \cup Says("NULL", {"future_get"})
    \cup Says("false", {"future_is_ready"})

ThroughputOptimizer ==
    Makes("throughput_optimizer_t", {"throughput_optimizer_create"})
    \cup Frees("throughput_optimizer_t", {"throughput_optimizer_destroy"})
    \cup Fills({"throughput_get_metrics"})
    \cup Stores({"throughput_analyze"})
    \cup Says("SUCCESS", {"throughput_record_request"})

(* parallel_map_reduce returns the initial value it is given. *)
Parallel ==
    Says("SUCCESS", {"parallel_for"}) \cup Says("its argument", {"parallel_map_reduce"})

(* src/cache_strategies/cache_strategies.c *)
CacheInstance ==
    Makes("cache_instance_t", {"cache_instance_create"})
    \cup Frees("cache_instance_t", {"cache_instance_destroy"})
    \cup Fills({"cache_increment", "cache_decrement", "cache_get_ttl"})
    \cup Stores({"cache_get", "cache_mget", "cache_get_expiring_keys"})
    \cup Says("SUCCESS", {"cache_instance_connect", "cache_instance_disconnect", "cache_set",
                          "cache_set_with_ttl", "cache_delete", "cache_append", "cache_mset",
                          "cache_mdelete", "cache_set_ttl", "cache_persist", "cache_touch",
                          "cache_expire_keys"})
    \cup Says("false", {"cache_exists"})

CacheInvalidation ==
    Stores({"cache_get_keys_by_tag", "cache_get_with_version"})
    \cup Says("SUCCESS", {"cache_invalidate_key", "cache_invalidate_pattern", "cache_invalidate_tag",
                          "cache_invalidate_all", "cache_set_with_tags", "cache_set_with_version",
                          "cache_invalidate_version"})

(* cache_with_stampede_prevention returns the cache itself, not a new one.  *)
(* cache_lock_try_acquire writes the new lock through a pointer it does not *)
(* check and answers true also when there was no memory.                    *)
CacheLocks ==
    Functions("same", "cache_instance_t", {"cache_with_stampede_prevention"})
    \cup Makes("cache_lock_t", {"cache_lock_acquire"})
    \cup Functions("make_out", "cache_lock_t", {"cache_lock_try_acquire"})
    \cup Frees("cache_lock_t", {"cache_lock_release"})
    \cup Stores({"cache_get_with_lock"})

ReadWriteThrough ==
    Makes("read_through_cache_t", {"read_through_cache_create"})
    \cup Makes("write_through_cache_t", {"write_through_cache_create"})
    \cup Makes("write_behind_cache_t", {"write_behind_cache_create"})
    \cup Frees("read_through_cache_t", {"read_through_cache_destroy"})
    \cup Frees("write_through_cache_t", {"write_through_cache_destroy"})
    \cup Frees("write_behind_cache_t", {"write_behind_cache_destroy"})
    \cup Stores({"read_through_get"})
    \cup Says("SUCCESS", {"write_through_set", "write_through_delete", "write_behind_set",
                          "write_behind_flush"})

CacheMonitoring ==
    Makes("warmup_result_t", {"cache_warmup"})
    \cup Frees("warmup_result_t", {"warmup_result_destroy"})
    \cup Fills({"cache_get_stats", "cache_get_key_info", "cache_get_size"})
    \cup Stores({"cache_get_all_keys", "cache_get_operation_stats"})
    \cup Says("SUCCESS", {"cache_preload_keys", "cache_reset_stats"})

CacheCluster ==
    Makes("cache_cluster_t", {"cache_cluster_create"})
    \cup Makes("cache_correctness_report_t", {"cache_test_correctness"})
    \cup Frees("cache_cluster_t", {"cache_cluster_destroy"})
    \cup Stores({"cache_cluster_get_nodes", "cache_cluster_get", "cache_get_consistency_violations"})
    \cup Says("SUCCESS", {"cache_cluster_add_node", "cache_cluster_remove_node", "cache_cluster_set",
                          "cache_cluster_delete", "cache_validate_consistency"})

(* src/db_performance/db_performance.c.  A char * is the caller's to free(). *)
DbIndex ==
    Makes("db_index_t", {"db_index_create"})
    \cup Frees("db_index_t", {"db_index_destroy"})
    \cup Fills({"db_index_get_info", "db_index_get_usage_stats"})
    \cup Stores({"db_recommend_indexes"})
    \cup Says("SUCCESS", {"db_index_build", "db_index_rebuild", "db_index_drop"})

QueryPlan ==
    Makes("query_plan_t", {"db_explain_query"})
    \cup Makes("query_optimizer_t", {"db_optimizer_create"})
    \cup Makes("char *", {"db_optimizer_rewrite_query"})
    \cup Frees("query_plan_t", {"db_query_plan_destroy"})
    \cup Frees("query_optimizer_t", {"db_optimizer_destroy"})
    \cup Fills({"db_query_plan_to_json"})
    \cup Says("SUCCESS", {"db_query_plan_print", "db_optimizer_set_option"})

QueryTracker ==
    Makes("query_tracker_t", {"db_query_tracker_create"})
    \cup Makes("char *", {"db_suggest_n_plus_one_fix"})
    \cup Frees("query_tracker_t", {"db_query_tracker_destroy"})
    \cup Stores({"db_query_tracker_analyze"})
    \cup Says("SUCCESS", {"db_query_tracker_record"})

Pagination ==
    Makes("pagination_config_t", {"db_pagination_config_create"})
    \cup Makes("pagination_result_t", {"db_paginate_offset", "db_paginate_cursor", "db_paginate_keyset"})
    \cup Frees("pagination_config_t", {"db_pagination_config_destroy"})
    \cup Frees("pagination_result_t", {"db_pagination_result_destroy"})
    \cup Stores({"db_compare_pagination_strategies"})

(* The pool does not keep its connections: an acquire allocates one, a      *)
(* release frees it, and destroying the pool leaves them alone.             *)
DbPool ==
    Makes("db_connection_pool_t", {"db_pool_create"})
    \cup Makes("db_connection_t", {"db_pool_acquire"})
    \cup Frees("db_connection_pool_t", {"db_pool_destroy"})
    \cup Frees("db_connection_t", {"db_pool_release"})
    \cup Fills({"db_pool_get_stats"})
    \cup Stores({"db_pool_get_connection_info"})
    \cup Says("SUCCESS", {"db_pool_validate_connection", "db_pool_shrink", "db_pool_grow",
                          "db_pool_clear_idle", "db_pool_health_check"})

QueryMonitor ==
    Makes("query_monitor_t", {"db_query_monitor_create"})
    \cup Frees("query_monitor_t", {"db_query_monitor_destroy"})
    \cup Stores({"db_query_monitor_get_slow_queries", "db_query_monitor_get_top_queries"})
    \cup Says("SUCCESS", {"db_query_monitor_record", "db_query_monitor_reset"})

BulkOperations ==
    Makes("bulk_operation_result_t", {"db_bulk_insert", "db_bulk_update", "db_bulk_delete"})
    \cup Frees("bulk_operation_result_t", {"db_bulk_operation_result_destroy"})

(* src/network_serialization/network_serialization.c *)
Serializer ==
    Makes("serializer_t", {"serializer_create"})
    \cup Makes("payload_analysis_t", {"analyze_payload_size"})
    \cup Frees("serializer_t", {"serializer_destroy"})
    \cup Frees("payload_analysis_t", {"payload_analysis_destroy"})
    \cup Fills({"serializer_get_stats"})
    \cup Stores({"serialize_to_buffer", "deserialize_from_buffer", "deserialize_from_file",
                 "convert_format", "optimize_payload", "filter_payload_fields"})
    \cup Says("SUCCESS", {"serialize_to_file"})

Compressor ==
    Makes("compressor_t", {"compressor_create"})
    \cup Makes("compression_stream_t", {"compression_stream_create"})
    \cup Frees("compressor_t", {"compressor_destroy"})
    \cup Frees("compression_stream_t", {"compression_stream_destroy"})
    \cup Fills({"compression_stream_read", "compressor_get_stats"})
    \cup Stores({"compress_data", "decompress_data", "benchmark_compression_algorithms"})
    \cup Says("SUCCESS", {"compression_stream_write", "compression_stream_finish"})

ProtocolHandler ==
    Makes("protocol_handler_t", {"protocol_handler_create"})
    \cup Makes("protocol_response_t", {"protocol_send_request"})
    \cup Frees("protocol_handler_t", {"protocol_handler_destroy"})
    \cup Frees("protocol_response_t", {"protocol_response_destroy"})
    \cup Stores({"compare_protocols"})

(* connection_acquire writes the descriptor -1. *)
ConnectionManager ==
    Makes("connection_manager_t", {"connection_manager_create"})
    \cup Frees("connection_manager_t", {"connection_manager_destroy"})
    \cup Fills({"connection_acquire", "connection_get_info", "connection_get_stats",
                "http2_create_stream"})
    \cup Stores({"connection_get_all_info", "http2_get_streams"})
    \cup Says("SUCCESS", {"connection_release", "connection_close", "connection_send_keepalive",
                          "connection_check_alive", "connection_close_idle", "http2_close_stream"})

Streams ==
    Makes("network_perf_result_t", {"test_network_performance"})
    \cup Makes("batch_response_t", {"protocol_send_batch"})
    \cup Makes("stream_t", {"stream_create"})
    \cup Makes("end_to_end_benchmark_t", {"benchmark_end_to_end"})
    \cup Frees("batch_response_t", {"batch_response_destroy"})
    \cup Frees("stream_t", {"stream_destroy"})
    \cup Fills({"tcp_get_socket_info"})
    \cup Stores({"benchmark_serialization_formats"})
    \cup Says("SUCCESS", {"tcp_optimize_socket", "stream_send", "stream_receive", "stream_close"})

(* src/latency_observability/latency_observability.c *)
LatencyTracker ==
    Makes("latency_tracker_t", {"latency_tracker_create"})
    \cup Frees("latency_tracker_t", {"latency_tracker_destroy"})
    \cup Fills({"latency_record_start", "latency_get_stats"})
    \cup Stores({"latency_get_all_operations", "latency_detect_tail_events",
                 "latency_suggest_mitigations"})
    \cup Says("SUCCESS", {"latency_record", "latency_record_end", "latency_reset_stats"})

LatencyBudget ==
    Makes("service_latency_budget_t", {"latency_budget_create"})
    \cup Frees("service_latency_budget_t", {"latency_budget_destroy"})
    \cup Fills({"latency_budget_get"})
    \cup Stores({"latency_budget_check_exceeded"})
    \cup Says("SUCCESS", {"latency_budget_set", "latency_budget_consume"})

TimeoutManager ==
    Makes("timeout_manager_t", {"timeout_manager_create"})
    \cup Frees("timeout_manager_t", {"timeout_manager_destroy"})
    \cup Fills({"timeout_get", "timeout_calculate_adaptive"})
    \cup Stores({"timeout_get_events"})
    \cup Says("SUCCESS", {"timeout_set", "timeout_update_adaptive", "timeout_record_event"})

RetryPolicy ==
    Makes("retry_policy_t", {"retry_policy_create"})
    \cup Makes("retry_decision_t", {"retry_should_retry"})
    \cup Frees("retry_policy_t", {"retry_policy_destroy"})
    \cup Fills({"retry_get_stats"})
    \cup Stores({"retry_execute"})
    \cup Says("1000", {"retry_calculate_delay"})
    \cup Says("SUCCESS", {"retry_execute_async"})

Breaker ==
    Makes("circuit_breaker_t", {"circuit_breaker_create"})
    \cup Frees("circuit_breaker_t", {"circuit_breaker_destroy"})
    \cup Fills({"circuit_breaker_get_stats"})
    \cup Stores({"circuit_breaker_execute"})
    \cup Says("true", {"circuit_breaker_allow_request"})
    \cup Says("CIRCUIT_STATE_CLOSED", {"circuit_breaker_get_state"})
    \cup Says("SUCCESS", {"circuit_breaker_record_success", "circuit_breaker_record_failure",
                          "circuit_breaker_reset", "circuit_breaker_force_open",
                          "circuit_breaker_force_close"})

(* trace_span_finish does not free the span, trace_span_destroy does. *)
Tracing ==
    Makes("trace_span_t", {"trace_span_start", "trace_extract_context"})
    \cup Makes("trace_t", {"trace_get"})
    \cup Frees("trace_span_t", {"trace_span_destroy"})
    \cup Frees("trace_t", {"trace_destroy"})
    \cup Stores({"trace_inject_context"})
    \cup Says("void", {"trace_span_finish"})
    \cup Says("SUCCESS", {"trace_span_add_tag", "trace_span_add_log"})

BottleneckAnalyzer ==
    Makes("bottleneck_analyzer_t", {"bottleneck_analyzer_create"})
    \cup Makes("bottleneck_report_t", {"bottleneck_analyze"})
    \cup Makes("critical_path_t", {"bottleneck_find_critical_path"})
    \cup Frees("bottleneck_analyzer_t", {"bottleneck_analyzer_destroy"})
    \cup Frees("bottleneck_report_t", {"bottleneck_report_destroy"})
    \cup Frees("critical_path_t", {"critical_path_destroy"})
    \cup Says("SUCCESS", {"bottleneck_record_operation"})

Profiler ==
    Makes("profiler_t", {"profiler_create"})
    \cup Makes("profile_report_t", {"profile_get_report", "profiler_get_report"})
    \cup Frees("profiler_t", {"profiler_destroy"})
    \cup Frees("profile_report_t", {"profile_report_destroy"})
    \cup Says("SUCCESS", {"profile_start", "profile_stop", "profiler_enter", "profiler_exit"})

Observability ==
    Makes("observability_metrics_t", {"observability_collect_metrics"})
    \cup Makes("health_check_t", {"observability_health_check"})
    \cup Frees("observability_metrics_t", {"observability_metrics_destroy"})
    \cup Fills({"observability_export_prometheus", "observability_export_json"})

(* The functions a program uses together. *)
Families ==
    {ThreadPool \cup Parallel, AsyncIo, Backpressure, Lock, LockFreeQueue, LockFreeStack,
     LockFreeHashmap, ContentionMonitor, ProducerConsumer, ReaderWriter, Barrier, Future,
     ThroughputOptimizer, CacheInstance \cup CacheInvalidation \cup CacheLocks,
     ReadWriteThrough, CacheMonitoring, CacheCluster, DbIndex, QueryPlan, QueryTracker,
     Pagination, DbPool, QueryMonitor, BulkOperations, Serializer, Compressor,
     ProtocolHandler, ConnectionManager, Streams, LatencyTracker, LatencyBudget,
     TimeoutManager, RetryPolicy, Breaker, Tracing, BottleneckAnalyzer, Profiler,
     Observability}
=============================================================================
