------------------------------- MODULE Status -------------------------------
(* The values of cpipe_status_t (sdk/cpipe_node.h) that the models tell apart. *)

OK == "CPIPE_OK"
Failed == "CPIPE_FAILED"
Unsupported == "CPIPE_UNSUPPORTED"
BadIndex == "CPIPE_BAD_INDEX"
BadPrecision == "CPIPE_BAD_PRECISION"
NeedMetadata == "CPIPE_NEED_METADATA"
NeedParam == "CPIPE_NEED_PARAM"
OutOfMemory == "CPIPE_OOM"
InternalError == "CPIPE_INTERNAL_ERROR"
=============================================================================
