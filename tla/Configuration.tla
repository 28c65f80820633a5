--------------------------- MODULE Configuration ---------------------------
(***************************************************************************)
(* configloader.Load after the YAML is parsed: the numeric settings, what  *)
(* replaces one that is missing or out of range, and the limits the        *)
(* services make of what is left.                                          *)
(***************************************************************************)
EXTENDS Integers

\* performance.max_concurrent_routines and rpc_call_timeout_seconds,
\* dexScreener.requestTimeoutMillis, tokenPriceService.maxTokensPerBatchRequest.
Settings(values) == [routines : values, rpcTimeout : values,
                     dexTimeout : values, batchSize : values]

UnlessPositive(n, default) == IF n <= 0 THEN default ELSE n

LoadedSettings(raw) ==
  [routines   |-> UnlessPositive(raw.routines, 10),
   rpcTimeout |-> UnlessPositive(raw.rpcTimeout, 10),
   dexTimeout |-> IF raw.dexTimeout = 0 THEN 10000 ELSE raw.dexTimeout,
   batchSize  |-> IF raw.batchSize = 0 THEN 30 ELSE raw.batchSize]

\* The limit of the price load and the capacity of a request's semaphore.
ConcurrencyLimit(cfg)      == IF cfg.routines > 0 THEN cfg.routines ELSE 5
MaxConcurrentRoutines(cfg) == IF cfg.routines <= 0 THEN 1 ELSE cfg.routines
=============================================================================
