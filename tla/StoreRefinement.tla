--------------------------- MODULE StoreRefinement ---------------------------
(***************************************************************************)
(* The store implements DurableMap: its vectors in memory, or in the log   *)
(* while it is down, are the live map; what replay builds from the log is  *)
(* the recorded map; what replay builds from the files a host crash can    *)
(* leave are the maps that may return.                                     *)
(***************************************************************************)
EXTENDS Store

VecsOnDisk(f) == {ImageAt(f, n).vecs : n \in f.synced .. Len(f.tail)}

Durable == INSTANCE DurableMap WITH
  live      <- IF up THEN mem.vecs ELSE ImageOf(file).vecs,
  recorded  <- ImageOf(file).vecs,
  mayReturn <- UNION {VecsOnDisk(f) : f \in {file} \cup priors}

(* Every behaviour of the store is a behaviour of the durable map: one     *)
(* command at a time is unrecorded, a process crash undoes only that one,  *)
(* and a host crash returns to a state the log really went through.        *)
ImplementsDurableMap == Durable!Spec
=============================================================================
