----------------------------- MODULE Lifecycle -----------------------------
(***************************************************************************)
(* Who owns what in a codec object, from create over the lazy              *)
(* initialisation in its first decode to destroy, when any allocation may  *)
(* fail: convolutional.c, sse/convolutional.c, reed-solomon.c and the two  *)
(* wrappers of fec_shim.c, with the create functions they call.            *)
(*                                                                         *)
(* A pointer field is                                                      *)
(*    "unset"  in memory that malloc returned, never assigned;             *)
(*    "null"; "live", the owner of a block; "freed", dangling.             *)
(* Creators that clean up after themselves (pair_lookup_create,            *)
(* error_buffer_create, oct_lookup_create but for short_outs, field_create *)
(* and those of polynomials and bit streams) count as one allocation.  An  *)
(* array of allocations is its first and its last one.                     *)
(***************************************************************************)
EXTENDS Integers, Sequences, SequencesExt

CONSTANT Kinds     \* the kinds of codec objects considered

ASSUME KindsAssumption ==
    Kinds \subseteq {"conv", "sse", "rs", "viterbi", "rs_char"}

VARIABLES kind,       \* what is created, fixed
          handle,     \* "none", or "held" by the caller
          hasInit,    \* has_init_decode
          ptr,        \* the object's pointer fields
          failed,     \* history variable: the allocations that failed
          misused     \* history variable: fields freed or used that were not live

codecVars == <<kind, handle, hasInit, ptr, failed, misused>>

-----------------------------------------------------------------------------
(* The fields, in the order of their allocation.                           *)

ConvFields == <<"conv", "table", "bit_writer", "bit_reader">>
RsFields   == <<"rs", "field", "generator_roots", "generator",
                "encoded_polynomial", "encoded_remainder">>

\* What create allocates.
Created(k) ==
    CASE k \in {"conv", "sse"} -> ConvFields
      [] k = "viterbi" -> <<"shim", "buf">> \o ConvFields
      [] k = "rs"      -> RsFields
      [] k = "rs_char" -> <<"shim">> \o RsFields \o <<"msg_out", "erasures">>

HistoryFields == <<"history_buffer", "history", "slices", "fetched">>
ConvDecoder   == <<"distances", "pair_lookup">> \o HistoryFields \o <<"errors">>
RsDecoder ==
    <<"syndromes", "modified_syndromes", "received_polynomial", "error_locator",
      "error_locator_log", "erasure_locator", "error_roots", "error_vals",
      "error_locations", "last_error_locator", "error_evaluator",
      "error_locator_derivative",
      "generator_root_exp", "first_root_exp", "last_root_exp",
      "element_exp", "first_element_exp", "last_element_exp",
      "init_from_roots_scratch_0", "init_from_roots_scratch_1">>

\* What the first decode allocates.
Lazy(k) ==
    CASE k \in {"conv", "viterbi"} -> ConvDecoder
      [] k = "sse" -> ConvDecoder \o <<"oct_lookup", "short_outs">>
      [] k \in {"rs", "rs_char"} -> RsDecoder

Fields(k) == ToSet(Created(k)) \cup ToSet(Lazy(k))

IsRs(k) == k \in {"rs", "rs_char"}

\* Rows of the two tables of logarithms: their arrays come from malloc.
Rows(table) ==
    IF table = "generator_root_exp" THEN {"first_root_exp", "last_root_exp"}
    ELSE {"first_element_exp", "last_element_exp"}

AllRows == Rows("generator_root_exp") \cup Rows("element_exp")

\* correct_reed_solomon_create takes zeroed memory, the others do not.
Fresh(k) ==
    [f \in Fields(k) |->
        IF IsRs(k) /\ f \notin AllRows \cup {"shim", "msg_out", "erasures"}
        THEN "null" ELSE "unset"]

-----------------------------------------------------------------------------
(* A heap h is [ptr, misused].  An unset pointer may happen to hold null;  *)
(* wild says that it does not.                                             *)

\* The heap after the allocations `fields`, of which number n fails (0: none).
Allocate(h, fields, n) ==
    LET made == ToSet(IF n = 0 THEN fields ELSE SubSeq(fields, 1, n - 1))
    IN  [h EXCEPT !.ptr = [f \in DOMAIN h.ptr |->
            IF f \in made THEN "live"
            ELSE IF n # 0 /\ f = fields[n] THEN "null" ELSE h.ptr[f]]]

Assign(h, f, value) == [h EXCEPT !.ptr[f] = value]

\* `if (p) free(p)` for the fields of S.
Free(h, S, wild) ==
    [ptr |-> [f \in DOMAIN h.ptr |->
                 IF f \in S /\ h.ptr[f] = "live" THEN "freed" ELSE h.ptr[f]],
     misused |-> h.misused \cup
                 {f \in S : h.ptr[f] = "freed" \/ (wild /\ h.ptr[f] = "unset")}]

\* Following the pointers of S.
Use(h, S) == [h EXCEPT !.misused = @ \cup {f \in S : h.ptr[f] # "live"}]

\* history_buffer_destroy looks into the array of slices before it tests it.
FreeHistory(h, wild) ==
    IF h.ptr["history_buffer"] = "live"
    THEN Free(Use(h, {"history"}), ToSet(HistoryFields), wild)
    ELSE Free(h, {"history_buffer"}, wild)

\* Mutant: the lazily allocated fields are freed whether they are set or not.
Teardown_Unguarded(h, init, wild) ==
    FreeHistory(Free(h, {"table", "bit_writer", "bit_reader",
                         "pair_lookup", "errors", "distances"}, wild), wild)

\* _correct_convolutional_teardown.
Teardown(h, init, wild) ==
    LET base == Free(h, {"table", "bit_writer", "bit_reader"}, wild)
    IN  IF init
        THEN FreeHistory(Free(base, {"pair_lookup", "errors", "distances"}, wild), wild)
        ELSE base

\* correct_convolutional_destroy.
DestroyConv(h, init, wild) ==
    IF h.ptr["conv"] = "live"
    THEN Free(Teardown(h, init, wild), {"conv"}, wild)
    ELSE Free(h, {"conv"}, wild)

\* correct_reed_solomon_destroy: every row is freed if the table is there.
DestroyRs(h, wild) ==
    LET tables == {t \in {"generator_root_exp", "element_exp"} : h.ptr[t] = "live"}
    IN  IF h.ptr["rs"] = "live"
        THEN Free(h, (ToSet(RsFields \o RsDecoder) \ AllRows)
                         \cup UNION {Rows(t) : t \in tables}, wild)
        ELSE Free(h, {"rs"}, wild)

\* The destroy function of each kind.
Destroyed(h, wild) ==
    CASE kind = "conv"    -> DestroyConv(h, hasInit, wild)
      [] kind = "sse"     ->
             DestroyConv(IF hasInit THEN Free(h, {"oct_lookup"}, wild) ELSE h,
                         hasInit, wild)
      [] kind = "rs"      -> DestroyRs(h, wild)
      [] kind = "viterbi" ->
             Free(DestroyConv(Free(h, {"buf"}, wild), hasInit, wild), {"shim"}, wild)
      [] kind = "rs_char" ->
             Free(DestroyRs(h, wild), {"msg_out", "erasures", "shim"}, wild)

-----------------------------------------------------------------------------
(* Create.                                                                 *)

\* Mutant: the table is forgotten when the reader cannot be made.
ConvUndo_NoTable == <<{}, {"conv"}, {"table", "conv"}, {"bit_writer", "conv"}>>

\* What correct_convolutional_create frees when allocation n fails.
ConvUndo == <<{}, {"conv"}, {"table", "conv"}, {"bit_writer", "table", "conv"}>>

\* The error path of create when allocation n of it fails.
Undone(h, n, wild) ==
    CASE kind = "conv" -> Free(h, ConvUndo[n], wild)
      \* the result of malloc is not tested
      [] kind = "sse"  -> IF n = 1 THEN Use(h, {"conv"}) ELSE Free(h, ConvUndo[n], wild)
      [] kind = "rs"   -> Destroyed(h, wild)
      [] kind = "viterbi" ->
             IF n = 1 THEN h
             ELSE IF n = 2 THEN Destroyed(h, wild)
             ELSE Destroyed(Assign(Free(h, ConvUndo[n - 2], wild), "conv", "null"), wild)
      [] kind = "rs_char" ->
             IF n = 1 THEN h
             ELSE IF n <= 1 + Len(RsFields)
             THEN Destroyed(Assign(DestroyRs(h, wild), "rs", "null"), wild)
             ELSE Destroyed(h, wild)

\* Create goes through when nothing fails.  init_rs_char tests msg_out where it
\* means erasures, so that it also goes through without erasures.
Succeeds(n) == n = 0 \/ (kind = "rs_char" /\ Created(kind)[n] = "erasures")

CodecInit ==
    /\ kind \in Kinds
    /\ handle = "none"
    /\ hasInit = FALSE
    /\ ptr = Fresh(kind)
    /\ failed = {}
    /\ misused = {}

Create(n, wild) ==
    LET h == Allocate([ptr |-> Fresh(kind), misused |-> {}], Created(kind), n)
        r == IF Succeeds(n) THEN h ELSE Undone(h, n, wild)
    IN  /\ handle = "none"
        /\ misused = {}
        /\ handle' = IF Succeeds(n) THEN "held" ELSE "none"
        /\ hasInit' = FALSE
        /\ ptr' = r.ptr
        /\ misused' = r.misused
        /\ failed' = IF n = 0 THEN {} ELSE {Created(kind)[n]}
        /\ UNCHANGED kind

Destroy(wild) ==
    LET r == Destroyed([ptr |-> ptr, misused |-> misused], wild)
    IN  /\ handle = "held"
        /\ misused = {}
        /\ handle' = "none"
        /\ ptr' = r.ptr
        /\ misused' = r.misused
        /\ UNCHANGED <<kind, hasInit, failed>>

-----------------------------------------------------------------------------
(* The first decode, and the others.                                       *)

\* history_buffer_create frees what it has when allocation f of it fails.
HistoryUndone(h, f, wild) ==
    LET freed == IF f = "slices" THEN Free(h, {"history"}, wild) ELSE h
    IN  IF f \in ToSet(HistoryFields)
        THEN Assign(FreeHistory(freed, wild), "history_buffer", "null")
        ELSE h

\* The error path of the initialisation when allocation n of it fails.
InitUndone(h, n, wild) ==
    LET f == Lazy(kind)[n]
    IN  CASE IsRs(kind)       -> Use(DestroyRs(h, wild), {"rs"})   \* the decode goes on
          [] f = "short_outs" -> Use(h, {f})
          [] f = "oct_lookup" -> Teardown(h, TRUE, wild)
          [] OTHER            -> HistoryUndone(h, f, wild)

\* What every decode works on.
Lasting == Fields(kind) \ {"short_outs", "erasures"}

\* Mutant: the Reed-Solomon decoder never sets the flag.
InitFlag_ConvOnly(n) == ~IsRs(kind)

\* has_init_decode after the initialisation: _convolutional_decode_init sets it
\* first, correct_reed_solomon_decoder_create last.
InitFlag(n) == n = 0 \/ ~IsRs(kind)

\* A decode up to its own work; `used` is {"erasures"} when decode_rs_char is
\* given some.  Allocation n fails, if this is the first decode (0: none).
PrepareDecode(n, used, wild) ==
    LET h     == Use([ptr |-> ptr, misused |-> {}], used)
        first == Allocate(h, Lazy(kind), n)
        r     == IF hasInit THEN Use(h, Lasting)
                 ELSE IF n # 0 THEN InitUndone(first, n, wild)
                 ELSE IF kind = "sse" THEN Assign(first, "short_outs", "null")
                 ELSE first
    IN  /\ handle = "held"
        /\ misused = {}
        /\ hasInit => n = 0
        /\ hasInit' = (hasInit \/ InitFlag(n))
        /\ ptr' = r.ptr
        /\ misused' = r.misused
        /\ failed' = IF n = 0 THEN failed ELSE failed \cup {Lazy(kind)[n]}
        /\ UNCHANGED <<kind, handle>>

\* The decode that PrepareDecode(n, ...) begins gets to its work.
Goes(n) == n = 0 /\ misused' = {}

Failing(fields) == 0 .. Len(fields)

\* decode_rs_char may be given erasures.
UsedBefore == IF kind = "rs_char" THEN {{}, {"erasures"}} ELSE {{}}

\* The program is over: it has freed or followed a pointer it must not.
Crashed == misused # {} /\ UNCHANGED codecVars

CodecNext ==
    \/ \E n \in Failing(Created(kind)), wild \in BOOLEAN : Create(n, wild)
    \/ \E n \in Failing(Lazy(kind)), used \in UsedBefore, wild \in BOOLEAN :
           PrepareDecode(n, used, wild)
    \/ \E wild \in BOOLEAN : Destroy(wild)
    \/ Crashed

-----------------------------------------------------------------------------
(* Properties.                                                             *)

\* The allocations whose failure the code does not survive in every case: the
\* lazy ones of the decoders, and of create the ones that leave a field unset
\* which the error path reads, or that are not tested.
Fragile ==
    ToSet(Lazy(kind)) \cup
    CASE kind \in {"conv", "rs"} -> {}
      [] kind = "sse"     -> {"conv"}
      [] kind = "viterbi" -> {"buf"}
      [] kind = "rs_char" -> ToSet(RsFields) \cup {"msg_out", "erasures"}

\* Nothing is freed twice, or freed or followed without having been set, in any
\* order of create, decode and destroy and with any other allocation failing:
\* the error paths of create, and the interplay of has_init_decode with what
\* destroy frees (convolutional.c:22-41, 62-81; reed-solomon.c:14-109;
\* fec_shim.c:16-71, 110-149).
OnlyFragileFailuresMisuse == misused # {} => failed \cap Fragile # {}

\* Whatever allocation failed and wherever: after a create that failed and
\* after destroy nothing the object owned is left.
NothingLeaks ==
    handle = "none" /\ misused = {} => \A f \in DOMAIN ptr : ptr[f] # "live"

\* has_init_decode tells what destroy and the next decode take it for: as long
\* as nothing failed the decoder's fields are set when it is, and only then.
FlagTellsTheTruth ==
    handle = "held" /\ misused = {} /\ failed = {} =>
        \A f \in ToSet(Lazy(kind)) \ {"short_outs"} :
            (ptr[f] = "live") = hasInit
=============================================================================
