---------------------------- MODULE ControlCall -----------------------------
(***************************************************************************)
(* Typed control calls: get, get_in_place, set, update (and xchg, which is *)
(* update with one type) and notify of ctl/raw.rs.                         *)
(*                                                                         *)
(* A call lends jemalloc storage whose size is that of a Rust type, and    *)
(* afterwards takes the storage for a value of that type.  The types are   *)
(* the caller's word; the control has sizes of its own.  What jemalloc     *)
(* (external) does about a difference depends on the control: it may have  *)
(* carried the write out, or filled a part of the storage, before it       *)
(* notices.  A library in place of the bundled one may not notice at all.  *)
(* It may also carry a correct call out and then decline: the setting of   *)
(* background_thread has taken effect when starting the threads fails      *)
(* (lib.rs:91).                                                            *)
(*                                                                         *)
(* A value is a sequence of bytes, of which the model tells apart the ones *)
(* that jemalloc wrote, the caller's and those nobody wrote.               *)
(***************************************************************************)
EXTENDS Integers, Sequences

CONSTANTS
  MaxSize,   \* bound on the size of a type
  EINVAL,    \* the status of a call with the wrong size
  EPERM,     \* the status of a call that the control does not allow
  Codes,     \* further statuses, with which jemalloc declines or fails
  Strict     \* jemalloc reports every difference in size

ASSUME CallAssumption ==
  /\ MaxSize \in Nat
  /\ {EINVAL, EPERM} \cup Codes \subseteq Int \ {0}
  /\ Strict \in BOOLEAN

Sizes == 0..MaxSize

VARIABLES
  control,   \* the sizes of the control's input and output, 0 for none, and
             \* whether it writes before it looks at the output's size
  request,   \* the last call, if any, and the sizes of its types
  result,    \* what it returned: "ok" with a value, "err" or "panic"
  effect     \* whether it changed the control, or ran its command

controlVars == <<control, request, result, effect>>

Bytes(n, byte) == [i \in 1..n |-> byte]

Ok(value) == [tag |-> "ok", value |-> value, code |-> 0]
Err(code) == [tag |-> "err", value |-> <<>>, code |-> code]
Panicked == [tag |-> "panic", value |-> <<>>, code |-> 0]

Least(m, n) == IF m < n THEN m ELSE n

-----------------------------------------------------------------------------
(* jemalloc *)

Response(status, out, len, did) == [status |-> status, out |-> out, len |-> len, effect |-> did]

\* The first n bytes of storage are jemalloc's.
Filled(storage, n) == [i \in 1..Len(storage) |-> IF i <= n THEN "jemalloc" ELSE storage[i]]

\* It may fail for reasons of its own, before or after it has filled that part
\* of the storage and has done what it was asked for.
Failed(storage, part, asked) ==
  [status : Codes, out : {storage, Filled(storage, part)}, len : {Len(storage)},
   effect : {FALSE, asked}]

\* What mallctlbymib may do, given storage for the output and an input of
\* inputLen bytes; zero bytes are a null pointer.
mallctlbymib(inputLen, storage) ==
  LET n == Len(storage)
      reads == n > 0
      writes == inputLen > 0
      part == Least(n, control.output)
      command == ~ reads /\ ~ writes
  IN  Failed(storage, part, writes \/ command) \cup
      IF (reads /\ control.output = 0) \/ (writes /\ control.input = 0)
      THEN {Response(EPERM, storage, n, FALSE)}
      ELSE IF writes /\ inputLen # control.input
      THEN {Response(EINVAL, IF control.writesFirst THEN storage ELSE Filled(storage, part), n, FALSE)}
      ELSE IF reads /\ n # control.output
      THEN {Response(EINVAL, Filled(storage, part), part, writes /\ control.writesFirst)} \cup
           (IF Strict THEN {} ELSE {Response(0, Filled(storage, part), part, writes)})
      ELSE {Response(0, Filled(storage, n), n, writes \/ command)}

-----------------------------------------------------------------------------
(* ctl/raw.rs *)

\* Bug: only a negative status is taken for an error.
into_result_Negative(status) == status >= 0

\* Status zero is success; any other is an Error, with its code.
into_result(status) == status = 0

\* Bug: the reported size is not looked at.
SizeExpected_Ignored(response, expected) == TRUE

\* assert_eq!(value_len, expected).
SizeExpected(response, expected) == response.len = expected

\* The call returns, after jemalloc responded; value says whether it returns
\* what is in the storage.
Conclude(response, expected, value) ==
  IF ~ into_result(response.status) THEN Err(response.status)
  ELSE IF ~ SizeExpected(response, expected) THEN Panicked
  ELSE Ok(IF value THEN response.out ELSE <<>>)

\* A control call with an input of inputLen bytes and this storage.
Perform(inputLen, storage, value) ==
  \E response \in mallctlbymib(inputLen, storage) :
    /\ result' = Conclude(response, Len(storage), value)
    /\ effect' = response.effect

\* The assertions on zero-sized types panic before jemalloc is called.
Refuse == result' = Panicked /\ effect' = FALSE

Asked(op, inputLen, outputLen) ==
  /\ request' = [op |-> op, input |-> inputLen, output |-> outputLen]
  /\ UNCHANGED control

get(n) ==
  /\ Asked("get", 0, n)
  /\ IF n = 0 THEN Refuse ELSE Perform(0, Bytes(n, "nobody"), TRUE)

\* The storage is the caller's, and the caller reads it.
get_in_place(n) ==
  /\ Asked("get_in_place", 0, n)
  /\ IF n = 0 THEN Refuse ELSE Perform(0, Bytes(n, "caller"), FALSE)

set(n) ==
  /\ Asked("set", n, 0)
  /\ IF n = 0 THEN Refuse ELSE Perform(n, <<>>, FALSE)

\* Bug: the output storage has the size of the input.
update_InputSize(m, n) ==
  /\ Asked("update", m, n)
  /\ IF m = 0 \/ n = 0 THEN Refuse ELSE Perform(m, Bytes(m, "nobody"), TRUE)

update(m, n) ==
  /\ Asked("update", m, n)
  /\ IF m = 0 \/ n = 0 THEN Refuse ELSE Perform(m, Bytes(n, "nobody"), TRUE)

notify ==
  /\ Asked("notify", 0, 0)
  /\ Perform(0, <<>>, FALSE)

ControlInit ==
  /\ control \in [input : Sizes, output : Sizes, writesFirst : BOOLEAN]
  /\ request = [op |-> "none", input |-> 0, output |-> 0]
  /\ result = Ok(<<>>)
  /\ effect = FALSE

ControlNext ==
  \/ \E n \in Sizes : get(n) \/ get_in_place(n) \/ set(n)
  \/ \E m, n \in Sizes : update(m, n)
  \/ notify

ControlSpec == ControlInit /\ [][ControlNext]_controlVars

-----------------------------------------------------------------------------
(* Properties *)

\* The operations that return a value, and those whose type has no bytes.
ReturnsValue == request.op \in {"get", "update"}

ZeroSized ==
  \/ request.op \in {"get", "get_in_place", "update"} /\ request.output = 0
  \/ request.op \in {"set", "update"} /\ request.input = 0

\* A value that is returned is one that jemalloc wrote, all of it: storage
\* that was never initialised is not taken for a value, whatever the sizes
\* and whatever jemalloc did before it failed.
ValuesAreJemallocs ==
  ReturnsValue /\ result.tag = "ok" =>
    /\ Len(result.value) = request.output
    /\ \A i \in 1..Len(result.value) : result.value[i] = "jemalloc"

\* "An error does not universally prove that no side effect occurred"
\* (raw.rs:217), whatever the types; but Ok proves that the write was made or
\* the command run, and a read alone changes nothing.  And when the caller's
\* types are the control's, as the safety contract demands, only a type
\* without bytes panics, and that before anything is written: no write is
\* made behind a panic.
OkMeansDone ==
  /\ result.tag = "ok" => (effect <=> request.op \in {"set", "update", "notify"})
  /\ (request.output \in {0, control.output} /\ request.input \in {0, control.input}) =>
       (result.tag = "panic" => ZeroSized /\ ~ effect)

=============================================================================
