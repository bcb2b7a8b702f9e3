---------------------------- MODULE StatsReport -----------------------------
(***************************************************************************)
(* Printing a statistics report into a caller's buffer: stats.rs `print`.  *)
(*                                                                         *)
(* `print` copies the options that jemalloc knows into a fixed array (one  *)
(* byte per step of the loop in normalize_options), then jemalloc calls    *)
(* back with fragments of the report, which PrintBuffer::write collects,   *)
(* and PrintBuffer::finish judges what was collected.  jemalloc (external) *)
(* cuts the report wherever it likes, inside an encoded character too.     *)
(*                                                                         *)
(* Bytes are abstracted to what the code tells apart: an ASCII byte, and   *)
(* the two bytes of a two-byte UTF-8 character.                            *)
(***************************************************************************)
EXTENDS Integers, Sequences, FiniteSets

CONSTANTS
  PRINT_OPTIONS,   \* the option bytes malloc_stats_print knows
  OtherOptions,    \* further bytes a caller may pass, without NUL
  NUL,             \* the zero byte
  MaxOptions,      \* bound: the length of a caller's option string
  Capacity,        \* the length of the caller's buffer
  MaxFragment,     \* bound: the length of a fragment
  MaxFragments     \* bound: the number of fragments of a report

ASSUME OptionsAssumption ==
  /\ IsFiniteSet(PRINT_OPTIONS)
  /\ NUL \notin PRINT_OPTIONS \cup OtherOptions
  /\ Capacity \in Nat /\ MaxOptions \in Nat
  /\ MaxFragment \in Nat /\ MaxFragments \in Nat

\* Room for every known option and the terminator.
PRINT_OPTIONS_CAPACITY == Cardinality(PRINT_OPTIONS) + 1

OptionBytes == PRINT_OPTIONS \cup OtherOptions \cup {NUL}

Bytes == {"ascii", "lead", "tail"}

\* What the caller's buffer holds beforehand: none of the report's bytes.
Stale == "stale"

Strings(S, n) == UNION {[1..k -> S] : k \in 0..n}

Take(s, n) == SubSeq(s, 1, n)

VARIABLES
  pc,          \* "normalize", "print" or "done"
  opts,        \* the options of the caller that are still to be read
  optsBuf,     \* PRINT_OPTIONS_CAPACITY bytes
  optsLen,     \* how many of them are options
  buf,         \* PrintBuffer::buf
  len,         \* PrintBuffer::len
  overflowed,  \* PrintBuffer::overflowed
  given,       \* the caller's options, for reference
  report,      \* jemalloc's report so far, for reference
  fragments,   \* how many fragments it came in
  result       \* what print returned

optVars == <<opts, optsBuf, optsLen>>
bufVars == <<buf, len, overflowed>>
vars == <<pc, optVars, bufVars, given, report, fragments, result>>

None == [tag |-> "none"]
Ok(text) == [tag |-> "ok", text |-> text]
Err(code) == [tag |-> "err", code |-> code]

-----------------------------------------------------------------------------

Init ==
  /\ pc = "normalize"
  /\ given \in Strings(OptionBytes, MaxOptions)
  /\ opts = given
  /\ optsBuf = [i \in 1..PRINT_OPTIONS_CAPACITY |-> NUL]
  /\ optsLen = 0
  /\ buf = [i \in 1..Capacity |-> Stale]
  /\ len = 0 /\ overflowed = FALSE          \* PrintBuffer::new
  /\ report = <<>> /\ fragments = 0
  /\ result = None

\* Bug: an option given twice is stored twice.
Kept_Duplicates(option) == option \in PRINT_OPTIONS

\* The options that are stored: the known ones, the first time.
Kept(option) ==
  /\ option \in PRINT_OPTIONS
  /\ \A i \in 1..optsLen : optsBuf[i] # option

\* One turn of the loop of normalize_options; a NUL ends the call.
normalize_options ==
  /\ pc = "normalize"
  /\ opts # <<>>
  /\ opts' = Tail(opts)
  /\ LET option == Head(opts)
     IN  \/ /\ option = NUL
            /\ pc' = "done"
            /\ result' = Err("EINVAL")
            /\ UNCHANGED <<optsBuf, optsLen>>
         \/ /\ option # NUL /\ Kept(option)
            /\ optsBuf' = [optsBuf EXCEPT ![optsLen + 1] = option]
            /\ optsLen' = optsLen + 1
            /\ UNCHANGED <<pc, result>>
         \/ /\ option # NUL /\ ~ Kept(option)
            /\ UNCHANGED <<pc, result, optsBuf, optsLen>>
  /\ UNCHANGED <<bufVars, given, report, fragments>>

\* The options are read: malloc_stats_print is called.
print_raw ==
  /\ pc = "normalize"
  /\ opts = <<>>
  /\ pc' = "print"
  /\ UNCHANGED <<optVars, bufVars, given, report, fragments, result>>

\* Bug: a fragment that does not fit is dropped, and the next one is tried.
write_NoLatch(fragment) ==
  LET end == len + Len(fragment)
  IN  IF end > Capacity
      THEN UNCHANGED bufVars
      ELSE /\ buf' = [i \in 1..Capacity |->
                        IF i \in (len + 1)..end THEN fragment[i - len] ELSE buf[i]]
           /\ len' = end
           /\ UNCHANGED overflowed

\* PrintBuffer::write.  A sum that overflows (checked_add) exceeds Capacity.
write(fragment) ==
  LET end == len + Len(fragment)
  IN  IF overflowed \/ end > Capacity
      THEN overflowed' = TRUE /\ UNCHANGED <<buf, len>>
      ELSE /\ buf' = [i \in 1..Capacity |->
                        IF i \in (len + 1)..end THEN fragment[i - len] ELSE buf[i]]
           /\ len' = end
           /\ UNCHANGED overflowed

\* jemalloc calls write_fragment with a piece of the report.
write_fragment(fragment) ==
  /\ pc = "print"
  /\ fragments < MaxFragments
  /\ fragments' = fragments + 1
  /\ report' = report \o fragment
  /\ write(fragment)
  /\ UNCHANGED <<pc, optVars, given, result>>

\* str::from_utf8 accepts s.
ValidUtf8(s) ==
  \A i \in 1..Len(s) :
    /\ s[i] = "lead" => i < Len(s) /\ s[i + 1] = "tail"
    /\ s[i] = "tail" => i > 1 /\ s[i - 1] = "lead"

\* malloc_stats_print returns, and PrintBuffer::finish.
finish ==
  /\ pc = "print"
  /\ pc' = "done"
  /\ result' = IF overflowed THEN Err("ENOSPC")
               ELSE IF ValidUtf8(Take(buf, len)) THEN Ok(Take(buf, len))
               ELSE Err("EILSEQ")
  /\ UNCHANGED <<optVars, bufVars, given, report, fragments>>

Next ==
  \/ normalize_options \/ print_raw \/ finish
  \/ \E fragment \in Strings(Bytes, MaxFragment) : write_fragment(fragment)

Spec == Init /\ [][Next]_vars

-----------------------------------------------------------------------------
(* Properties *)

\* jemalloc is called with a C string that holds every option of the caller
\* that it knows, each once, and ends at the first NUL of the array: there is
\* one, which from_bytes_with_nul_unchecked relies on.
OptionsReachJemalloc ==
  (pc = "print") =>
    /\ optsLen < PRINT_OPTIONS_CAPACITY
    /\ {optsBuf[i] : i \in 1..optsLen} =
         {given[i] : i \in 1..Len(given)} \cap PRINT_OPTIONS
    /\ \A i, j \in 1..optsLen : optsBuf[i] = optsBuf[j] => i = j
    /\ \A i \in (optsLen + 1)..PRINT_OPTIONS_CAPACITY : optsBuf[i] = NUL

\* "`EINVAL` if `opts` contains a NUL, `ENOSPC` if `buf` cannot hold the
\* complete report, or `EILSEQ` if the report is not valid UTF-8"
\* (stats.rs:66), and otherwise the whole report: a character that was cut
\* between two fragments is put together again, and bytes that were in the
\* buffer beforehand are never returned.
PrintContract ==
  (pc = "done") =>
    result = IF \E i \in 1..Len(given) : given[i] = NUL THEN Err("EINVAL")
             ELSE IF Len(report) > Capacity THEN Err("ENOSPC")
             ELSE IF ~ ValidUtf8(report) THEN Err("EILSEQ")
             ELSE Ok(report)

=============================================================================
