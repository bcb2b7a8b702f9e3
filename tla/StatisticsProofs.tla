-------------------------- MODULE StatisticsProofs --------------------------
(***************************************************************************)
(* Proofs about StatsEpoch, for any number of threads, refreshes, getters  *)
(* called and changes of the counters, and about StatsReport, for any      *)
(* options, any buffer and any way to cut a report into fragments.         *)
(***************************************************************************)
EXTENDS Statistics, SequenceTheorems, FiniteSetTheorems, TLAPS

(* StatsEpoch *)

Snapshot == [counters : Counters, clock : Nat]

AnswerRecord == [stat : Cached \cup {"zero_reallocs"}, value : Nat, clock : Nat]

SampleRecord ==
  [epoch : Nat, since : Nat, got : SUBSET AnswerRecord, confirmed : BOOLEAN]

EpochTypeOK ==
  /\ live \in Counters
  /\ clock \in Nat
  /\ epoch \in 1..MaxEpoch
  /\ taken \in [1..MaxEpoch -> Snapshot]
  /\ sample \in [Threads -> SampleRecord]

\* A snapshot shows the past, and a thread knows of no later epoch.
EpochsInOrder ==
  /\ taken[epoch].clock <= clock
  /\ \A t \in Threads : sample[t].epoch \in 0..epoch

\* What a thread waits for, the current snapshot has.
RefreshesShow == \A t \in Threads : sample[t].since <= taken[epoch].clock

\* While the epoch a thread has seen lasts, its answers are of that snapshot.
AnswersAreCurrent ==
  \A t \in Threads : sample[t].epoch = epoch =>
    \A a \in CachedAnswers(t) : a.value = taken[epoch].counters[a.stat]

\* A sample that was found to be of one epoch is of a snapshot.
ConfirmedIsOneEpoch ==
  \A t \in Threads : sample[t].confirmed =>
    /\ sample[t].epoch # 0
    /\ \A a \in CachedAnswers(t) :
         a.value = taken[sample[t].epoch].counters[a.stat]

\* The inductive invariant.  When the epoch is found unchanged, what was read
\* since must already be of its snapshot, whether or not the thread ever asks:
\* AnswersAreCurrent, which a refresh by another thread makes void because
\* epochs do not come back.
EpochIInv ==
  /\ EpochTypeOK
  /\ EpochsInOrder
  /\ RefreshesShow
  /\ AnswersAreCurrent
  /\ ConfirmedIsOneEpoch
  /\ ReadsAreFresh

LEMMA CountersFacts ==
  ASSUME NEW c \in Counters
  PROVE  /\ c.allocated \in Nat /\ c.active \in Nat /\ c.zero_reallocs \in Nat
         /\ c.active >= c.allocated
         /\ \A s \in Cached : c[s] \in Nat
<1>1. /\ c.allocated \in Nat /\ c.active \in Nat /\ c.zero_reallocs \in Nat
      /\ c.active >= c.allocated
  BY EpochAssumption DEF Counters
<1>2. c["allocated"] = c.allocated /\ c["active"] = c.active
  OBVIOUS
<1>3. QED
  BY <1>1, <1>2 DEF Cached

LEMMA NoSampleFacts ==
  /\ NoSample \in SampleRecord
  /\ NoSample.epoch = 0 /\ NoSample.since = 0 /\ NoSample.got = {}
  /\ NoSample.confirmed = FALSE
BY DEF NoSample, SampleRecord

\* A sample that begins.
Begun(e, s) == [NoSample EXCEPT !.epoch = e, !.since = s]

LEMMA BegunFacts ==
  ASSUME NEW e \in Nat, NEW s \in Nat
  PROVE  /\ Begun(e, s) \in SampleRecord
         /\ Begun(e, s).epoch = e /\ Begun(e, s).since = s
         /\ Begun(e, s).got = {} /\ Begun(e, s).confirmed = FALSE
BY DEF Begun, NoSample, SampleRecord

Answered(stat, value, at) == [stat |-> stat, value |-> value, clock |-> at]

LEMMA AnsweredFacts ==
  ASSUME NEW stat \in Cached \cup {"zero_reallocs"}, NEW value \in Nat, NEW at \in Nat
  PROVE  /\ Answered(stat, value, at) \in AnswerRecord
         /\ Answered(stat, value, at).stat = stat
         /\ Answered(stat, value, at).value = value
         /\ Answered(stat, value, at).clock = at
BY DEF Answered, AnswerRecord

LEMMA EpochInitIInv == EpochInit => EpochIInv
<1> SUFFICES ASSUME EpochInit PROVE EpochIInv
  OBVIOUS
<1> USE DEF EpochInit
<1>0. /\ MaxEpoch \in Nat \ {0} /\ MaxClock \in Nat /\ MaxBytes \in Nat
      /\ Page \in Nat \ {0}
  BY EpochAssumption
<1>1. 0 % Page = 0
  BY <1>0
<1>2. live \in Counters
  BY <1>0, <1>1 DEF Counters
<1>3. \A e \in 1..MaxEpoch : taken[e] \in Snapshot /\ taken[e].clock = 0
  BY <1>2 DEF Snapshot
<1>4. EpochTypeOK
  BY <1>0, <1>2, <1>3, NoSampleFacts DEF EpochTypeOK
<1>5. \A t \in Threads : sample[t] = NoSample /\ CachedAnswers(t) = {}
  BY NoSampleFacts DEF CachedAnswers
<1>6. taken[epoch].clock = 0
  BY <1>0, <1>3
<1>7. EpochsInOrder /\ RefreshesShow
  <2>1. \A t \in Threads : sample[t].epoch = 0 /\ sample[t].since = 0
    BY <1>5, NoSampleFacts
  <2>2. \A t \in Threads : sample[t].epoch \in 0..epoch
    BY <2>1
  <2>3. taken[epoch].clock <= clock
    BY <1>6
  <2>4. QED
    BY <1>6, <2>1, <2>2, <2>3 DEF EpochsInOrder, RefreshesShow
<1>8. AnswersAreCurrent /\ ConfirmedIsOneEpoch
  BY <1>5, NoSampleFacts DEF AnswersAreCurrent, ConfirmedIsOneEpoch
<1>9. ReadsAreFresh
  BY <1>5, NoSampleFacts DEF ReadsAreFresh
<1>10. QED
  BY <1>4, <1>7, <1>8, <1>9 DEF EpochIInv

LEMMA EpochNextIInv == EpochIInv /\ [EpochNext]_epochVars => EpochIInv'
<1> SUFFICES ASSUME EpochIInv, [EpochNext]_epochVars PROVE EpochIInv'
  OBVIOUS
<1>0. /\ EpochTypeOK /\ EpochsInOrder /\ RefreshesShow /\ AnswersAreCurrent
      /\ ConfirmedIsOneEpoch /\ ReadsAreFresh
  BY DEF EpochIInv
<1>a. MaxEpoch \in Nat /\ epoch \in Nat /\ epoch >= 1 /\ epoch <= MaxEpoch
  BY <1>0, EpochAssumption DEF EpochTypeOK
<1>b. \A e \in 1..MaxEpoch : /\ taken[e] \in Snapshot
                             /\ taken[e].counters \in Counters
                             /\ taken[e].clock \in Nat
  BY <1>0 DEF EpochTypeOK, Snapshot
<1>c. \A t \in Threads : /\ sample[t].epoch \in Nat /\ sample[t].since \in Nat
                         /\ sample[t].got \in SUBSET AnswerRecord
                         /\ sample[t].confirmed \in BOOLEAN
  BY <1>0 DEF EpochTypeOK, SampleRecord
<1>d. \A t \in Threads : sample[t].epoch <= epoch
  BY <1>0, <1>a DEF EpochsInOrder
\* The snapshots so far stay, and the threads but one know what they did.
<1>e. ASSUME Refresh, NEW T \in SUBSET Threads, UNCHANGED <<live, clock>>,
             \A u \in Threads \ T : sample'[u] = sample[u],
             \A t \in T : /\ sample'[t].epoch = epoch' /\ sample'[t].since = clock
                          /\ sample'[t].got = {} /\ sample'[t].confirmed = FALSE,
             EpochTypeOK'
      PROVE  EpochIInv'
  <2>1. /\ epoch' = epoch + 1 /\ epoch' \in 1..MaxEpoch
        /\ taken'[epoch'].clock = clock
        /\ \A e \in 1..epoch : taken'[e] = taken[e]
    BY <1>0, <1>a, <1>e DEF Refresh, EpochTypeOK
  <2>2. clock \in Nat /\ clock' = clock /\ taken[epoch].clock <= clock
    BY <1>0, <1>e DEF EpochTypeOK, EpochsInOrder
  <2>3. EpochsInOrder'
    BY <1>a, <1>c, <1>d, <1>e, <2>1, <2>2 DEF EpochsInOrder
  <2>4. RefreshesShow'
    BY <1>0, <1>a, <1>b, <1>c, <1>e, <2>1, <2>2 DEF RefreshesShow
  <2>5. AnswersAreCurrent'
    BY <1>a, <1>c, <1>d, <1>e, <2>1 DEF AnswersAreCurrent, CachedAnswers
  <2>6. ConfirmedIsOneEpoch'
    BY <1>0, <1>a, <1>c, <1>d, <1>e, <2>1 DEF ConfirmedIsOneEpoch, CachedAnswers
  <2>7. ReadsAreFresh'
    BY <1>0, <1>a, <1>c, <1>d, <1>e, <2>1, <2>2 DEF ReadsAreFresh
  <2>8. QED
    BY <1>e, <2>3, <2>4, <2>5, <2>6, <2>7 DEF EpochIInv
<1>f. ASSUME Refresh, UNCHANGED <<live, clock>>, sample' \in [Threads -> SampleRecord]
      PROVE  EpochTypeOK'
  <2>1. [counters |-> live, clock |-> clock] \in Snapshot
    BY <1>0 DEF EpochTypeOK, Snapshot
  <2>2. QED
    BY <1>0, <1>a, <1>f, <2>1 DEF EpochTypeOK, Refresh
<1>1. CASE Activity
  <2>1. live' \in Counters /\ clock' \in Nat /\ clock' = clock + 1
        /\ UNCHANGED <<epoch, taken, sample>>
    BY <1>0, <1>1 DEF Activity, EpochTypeOK
  <2>2. EpochTypeOK'
    BY <1>0, <2>1 DEF EpochTypeOK
  <2>3. EpochsInOrder'
    BY <1>0, <1>a, <1>b, <2>1 DEF EpochsInOrder, EpochTypeOK
  <2>4. RefreshesShow' /\ AnswersAreCurrent' /\ ConfirmedIsOneEpoch' /\ ReadsAreFresh'
    BY <1>0, <2>1 DEF RefreshesShow, AnswersAreCurrent, ConfirmedIsOneEpoch,
                      ReadsAreFresh, CachedAnswers
  <2>5. QED
    BY <2>2, <2>3, <2>4 DEF EpochIInv
<1>2. ASSUME NEW t \in Threads, get_epoch(t) PROVE EpochIInv'
  <2>0. UNCHANGED <<live, clock, epoch, taken>>
    BY <1>2 DEF get_epoch
  <2>1. CASE sample[t].epoch = epoch
    <3>1. sample' = [sample EXCEPT ![t] = [@ EXCEPT !.confirmed = TRUE]]
      BY <1>2, <2>1 DEF get_epoch
    <3>2. /\ sample' \in [Threads -> SampleRecord]
          /\ \A u \in Threads : /\ sample'[u].epoch = sample[u].epoch
                                /\ sample'[u].since = sample[u].since
                                /\ sample'[u].got = sample[u].got
      BY <1>0, <3>1 DEF EpochTypeOK, SampleRecord
    <3>3. \A u \in Threads \ {t} : sample'[u].confirmed = sample[u].confirmed
      BY <1>0, <3>1 DEF EpochTypeOK
    <3>4. EpochTypeOK'
      BY <1>0, <2>0, <3>2 DEF EpochTypeOK
    <3>5. EpochsInOrder' /\ RefreshesShow' /\ AnswersAreCurrent' /\ ReadsAreFresh'
      BY <1>0, <2>0, <3>2 DEF EpochsInOrder, RefreshesShow, AnswersAreCurrent,
                              ReadsAreFresh, CachedAnswers
    <3>6. ConfirmedIsOneEpoch'
      BY <1>0, <1>a, <2>0, <2>1, <3>2, <3>3
      DEF ConfirmedIsOneEpoch, AnswersAreCurrent, CachedAnswers
    <3>7. QED
      BY <3>4, <3>5, <3>6 DEF EpochIInv
  <2>2. CASE sample[t].epoch # epoch
    <3>2. PICK begun \in SampleRecord :
            /\ begun = Begun(epoch, sample[t].since)
            /\ begun.epoch = epoch /\ begun.since = sample[t].since
            /\ begun.got = {} /\ begun.confirmed = FALSE
      BY <1>a, <1>c, BegunFacts
    <3>1. sample' = [sample EXCEPT ![t] = begun]
      BY <1>2, <2>2, <3>2 DEF get_epoch, Begun
    <3>3. /\ sample' \in [Threads -> SampleRecord]
          /\ sample'[t].epoch = epoch /\ sample'[t].since = sample[t].since
          /\ sample'[t].got = {} /\ sample'[t].confirmed = FALSE
          /\ \A u \in Threads \ {t} : sample'[u] = sample[u]
      BY <1>0, <3>1, <3>2 DEF EpochTypeOK
    <3>4. EpochTypeOK'
      BY <1>0, <2>0, <3>3 DEF EpochTypeOK
    <3>5. EpochsInOrder'
      BY <1>0, <1>a, <2>0, <3>3 DEF EpochsInOrder
    <3>6. RefreshesShow'
      BY <1>0, <2>0, <3>3 DEF RefreshesShow
    <3>7. AnswersAreCurrent' /\ ConfirmedIsOneEpoch'
      BY <1>0, <2>0, <3>3 DEF AnswersAreCurrent, ConfirmedIsOneEpoch, CachedAnswers
    <3>8. ReadsAreFresh'
      <4>1. taken[epoch].clock >= sample[t].since
        BY <1>0, <1>a, <1>b, <1>c DEF RefreshesShow
      <4>2. QED
        BY <1>0, <2>0, <3>3, <4>1 DEF ReadsAreFresh
    <3>9. QED
      BY <3>4, <3>5, <3>6, <3>7, <3>8 DEF EpochIInv
  <2>3. QED
    BY <2>1, <2>2
<1>3. ASSUME NEW t \in Threads, refresh_epoch(t) PROVE EpochIInv'
  <2>1. Refresh /\ UNCHANGED <<live, clock>>
    BY <1>3 DEF refresh_epoch
  <2>2. epoch' \in Nat /\ clock \in Nat
    BY <1>0, <1>a, <2>1 DEF Refresh, EpochTypeOK
  <2>a. PICK e \in Nat : e = epoch'
    BY <2>2
  <2>b. PICK begun : begun = Begun(e, clock)
    OBVIOUS
  <2>c. /\ begun \in SampleRecord
        /\ begun.epoch = e /\ begun.since = clock
        /\ begun.got = {} /\ begun.confirmed = FALSE
    BY <2>2, <2>b, BegunFacts, ZenonT(60)
  <2>3. /\ begun \in SampleRecord
        /\ begun.epoch = epoch' /\ begun.since = clock
        /\ begun.got = {} /\ begun.confirmed = FALSE
    BY <2>a, <2>c
  <2>9. sample' = [sample EXCEPT ![t] = begun]
    BY <1>3, <2>a, <2>b DEF refresh_epoch, Begun
  <2>4. /\ sample' \in [Threads -> SampleRecord]
        /\ sample'[t] = begun
        /\ \A u \in Threads \ {t} : sample'[u] = sample[u]
    BY <1>0, <2>3, <2>9 DEF EpochTypeOK
  <2>5. EpochTypeOK'
    BY <1>f, <2>1, <2>4
  <2>6. {t} \in SUBSET Threads
    OBVIOUS
  <2>7. \A v \in {t} : /\ sample'[v].epoch = epoch' /\ sample'[v].since = clock
                       /\ sample'[v].got = {} /\ sample'[v].confirmed = FALSE
    BY <2>3, <2>4
  <2>8. QED
    BY <1>e, <2>1, <2>4, <2>5, <2>6, <2>7
<1>4. ASSUME NEW t \in Threads, PrintRefreshes(t) PROVE EpochIInv'
  <2>1. Refresh /\ UNCHANGED <<live, clock>> /\ sample' = sample
    BY <1>4 DEF PrintRefreshes
  <2>2. EpochTypeOK'
    BY <1>0, <1>f, <2>1 DEF EpochTypeOK
  <2>3. {} \in SUBSET Threads
    OBVIOUS
  <2>4. QED
    BY <1>e, <2>1, <2>2, <2>3
<1>5. ASSUME NEW t \in Threads, NEW stat \in Cached \cup {"zero_reallocs"},
             NEW value \in Nat, NEW at \in Nat, Answer(t, stat, value, at),
             at >= sample[t].since,
             stat \in Cached => value = taken[epoch].counters[stat]
      PROVE  EpochIInv'
  <2>0. UNCHANGED <<live, clock, epoch, taken>>
    BY <1>5 DEF Answer
  <2>a. PICK answer \in AnswerRecord :
          /\ answer = Answered(stat, value, at)
          /\ answer.stat = stat /\ answer.value = value /\ answer.clock = at
    BY AnsweredFacts
  <2>1. sample' = [sample EXCEPT ![t].got = @ \cup {answer}, ![t].confirmed = FALSE]
    BY <1>5, <2>a DEF Answer, Answered
  <2>2. /\ sample' \in [Threads -> SampleRecord]
        /\ sample'[t].epoch = sample[t].epoch /\ sample'[t].since = sample[t].since
        /\ sample'[t].got = sample[t].got \cup {answer}
        /\ \A u \in Threads \ {t} : sample'[u] = sample[u]
    BY <1>0, <2>1 DEF EpochTypeOK, SampleRecord
  <2>3. sample'[t].confirmed = FALSE
    BY <1>0, <2>1 DEF EpochTypeOK, SampleRecord
  <2>4. EpochTypeOK'
    BY <1>0, <2>0, <2>2 DEF EpochTypeOK
  <2>5. EpochsInOrder' /\ RefreshesShow'
    BY <1>0, <2>0, <2>2 DEF EpochsInOrder, RefreshesShow
  <2>6. AnswersAreCurrent'
    BY <1>0, <1>5, <2>0, <2>a, <2>2 DEF AnswersAreCurrent, CachedAnswers
  <2>7. ConfirmedIsOneEpoch'
    BY <1>0, <2>0, <2>2, <2>3 DEF ConfirmedIsOneEpoch, CachedAnswers
  <2>8. ReadsAreFresh'
    BY <1>0, <1>5, <2>0, <2>a, <2>2 DEF ReadsAreFresh
  <2>9. QED
    BY <2>4, <2>5, <2>6, <2>7, <2>8 DEF EpochIInv
<1>6. ASSUME NEW t \in Threads, zero_reallocs(t) PROVE EpochIInv'
  <2>1. live.zero_reallocs \in Nat /\ clock \in Nat
    BY <1>0, CountersFacts DEF EpochTypeOK
  <2>2. clock >= sample[t].since
    BY <1>0, <1>a, <1>b, <1>c, <2>1 DEF RefreshesShow, EpochsInOrder
  <2>3. "zero_reallocs" \notin Cached
    BY DEF Cached
  <2>4. QED
    BY <1>5, <1>6, <2>1, <2>2, <2>3 DEF zero_reallocs
<1>7. ASSUME NEW t \in Threads, NEW getter \in Cached, get(t, getter) PROVE EpochIInv'
  <2>1. Answer(t, getter, taken[epoch].counters[getter], taken[epoch].clock)
    BY <1>7 DEF get, KeyOf
  <2>2. taken[epoch].counters[getter] \in Nat /\ taken[epoch].clock \in Nat
    BY <1>a, <1>b, CountersFacts
  <2>3. taken[epoch].clock >= sample[t].since
    BY <1>0, <1>a, <1>b, <1>c DEF RefreshesShow
  <2>4. QED
    BY <1>5, <2>1, <2>2, <2>3
<1>8. CASE UNCHANGED epochVars
  <2>1. EpochTypeOK' /\ EpochsInOrder' /\ RefreshesShow'
    BY <1>0, <1>8 DEF epochVars, EpochTypeOK, EpochsInOrder, RefreshesShow
  <2>2. AnswersAreCurrent' /\ ConfirmedIsOneEpoch' /\ ReadsAreFresh'
    BY <1>0, <1>8 DEF epochVars, AnswersAreCurrent, ConfirmedIsOneEpoch,
                      ReadsAreFresh, CachedAnswers
  <2>3. QED
    BY <2>1, <2>2 DEF EpochIInv
<1>9. QED
  BY <1>1, <1>2, <1>3, <1>4, <1>6, <1>7, <1>8 DEF EpochNext

\* What a confirmed sample is, from its answers and the counters they are of.
LEMMA OneMomentFollows == EpochIInv => ComparedSampleIsOneMoment
<1> SUFFICES ASSUME EpochIInv, NEW t \in Threads, sample[t].confirmed
             PROVE  /\ \A a \in CachedAnswers(t) :
                         a.value = taken[sample[t].epoch].counters[a.stat]
                    /\ \A a, b \in CachedAnswers(t) :
                         a.stat = "allocated" /\ b.stat = "active" => b.value >= a.value
  BY DEF ComparedSampleIsOneMoment
<1>1. \A a \in CachedAnswers(t) : a.value = taken[sample[t].epoch].counters[a.stat]
  BY DEF EpochIInv, ConfirmedIsOneEpoch
<1>2. sample[t].epoch \in 1..MaxEpoch
  BY EpochAssumption
  DEF EpochIInv, EpochTypeOK, EpochsInOrder, ConfirmedIsOneEpoch
<1>3. taken[sample[t].epoch].counters \in Counters
  BY <1>2 DEF EpochIInv, EpochTypeOK, Snapshot
<1>4. /\ taken[sample[t].epoch].counters["active"] \in Nat
      /\ taken[sample[t].epoch].counters["allocated"] \in Nat
      /\ taken[sample[t].epoch].counters["active"] >=
           taken[sample[t].epoch].counters["allocated"]
  BY <1>3, CountersFacts
<1>5. QED
  BY <1>1, <1>4

\* A thread that learns an epoch, calls getters and finds the same epoch has
\* read values of one snapshot, whatever the other threads refreshed.
THEOREM ComparedSamplesAreOneMoment == EpochSpec => []ComparedSampleIsOneMoment
<1>1. EpochSpec => []EpochIInv
  BY EpochInitIInv, EpochNextIInv, PTL DEF EpochSpec
<1>2. QED
  BY <1>1, OneMomentFollows, PTL

\* Nothing that a thread reads after its refresh_epoch is older than that.
THEOREM RefreshedReadsAreFresh == EpochSpec => []ReadsAreFresh
<1>1. EpochIInv => ReadsAreFresh
  BY DEF EpochIInv
<1>2. QED
  BY <1>1, EpochInitIInv, EpochNextIInv, PTL DEF EpochSpec

-----------------------------------------------------------------------------
(* StatsReport *)

ReportTypeOK ==
  /\ pc \in {"normalize", "print", "done"}
  /\ given \in Seq(OptionBytes)
  /\ opts \in Seq(OptionBytes)
  /\ optsBuf \in [1..PRINT_OPTIONS_CAPACITY -> OptionBytes]
  /\ optsLen \in 0..Cardinality(PRINT_OPTIONS)
  /\ buf \in [1..Capacity -> Bytes \cup {Stale}]
  /\ len \in 0..Capacity
  /\ overflowed \in BOOLEAN
  /\ report \in Seq(Bytes)

\* How many of the caller's options the loop has read.
Read == Len(given) - Len(opts)

\* The rest is still as the caller gave it.
RestIsUnread ==
  /\ Len(opts) <= Len(given)
  /\ \A i \in 1..Len(opts) : opts[i] = given[Read + i]
  /\ pc = "print" => opts = <<>>

\* The array holds the known options among those that were read, each once.
StoredAreRead ==
  /\ {optsBuf[i] : i \in 1..optsLen} = {given[i] : i \in 1..Read} \cap PRINT_OPTIONS
  /\ \A i, j \in 1..optsLen : optsBuf[i] = optsBuf[j] => i = j
  /\ \A i \in (optsLen + 1)..PRINT_OPTIONS_CAPACITY : optsBuf[i] = NUL

\* A NUL that was read has ended the call.
NoNulRead == pc # "done" => \A i \in 1..Read : given[i] # NUL

\* The buffer holds the whole report so far, or the report does not fit.
Collected ==
  /\ overflowed => Len(report) > Capacity
  /\ ~ overflowed => len = Len(report) /\ \A i \in 1..len : buf[i] = report[i]

\* The inductive invariant.  That the array has room for every option that is
\* kept, and for the terminator, is in ReportTypeOK, and needs that no option is
\* stored twice.
ReportIInv ==
  /\ ReportTypeOK
  /\ RestIsUnread
  /\ StoredAreRead
  /\ NoNulRead
  /\ Collected
  /\ PrintContract

LEMMA CapacityFacts ==
  /\ Cardinality(PRINT_OPTIONS) \in Nat
  /\ PRINT_OPTIONS_CAPACITY = Cardinality(PRINT_OPTIONS) + 1
  /\ PRINT_OPTIONS_CAPACITY \in Nat
  /\ Capacity \in Nat /\ MaxOptions \in Nat /\ MaxFragment \in Nat
  /\ IsFiniteSet(PRINT_OPTIONS) /\ NUL \notin PRINT_OPTIONS
BY OptionsAssumption, FS_CardinalityType DEF PRINT_OPTIONS_CAPACITY

LEMMA StringsAreSequences ==
  ASSUME NEW S, NEW n \in Nat, NEW s \in Strings(S, n)
  PROVE  s \in Seq(S)
<1>1. PICK k \in 0..n : s \in [1..k -> S]
  BY DEF Strings
<1>2. QED
  BY <1>1

\* As many different options as there are known ones are all of them.
LEMMA RoomForOptions ==
  ASSUME NEW f, NEW n \in Nat,
         \A i \in 1..n : f[i] \in PRINT_OPTIONS,
         \A i, j \in 1..n : f[i] = f[j] => i = j
  PROVE  n <= Cardinality(PRINT_OPTIONS)
<1> DEFINE g == [i \in 1..n |-> f[i]]
<1>1. g \in Injection(1..n, PRINT_OPTIONS)
  <2>1. g \in [1..n -> PRINT_OPTIONS]
    OBVIOUS
  <2>2. \A a, b \in 1..n : g[a] = g[b] => a = b
    OBVIOUS
  <2>3. QED
    BY <2>1, <2>2 DEF Injection, IsInjective
<1>2. Cardinality(1..n) <= Cardinality(PRINT_OPTIONS)
  BY <1>1, CapacityFacts, FS_Injection
<1>3. Cardinality(1..n) = n
  BY FS_Interval
<1>4. QED
  BY <1>2, <1>3

LEMMA ReportInitIInv == Init => ReportIInv
<1> SUFFICES ASSUME Init PROVE ReportIInv
  OBVIOUS
<1> USE DEF Init
<1>1. given \in Seq(OptionBytes) /\ opts = given /\ Len(given) \in Nat /\ Read = 0
  BY CapacityFacts, StringsAreSequences DEF Read
<1>2. report = <<>> /\ Len(report) = 0 /\ report \in Seq(Bytes)
  OBVIOUS
<1>3. ReportTypeOK
  <2>1. optsBuf \in [1..PRINT_OPTIONS_CAPACITY -> OptionBytes]
    BY DEF OptionBytes
  <2>2. buf \in [1..Capacity -> Bytes \cup {Stale}]
    OBVIOUS
  <2>3. len \in 0..Capacity /\ optsLen \in 0..Cardinality(PRINT_OPTIONS)
    BY CapacityFacts
  <2>4. overflowed \in BOOLEAN /\ pc \in {"normalize", "print", "done"}
    OBVIOUS
  <2>5. QED
    BY <1>1, <1>2, <2>1, <2>2, <2>3, <2>4 DEF ReportTypeOK
<1>4. RestIsUnread
  BY <1>1 DEF RestIsUnread
<1>5. StoredAreRead
  BY <1>1, CapacityFacts DEF StoredAreRead
<1>6. NoNulRead /\ PrintContract
  BY <1>1 DEF NoNulRead, PrintContract
<1>7. Collected
  BY <1>2 DEF Collected
<1>8. QED
  BY <1>3, <1>4, <1>5, <1>6, <1>7 DEF ReportIInv

\* One option is read: the loop's part of the invariant.
LEMMA LoopKeepsIInv == ReportIInv /\ normalize_options => ReportIInv'
<1> SUFFICES ASSUME ReportIInv, normalize_options PROVE ReportIInv'
  OBVIOUS
<1>0. /\ ReportTypeOK /\ RestIsUnread /\ StoredAreRead /\ NoNulRead /\ Collected
      /\ pc = "normalize" /\ opts # <<>> /\ opts' = Tail(opts)
      /\ UNCHANGED <<buf, len, overflowed, given, report>>
  BY DEF ReportIInv, normalize_options, bufVars
<1>1. PICK option \in OptionBytes : option = Head(opts)
  BY <1>0, HeadTailProperties DEF ReportTypeOK
<1>2. /\ opts' \in Seq(OptionBytes)
      /\ Len(opts) \in Nat /\ Len(opts) >= 1 /\ Len(opts') = Len(opts) - 1
      /\ \A i \in 1..Len(opts') : opts'[i] = opts[i + 1]
      /\ option = opts[1]
  <2>1. opts \in Seq(OptionBytes)
    BY <1>0 DEF ReportTypeOK
  <2>2. QED
    BY <1>0, <1>1, <2>1
<1>3. /\ Len(given) \in Nat /\ Len(given') = Len(given)
      /\ Read \in Nat /\ Read' = Read + 1 /\ Read' <= Len(given)
      /\ given[Read'] = option
  BY <1>0, <1>2 DEF ReportTypeOK, RestIsUnread, Read
<1>4. RestIsUnread'
  <2>1. Len(opts') <= Len(given')
    BY <1>0, <1>2, <1>3 DEF RestIsUnread
  <2>2. ASSUME NEW i \in 1..Len(opts') PROVE opts'[i] = given'[Read' + i]
    <3>1. i + 1 \in 1..Len(opts) /\ opts'[i] = opts[i + 1]
      BY <1>2
    <3>2. opts[i + 1] = given[Read + (i + 1)]
      BY <1>0, <3>1 DEF RestIsUnread
    <3>3. Read + (i + 1) = Read' + i
      BY <1>2, <1>3
    <3>4. QED
      BY <1>0, <3>1, <3>2, <3>3
  <2>3. pc' # "print"
    BY <1>0 DEF normalize_options
  <2>4. QED
    BY <2>1, <2>2, <2>3 DEF RestIsUnread
<1>5. Collected'
  BY <1>0 DEF Collected
<1>6. \A i \in 1..Read' : i \in 1..Read \/ i = Read'
  BY <1>3
<1>7. CASE option = NUL
  <2>1. /\ pc' = "done" /\ result' = Err("EINVAL")
        /\ UNCHANGED <<optsBuf, optsLen>>
    BY <1>1, <1>7 DEF normalize_options
  <2>2. ReportTypeOK'
    BY <1>0, <1>2, <2>1 DEF ReportTypeOK
  <2>3. {given'[i] : i \in 1..Read'} \cap PRINT_OPTIONS
          = {given[i] : i \in 1..Read} \cap PRINT_OPTIONS
    BY <1>0, <1>3, <1>6, <1>7, CapacityFacts
  <2>4. StoredAreRead'
    BY <1>0, <2>1, <2>3 DEF StoredAreRead
  <2>5. NoNulRead'
    BY <2>1 DEF NoNulRead
  <2>6. \E i \in 1..Len(given') : given'[i] = NUL
    BY <1>0, <1>3, <1>7
  <2>7. PrintContract'
    BY <2>1, <2>6 DEF PrintContract
  <2>8. QED
    BY <1>4, <1>5, <2>2, <2>4, <2>5, <2>7 DEF ReportIInv
<1>8. CASE option # NUL
  <2>1. pc' = "normalize"
    BY <1>0, <1>1, <1>8 DEF normalize_options
  <2>2. NoNulRead'
    BY <1>0, <1>3, <1>6, <1>8 DEF NoNulRead
  <2>3. PrintContract'
    BY <2>1 DEF PrintContract
  <2>4. CASE Kept(option)
    <3>1. /\ optsBuf' = [optsBuf EXCEPT ![optsLen + 1] = option]
          /\ optsLen' = optsLen + 1
      BY <1>1, <1>8, <2>4 DEF normalize_options
    <3>2. /\ option \in PRINT_OPTIONS
          /\ \A i \in 1..optsLen : optsBuf[i] # option
      BY <2>4 DEF Kept
    <3>3. /\ optsLen \in Nat /\ optsLen + 1 \in 1..PRINT_OPTIONS_CAPACITY
          /\ optsBuf \in [1..PRINT_OPTIONS_CAPACITY -> OptionBytes]
      BY <1>0, CapacityFacts DEF ReportTypeOK
    <3>4. /\ optsBuf' \in [1..PRINT_OPTIONS_CAPACITY -> OptionBytes]
          /\ optsBuf'[optsLen'] = option
          /\ \A i \in 1..optsLen : optsBuf'[i] = optsBuf[i]
          /\ \A i \in (optsLen' + 1)..PRINT_OPTIONS_CAPACITY : optsBuf'[i] = optsBuf[i]
      BY <3>1, <3>3, CapacityFacts
    <3>5. \A i \in 1..optsLen' : i \in 1..optsLen \/ i = optsLen'
      BY <3>1, <3>3
    <3>6. {optsBuf'[i] : i \in 1..optsLen'} = {optsBuf[i] : i \in 1..optsLen} \cup {option}
      <4>1. 1..optsLen' = 1..optsLen \cup {optsLen'}
        BY <3>1, <3>3
      <4>2. QED
        BY <3>4, <4>1
    <3>7. {given'[i] : i \in 1..Read'} = {given[i] : i \in 1..Read} \cup {option}
      <4>1. 1..Read' = 1..Read \cup {Read'}
        BY <1>3
      <4>2. QED
        BY <1>0, <1>3, <4>1
    <3>8. \A i, j \in 1..optsLen' : optsBuf'[i] = optsBuf'[j] => i = j
      BY <1>0, <3>2, <3>4, <3>5 DEF StoredAreRead
    <3>9. \A i \in (optsLen' + 1)..PRINT_OPTIONS_CAPACITY : optsBuf'[i] = NUL
      BY <1>0, <3>1, <3>3, <3>4, CapacityFacts DEF StoredAreRead
    <3>10. {optsBuf'[i] : i \in 1..optsLen'}
             = {given'[i] : i \in 1..Read'} \cap PRINT_OPTIONS
      BY <1>0, <3>2, <3>6, <3>7 DEF StoredAreRead
    <3>11. StoredAreRead'
      BY <3>8, <3>9, <3>10 DEF StoredAreRead
    <3>12. optsLen' \in 0..Cardinality(PRINT_OPTIONS)
      <4>1. \A i \in 1..optsLen' : optsBuf'[i] \in PRINT_OPTIONS
        BY <3>10
      <4>2. optsLen' \in Nat
        BY <3>1, <3>3
      <4>3. optsLen' <= Cardinality(PRINT_OPTIONS)
        BY <3>8, <4>1, <4>2, RoomForOptions
      <4>4. QED
        BY <4>2, <4>3, CapacityFacts
    <3>13. ReportTypeOK'
      BY <1>0, <1>2, <2>1, <3>4, <3>12 DEF ReportTypeOK
    <3>14. QED
      BY <1>4, <1>5, <2>2, <2>3, <3>11, <3>13 DEF ReportIInv
  <2>5. CASE ~ Kept(option)
    <3>1. UNCHANGED <<optsBuf, optsLen>>
      BY <1>1, <1>8, <2>5 DEF normalize_options
    <3>2. option \in PRINT_OPTIONS => option \in {given[i] : i \in 1..Read}
      <4>1. option \in PRINT_OPTIONS => \E i \in 1..optsLen : optsBuf[i] = option
        BY <2>5 DEF Kept
      <4>2. QED
        BY <1>0, <4>1 DEF StoredAreRead
    <3>3. {given'[i] : i \in 1..Read'} = {given[i] : i \in 1..Read} \cup {option}
      <4>1. 1..Read' = 1..Read \cup {Read'}
        BY <1>3
      <4>2. QED
        BY <1>0, <1>3, <4>1
    <3>4. {given'[i] : i \in 1..Read'} \cap PRINT_OPTIONS
            = {given[i] : i \in 1..Read} \cap PRINT_OPTIONS
      BY <3>2, <3>3
    <3>5. StoredAreRead'
      BY <1>0, <3>1, <3>4 DEF StoredAreRead
    <3>6. ReportTypeOK'
      BY <1>0, <1>2, <2>1, <3>1 DEF ReportTypeOK
    <3>7. QED
      BY <1>4, <1>5, <2>2, <2>3, <3>5, <3>6 DEF ReportIInv
  <2>6. QED
    BY <2>4, <2>5
<1>9. QED
  BY <1>7, <1>8

\* A fragment arrives: what was collected grows with the report, or stops.
LEMMA WriteKeepsIInv ==
  ASSUME NEW fragment \in Strings(Bytes, MaxFragment), ReportIInv, write_fragment(fragment)
  PROVE  ReportIInv'
<1>0. /\ ReportTypeOK /\ RestIsUnread /\ StoredAreRead /\ NoNulRead /\ Collected
      /\ pc = "print" /\ report' = report \o fragment /\ write(fragment)
      /\ UNCHANGED <<pc, opts, optsBuf, optsLen, given>>
  BY DEF ReportIInv, write_fragment, optVars
<1>1. /\ fragment \in Seq(Bytes) /\ report \in Seq(Bytes) /\ Capacity \in Nat
      /\ len \in Nat /\ len <= Capacity
      /\ buf \in [1..Capacity -> Bytes \cup {Stale}]
  BY <1>0, CapacityFacts, StringsAreSequences DEF ReportTypeOK
<1>2. /\ report' \in Seq(Bytes) /\ Len(report) \in Nat /\ Len(fragment) \in Nat
      /\ Len(report') = Len(report) + Len(fragment)
      /\ \A i \in 1..Len(report') :
           report'[i] = IF i <= Len(report) THEN report[i] ELSE fragment[i - Len(report)]
      /\ \A i \in 1..Len(fragment) : fragment[i] \in Bytes
  BY <1>0, <1>1
<1>3. RestIsUnread' /\ StoredAreRead' /\ NoNulRead' /\ PrintContract'
  <2>1. Read' = Read
    BY <1>0 DEF Read
  <2>2. RestIsUnread' /\ NoNulRead'
    BY <1>0, <2>1 DEF RestIsUnread, NoNulRead
  <2>3. StoredAreRead'
    BY <1>0, <2>1 DEF StoredAreRead
  <2>4. PrintContract'
    BY <1>0 DEF PrintContract
  <2>5. QED
    BY <2>2, <2>3, <2>4
<1>4. CASE overflowed \/ len + Len(fragment) > Capacity
  <2>1. overflowed' = TRUE /\ UNCHANGED <<buf, len>>
    BY <1>0, <1>4 DEF write
  <2>2. Len(report') > Capacity
    BY <1>0, <1>1, <1>2, <1>4 DEF Collected
  <2>3. Collected'
    BY <2>1, <2>2 DEF Collected
  <2>4. ReportTypeOK'
    BY <1>0, <1>2, <2>1 DEF ReportTypeOK
  <2>5. QED
    BY <1>3, <2>3, <2>4 DEF ReportIInv
<1>5. CASE ~ overflowed /\ ~ (len + Len(fragment) > Capacity)
  <2>1. /\ buf' = [i \in 1..Capacity |->
                     IF i \in (len + 1)..(len + Len(fragment)) THEN fragment[i - len]
                     ELSE buf[i]]
        /\ len' = len + Len(fragment) /\ overflowed' = overflowed
    BY <1>0, <1>5 DEF write
  <2>2. len = Len(report) /\ \A i \in 1..len : buf[i] = report[i]
    BY <1>0, <1>5 DEF Collected
  <2>3. len' = Len(report') /\ len' \in 0..Capacity
    BY <1>1, <1>2, <1>5, <2>1, <2>2
  <2>4. ASSUME NEW i \in 1..len' PROVE buf'[i] = report'[i]
    <3>1. i \in 1..Capacity /\ i \in 1..Len(report') /\ i \in Nat
      BY <1>1, <2>3
    <3>2. buf'[i] = IF i \in (len + 1)..(len + Len(fragment)) THEN fragment[i - len]
                    ELSE buf[i]
      BY <2>1, <3>1
    <3>3. CASE i <= len
      BY <1>1, <1>2, <2>2, <3>1, <3>2, <3>3
    <3>4. CASE i > len
      BY <1>1, <1>2, <2>1, <2>2, <3>1, <3>2, <3>4
    <3>5. QED
      BY <1>1, <3>1, <3>3, <3>4
  <2>5. Collected'
    BY <1>5, <2>1, <2>3, <2>4 DEF Collected
  <2>6. buf' \in [1..Capacity -> Bytes \cup {Stale}]
    BY <1>1, <1>2, <2>1
  <2>7. ReportTypeOK'
    BY <1>0, <1>2, <2>1, <2>3, <2>6 DEF ReportTypeOK
  <2>8. QED
    BY <1>3, <2>5, <2>7 DEF ReportIInv
<1>6. QED
  BY <1>4, <1>5

\* jemalloc has returned: what finish returns is what the contract says.
LEMMA FinishKeepsIInv == ReportIInv /\ finish => ReportIInv'
<1> SUFFICES ASSUME ReportIInv, finish PROVE ReportIInv'
  OBVIOUS
<1>0. /\ ReportTypeOK /\ RestIsUnread /\ StoredAreRead /\ NoNulRead /\ Collected
      /\ pc = "print" /\ pc' = "done"
      /\ UNCHANGED <<opts, optsBuf, optsLen, buf, len, overflowed, given, report>>
  BY DEF ReportIInv, finish, optVars, bufVars
<1>1. ReportTypeOK' /\ RestIsUnread' /\ NoNulRead'
  BY <1>0 DEF ReportTypeOK, RestIsUnread, NoNulRead, Read
<1>2. StoredAreRead' /\ Collected'
  BY <1>0 DEF StoredAreRead, Collected, Read
<1>3. ~ \E i \in 1..Len(given) : given[i] = NUL
  <2>1. Read = Len(given)
    BY <1>0 DEF RestIsUnread, Read, ReportTypeOK
  <2>2. QED
    BY <1>0, <2>1 DEF NoNulRead
<1>4. CASE overflowed
  <2>1. result' = Err("ENOSPC")
    BY <1>4 DEF finish
  <2>2. Len(report) > Capacity
    BY <1>0, <1>4 DEF Collected
  <2>3. QED
    BY <1>0, <1>1, <1>2, <1>3, <2>1, <2>2 DEF ReportIInv, PrintContract
<1>5. CASE ~ overflowed
  <2>1. len = Len(report) /\ \A i \in 1..len : buf[i] = report[i]
    BY <1>0, <1>5 DEF Collected
  <2>2. /\ report \in Seq(Bytes) /\ len \in Nat /\ len <= Capacity /\ Capacity \in Nat
        /\ buf \in [1..Capacity -> Bytes \cup {Stale}]
    BY <1>0, CapacityFacts DEF ReportTypeOK
  <2>3. Take(buf, len) = report
    <3>1. buf \in Seq(Bytes \cup {Stale}) /\ Len(buf) = Capacity
      BY <2>2
    <3>2. /\ Take(buf, len) = [i \in 1..len |-> buf[i]]
      BY <2>2, <3>1 DEF Take
    <3>3. report = [i \in 1..len |-> report[i]]
      BY <2>1, <2>2
    <3>4. QED
      BY <2>1, <3>2, <3>3
  <2>4. result' = IF ValidUtf8(report) THEN Ok(report) ELSE Err("EILSEQ")
    BY <1>5, <2>3 DEF finish
  <2>5. ~ (Len(report) > Capacity)
    BY <2>1, <2>2
  <2>6. PrintContract'
    BY <1>0, <1>3, <2>4, <2>5 DEF PrintContract, ValidUtf8
  <2>7. QED
    BY <1>1, <1>2, <2>6 DEF ReportIInv
<1>6. QED
  BY <1>4, <1>5

LEMMA ReportNextIInv == ReportIInv /\ [Next]_vars => ReportIInv'
<1> SUFFICES ASSUME ReportIInv, [Next]_vars PROVE ReportIInv'
  OBVIOUS
<1>1. CASE normalize_options
  BY <1>1, LoopKeepsIInv
<1>2. CASE print_raw
  <2>1. /\ pc = "normalize" /\ pc' = "print" /\ opts = <<>>
        /\ UNCHANGED <<opts, optsBuf, optsLen, buf, len, overflowed, given, report>>
    BY <1>2 DEF print_raw, optVars, bufVars
  <2>2. ReportTypeOK' /\ RestIsUnread' /\ NoNulRead' /\ PrintContract'
    BY <2>1 DEF ReportIInv, ReportTypeOK, RestIsUnread, NoNulRead, PrintContract, Read
  <2>3. StoredAreRead' /\ Collected'
    BY <2>1, SMTT(30) DEF ReportIInv, StoredAreRead, Collected, Read
  <2>4. QED
    BY <2>2, <2>3 DEF ReportIInv
<1>3. CASE finish
  BY <1>3, FinishKeepsIInv
<1>4. CASE \E fragment \in Strings(Bytes, MaxFragment) : write_fragment(fragment)
  BY <1>4, WriteKeepsIInv
<1>5. CASE UNCHANGED vars
  <2>1. UNCHANGED <<pc, opts, optsBuf, optsLen, buf, len, overflowed, given, report,
                    result>>
    BY <1>5 DEF vars, optVars, bufVars
  <2>2. ReportTypeOK' /\ RestIsUnread' /\ NoNulRead' /\ PrintContract'
    BY <2>1 DEF ReportIInv, ReportTypeOK, RestIsUnread, NoNulRead, PrintContract, Read,
                ValidUtf8
  <2>3. StoredAreRead' /\ Collected'
    BY <2>1 DEF ReportIInv, StoredAreRead, Collected, Read
  <2>4. QED
    BY <2>2, <2>3 DEF ReportIInv
<1>6. QED
  BY <1>1, <1>2, <1>3, <1>4, <1>5 DEF Next

LEMMA ReportAlwaysIInv == Spec => []ReportIInv
BY ReportInitIInv, ReportNextIInv, PTL DEF Spec

\* jemalloc gets the known options of the caller, each once, before a NUL that
\* the array always has room for.
THEOREM OptionsArrive == Spec => []OptionsReachJemalloc
<1>1. ReportIInv => OptionsReachJemalloc
  <2> SUFFICES ASSUME ReportIInv, pc = "print"
               PROVE  /\ optsLen < PRINT_OPTIONS_CAPACITY
                      /\ {optsBuf[i] : i \in 1..optsLen} =
                           {given[i] : i \in 1..Len(given)} \cap PRINT_OPTIONS
                      /\ \A i, j \in 1..optsLen : optsBuf[i] = optsBuf[j] => i = j
                      /\ \A i \in (optsLen + 1)..PRINT_OPTIONS_CAPACITY : optsBuf[i] = NUL
    BY DEF OptionsReachJemalloc
  <2>1. Read = Len(given)
    BY DEF ReportIInv, RestIsUnread, ReportTypeOK, Read
  <2>2. optsLen < PRINT_OPTIONS_CAPACITY
    BY CapacityFacts DEF ReportIInv, ReportTypeOK
  <2>3. QED
    BY <2>1, <2>2 DEF ReportIInv, StoredAreRead
<1>2. QED
  BY <1>1, ReportAlwaysIInv, PTL

\* print returns the whole report, or the error its documentation names,
\* however jemalloc cuts the report.
THEOREM PrintKeepsItsContract == Spec => []PrintContract
<1>1. ReportIInv => PrintContract
  BY DEF ReportIInv
<1>2. QED
  BY <1>1, ReportAlwaysIInv, PTL

-----------------------------------------------------------------------------

\* The specification in which one of the two components moves and the other
\* rests has only behaviours of both, so that the theorems hold of it.
LEMMA StatisticsIsBoth == StatisticsSpec => Spec /\ EpochSpec
<1>1. StatisticsInit => Init /\ EpochInit
  BY DEF StatisticsInit
<1>2. [StatisticsNext]_<<vars, epochVars>> => [Next]_vars /\ [EpochNext]_epochVars
  BY DEF StatisticsNext
<1>3. QED
  BY <1>1, <1>2, PTL DEF StatisticsSpec, Spec, EpochSpec

=============================================================================
