---------------------------- MODULE GuidProvider ----------------------------
(***************************************************************************)
(* threadUnsafeGuidProvider (game-server/libsidecar/guids/guids.go): the   *)
(* iterator with which a world server draws GUIDs one by one.  It walks    *)
(* the diapasons of one GetGUIDPool answer and asks for the next answer,   *)
(* in a goroutine of its own, when the iterator reaches a precomputed      *)
(* value.                                                                  *)
(*                                                                         *)
(* The GUID service is the environment: an answer is a sequence of ranges  *)
(* of unused GUIDs, in ascending order, that need not be adjacent.         *)
(***************************************************************************)
EXTENDS Integers, Sequences, FiniteSets

CONSTANTS
    Shapes,       \* answers, as sequences of <<gap, size>> of each diapason
    FirstGuid,    \* the smallest GUID the service will hand out
    Pct,          \* pctUsedToTriggerUpdate
    RetriesCount, \* attempts of triggerDiapasonsRequest
    MaxPools,     \* bound: answers
    MaxErrors     \* bound: failed GetGUIDPool calls

ASSUME ShapesAssumption == Shapes \subseteq Seq(Nat \X (Nat \ {0})) \ {<<>>}
ASSUME FirstGuidAssumption == FirstGuid \in Nat \ {0}
ASSUME PctAssumption == Pct \in 0..100
ASSUME RetriesCountAssumption == RetriesCount \in Nat \ {0}

VARIABLES
    iterator, iteratorMax, iteratorValueToTriggerUpdate, nextDiapasons,
    pc,        \* "new", "ready", "reload" (blocked on diapasonsChan) or "dead" (log.Fatal)
    fetches,   \* triggerDiapasonsRequest goroutines, each with its attempts or its answer
    top,       \* environment: the service has handed out every GUID up to here
    drawn,     \* history: the GUIDs that Next returned
    missed,    \* history: no GUID of the answer in use is its trigger
    pools, errors

vars == <<iterator, iteratorMax, iteratorValueToTriggerUpdate, nextDiapasons,
          pc, fetches, top, drawn, missed, pools, errors>>
iteratorVars == <<iterator, iteratorMax, iteratorValueToTriggerUpdate, nextDiapasons>>

Size(d) == d.end - d.start + 1

SumOfSizes(ds) == Cardinality(UNION {{i} \X (ds[i].start .. ds[i].end) : i \in DOMAIN ds})

\* An answer of the service, of the given shape, above everything handed out.
Offset(shape, i) ==
    Cardinality(UNION {{j} \X (1 .. (shape[j][1] + shape[j][2])) : j \in 1..i})

NewDiapasons(shape) ==
    [i \in DOMAIN shape |-> [start |-> top + Offset(shape, i) - shape[i][2] + 1,
                             end   |-> top + Offset(shape, i)]]

Percentage(ds) == (SumOfSizes(ds) * Pct) \div 100

\* What is left of the percentage when diapason i is looked at, and the diapason it ends in.
RestAt(ds, i) == Percentage(ds) - SumOfSizes(SubSeq(ds, 1, i - 1))

EndsIn(ds, i) ==
    /\ Size(ds[i]) >= RestAt(ds, i)
    /\ \A j \in 1..(i-1) : Size(ds[j]) < RestAt(ds, j)

\* Mutant: the diapasons passed over are not taken off the percentage.
TriggerValue_WholePercentage(ds) ==
    IF Percentage(ds) <= ds[1].start
    THEN IF ds[1].start = ds[1].end THEN ds[1].end ELSE ds[1].start + 1
    ELSE LET i == CHOOSE i \in DOMAIN ds : EndsIn(ds, i) IN ds[i].start + Percentage(ds)

\* calculateIteratorValueToTriggerUpdate.  The third case is log.Fatal.
TriggerValue(ds) ==
    IF Percentage(ds) <= ds[1].start
    THEN IF ds[1].start = ds[1].end THEN ds[1].end ELSE ds[1].start + 1
    ELSE LET i == CHOOSE i \in DOMAIN ds : EndsIn(ds, i) IN ds[i].start + RestAt(ds, i)

\* The percentage ends with the last GUID of a diapason and the next GUID belongs to no
\* diapason: the trigger is the value behind that GUID, which Next never draws.
TriggerMissed(ds) ==
    /\ Percentage(ds) > ds[1].start
    /\ \E i \in DOMAIN ds : /\ EndsIn(ds, i)
                            /\ RestAt(ds, i) = Size(ds[i])
                            /\ i = Len(ds) \/ ds[i + 1].start # ds[i].end + 1

Init ==
    /\ iterator = 0 /\ iteratorMax = 0 /\ iteratorValueToTriggerUpdate = 0
    /\ nextDiapasons = <<>>
    /\ pc = "new"
    /\ fetches = {}
    /\ top = FirstGuid - 1
    /\ drawn = {}
    /\ missed = FALSE
    /\ pools = 0 /\ errors = 0

-----------------------------------------------------------------------------
\* NewThreadUnsafeGuidProvider: the first answer is awaited.
NewThreadUnsafeGuidProvider ==
    /\ pc = "new"
    /\ pools < MaxPools
    /\ \E shape \in Shapes :
          LET ds == NewDiapasons(shape)
          IN  /\ nextDiapasons' = Tail(ds)
              /\ iteratorValueToTriggerUpdate' = TriggerValue(ds)
              /\ iterator' = ds[1].start
              /\ iteratorMax' = ds[1].end
              /\ top' = ds[Len(ds)].end
              /\ missed' = TriggerMissed(ds)
    /\ pc' = "ready"
    /\ pools' = pools + 1
    /\ UNCHANGED <<fetches, drawn, errors>>

NoAnswer == <<>>

DrawFrom(it, trigger, others) ==
    /\ fetches' = others \cup IF it = trigger
                              THEN {[id |-> pools, attempts |-> 0, answer |-> NoAnswer]} ELSE {}
    /\ drawn' = drawn \cup {it}
    /\ iterator' = it + 1

Next_Draw ==
    /\ pc = "ready"
    /\ iterator <= iteratorMax
    /\ DrawFrom(iterator, iteratorValueToTriggerUpdate, fetches)
    /\ UNCHANGED <<iteratorMax, iteratorValueToTriggerUpdate, nextDiapasons, pc, top, missed, pools, errors>>

\* Next with reloadIterator: the following diapason of the same answer.
Next_ReloadIterator ==
    /\ pc = "ready"
    /\ iterator > iteratorMax
    /\ nextDiapasons # <<>>
    /\ iteratorMax' = nextDiapasons[1].end
    /\ nextDiapasons' = Tail(nextDiapasons)
    /\ DrawFrom(nextDiapasons[1].start, iteratorValueToTriggerUpdate, fetches)
    /\ UNCHANGED <<iteratorValueToTriggerUpdate, pc, top, missed, pools, errors>>

\* Next with reloadNextDiapasons: receive from diapasonsChan, or block.
Next_Block ==
    /\ pc = "ready"
    /\ iterator > iteratorMax
    /\ nextDiapasons = <<>>
    /\ pc' = "reload"
    /\ UNCHANGED <<iteratorVars, fetches, top, drawn, missed, pools, errors>>

\* Mutant: the first diapason stays in the list.
Next_ReloadNextDiapasons_KeepsHead(f) ==
    /\ pc = "reload"
    /\ f.answer # NoAnswer
    /\ iteratorMax' = f.answer[1].end
    /\ nextDiapasons' = f.answer
    /\ iteratorValueToTriggerUpdate' = TriggerValue(f.answer)
    /\ DrawFrom(f.answer[1].start, TriggerValue(f.answer), fetches \ {f})
    /\ missed' = TriggerMissed(f.answer)
    /\ pc' = "ready"
    /\ UNCHANGED <<top, pools, errors>>

Next_ReloadNextDiapasons(f) ==
    /\ pc = "reload"
    /\ f.answer # NoAnswer
    /\ iteratorMax' = f.answer[1].end
    /\ nextDiapasons' = Tail(f.answer)
    /\ iteratorValueToTriggerUpdate' = TriggerValue(f.answer)
    /\ DrawFrom(f.answer[1].start, TriggerValue(f.answer), fetches \ {f})
    /\ missed' = TriggerMissed(f.answer)
    /\ pc' = "ready"
    /\ UNCHANGED <<top, pools, errors>>

\* The goroutine of triggerDiapasonsRequest: call the service, retry, give up.
FetchOK(f) ==
    /\ pc # "dead"
    /\ f.answer = NoAnswer
    /\ pools < MaxPools
    /\ \E shape \in Shapes :
          LET ds == NewDiapasons(shape)
          IN  /\ fetches' = (fetches \ {f}) \cup {[f EXCEPT !.answer = ds]}
              /\ top' = ds[Len(ds)].end
    /\ pools' = pools + 1
    /\ UNCHANGED <<iteratorVars, pc, drawn, missed, errors>>

FetchError(f) ==
    /\ pc # "dead"
    /\ f.answer = NoAnswer
    /\ errors < MaxErrors
    /\ errors' = errors + 1
    /\ fetches' = (fetches \ {f}) \cup {[f EXCEPT !.attempts = @ + 1]}
    /\ pc' = IF f.attempts + 1 = RetriesCount THEN "dead" ELSE pc
    /\ UNCHANGED <<iteratorVars, top, drawn, missed, pools>>

NextCall ==
    \/ Next_Draw
    \/ Next_ReloadIterator
    \/ Next_Block
    \/ \E f \in fetches : Next_ReloadNextDiapasons(f)

Next ==
    \/ NewThreadUnsafeGuidProvider
    \/ NextCall
    \/ \E f \in fetches : FetchOK(f) \/ FetchError(f)

Spec == Init /\ [][Next]_vars

\* The world server keeps drawing and the fetch goroutine keeps calling; a call
\* may fail, but only finitely often.
FairSpec ==
    /\ Spec
    /\ WF_vars(NewThreadUnsafeGuidProvider)
    /\ WF_vars(NextCall)
    /\ WF_vars(\E f \in fetches : FetchOK(f))

-----------------------------------------------------------------------------
GuidsOf(ds) == UNION {ds[i].start .. ds[i].end : i \in DOMAIN ds}

\* The GUIDs of the ranges that were received but not drawn yet.
Held == (iterator .. iteratorMax) \cup GuidsOf(nextDiapasons) \cup UNION {GuidsOf(f.answer) : f \in fetches}

\* Next never returns the same GUID twice: what it drew is never held again.
DrawnOnce == drawn \cap Held = {}

\* Next never blocks for ever while the service answers, except on an answer whose
\* trigger is missed: the percentage ends with a diapason (guids.go:110-111) and nobody
\* asks for the next answer.  Nothing is claimed once the bound lets no answer through.
NextReturns == (pc = "reload" /\ ~missed) ~> (pc # "reload" \/ pools = MaxPools)
=============================================================================
