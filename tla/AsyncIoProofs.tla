---------------------------- MODULE AsyncIoProofs ----------------------------
(* Theorems about AsyncIo, for any requests, slots and budget, and about    *)
(* World, for any number of instances, names and tags.                      *)
EXTENDS AsyncIo, World, SublistProofs, FiniteSetTheorems, TLAPS

Places == 1..Len(outcomes)

\* A slot that holds nothing holds nothing of the last request either.
BlankWhenFree == \A s \in Slots : ~request[s].allocated => request[s] = Blank

\* What the marks of a request say of each other.
MarksAgree ==
    \A s \in Slots :
        /\ request[s].allocated => request[s].owner \in Requests /\ request[s].status # "Unknown"
        /\ s \in queued => /\ request[s].status = "Pending" /\ ~request[s].inFlight
                           /\ ~request[s].abandoned
        /\ request[s].inFlight => request[s].status = "Pending"

\* Before initIo and after shutdownIo there is nothing.
NothingWhenDown ==
    ~initialized => /\ \A s \in Slots : ~request[s].allocated
                    /\ queued = {} /\ reading = {} /\ outcomes = <<>>
                    /\ sub = "off" /\ frame = "idle"

\* Where the frame thread is says what is left to it.
FrameAgrees ==
    /\ frame \in {"stop", "join", "drain"} => queued = {}
    /\ frame = "drain" => sub = "off"
    /\ frame = "fire" => completed # <<>>
    /\ frame \in {"idle", "stop", "join", "drain"} => completed = <<>>

Opening == sub = "opening"
OpeningAgrees ==
    IF Opening THEN subSlot \in Slots /\ request[subSlot].inFlight /\ request[subSlot].owner = subFile
    ELSE subSlot = None

\* Every slot is in one pair of hands at most: being opened, read, or ended.
OneTaskPerSlot ==
    /\ \A t, u \in reading : t.slot = u.slot => t = u
    /\ \A i, j \in Places : outcomes[i].slot = outcomes[j].slot => i = j
    /\ \A t \in reading, i \in Places : t.slot # outcomes[i].slot
    /\ \A t \in reading : t.slot # subSlot
    /\ \A i \in Places : outcomes[i].slot # subSlot

Shape == BlankWhenFree /\ MarksAgree /\ NothingWhenDown /\ FrameAgrees
Hands == OpeningAgrees /\ OneTaskPerSlot /\ NoMisdelivery

\* What is counted is finite.
Budget == IsFiniteSet(reading) /\ BudgetExact

Asked(r) == handle[r].slot # None

\* The handles the service gave in its first life (initIo sets the generations
\* back): a held slot is named by its owner's, a free one by nobody's, and no
\* name is given twice.
HandlesAreNames ==
    /\ life = 0 => ~initialized /\ \A r \in Requests : ~Asked(r)
    /\ \A s \in Slots : request[s].allocated =>
           handle[request[s].owner] = [slot |-> s, gen |-> gen[s]]
    /\ \A r \in Requests : Asked(r) =>
           /\ handle[r].gen <= gen[handle[r].slot]
           /\ ~request[handle[r].slot].allocated => handle[r].gen < gen[handle[r].slot]
    /\ \A r, q \in Requests : Asked(r) /\ handle[r] = handle[q] => r = q

\* Who is still to be told has not been told, and has not given up.
OwedOnce ==
    /\ \A s \in Slots : request[s].allocated =>
           /\ told[request[s].owner] = 0
           /\ ~request[s].abandoned => request[s].owner \notin over
    /\ \A i \in 1..Len(completed) :
           LET r == completed[i].owner IN
           /\ told[r] = 0 /\ r \notin over /\ Asked(r)
           /\ \A s \in Slots : request[s].allocated => request[s].owner # r
    /\ \A i, j \in 1..Len(completed) : completed[i].owner = completed[j].owner => i = j
    /\ \A r \in Requests : ~Asked(r) => told[r] = 0
    /\ ToldOnce

FirstLife == life <= 1 => HandlesAreNames /\ OwedOnce

Inv == TypeOK /\ SlotsAccounted /\ Shape /\ Hands /\ Budget /\ FirstLife

USE IoAssumption DEF serviceVars, subVars, sdlVars, frameVars, historyVars

-----------------------------------------------------------------------------
(* What a step that leaves some variables alone leaves true. *)

LEMMA BlankType == Blank \in RequestType
BY DEF Blank, RequestType, Statuses

\* initIo's reset of a request that holds nothing changes nothing.
LEMMA BlankRenewed == [Blank EXCEPT !.allocated = FALSE, !.status = "Unknown"] = Blank
<1> DEFINE B == Blank
<1>1. B \in RequestType /\ B.allocated = FALSE /\ B.status = "Unknown"
  BY BlankType DEF Blank
<1> HIDE DEF B
<1>2. [B EXCEPT !.allocated = FALSE, !.status = "Unknown"] = B
  BY <1>1 DEF RequestType
<1> QED
  BY <1>2 DEF B

\* The requests, their handles and the callbacks owed are as they were.
LEMMA ServiceKept ==
    ASSUME Inv, UNCHANGED <<initialized, request, gen, freeSlots, queued, completed, historyVars>>
    PROVE  SlotsAccounted' /\ BlankWhenFree' /\ MarksAgree' /\ FirstLife'
<1>1. SlotsAccounted' /\ BlankWhenFree' /\ MarksAgree'
  BY DEF Inv, Shape, SlotsAccounted, BlankWhenFree, MarksAgree
<1>2. HandlesAreNames' = HandlesAreNames /\ OwedOnce' = OwedOnce
  BY DEF HandlesAreNames, OwedOnce, ToldOnce, Asked
<1>3. FirstLife'
  BY <1>2 DEF Inv, FirstLife
<1> QED
  BY <1>1, <1>3

\* Nothing has passed from hand to hand.
LEMMA HandsKept ==
    ASSUME Inv, UNCHANGED <<request, reading, outcomes, completed, subSlot, subFile>>,
           Opening' <=> Opening
    PROVE  Hands'
<1>1. OpeningAgrees'
  BY DEF Inv, Hands, OpeningAgrees
<1>2. OneTaskPerSlot' /\ NoMisdelivery'
  BY DEF Inv, Hands, OneTaskPerSlot, Places, NoMisdelivery
<1> QED
  BY <1>1, <1>2 DEF Hands

\* No place in the budget is taken or given back, and the drain has not moved.
LEMMA BudgetKept ==
    ASSUME Inv, UNCHANGED <<reading, outcomes, inFlight, initialized, outstanding>>,
           Flying' = Flying, Opening' <=> Opening, sub = "off" => sub' = "off",
           frame' = "drain" <=> frame = "drain"
    PROVE  Budget'
<1>1. Held' = Held
  BY DEF Held
<1>2. InFlightHonest'
  BY <1>1 DEF Inv, Budget, BudgetExact, InFlightHonest, Opening
<1>3. DrainCounts'
  BY <1>1 DEF Inv, Budget, BudgetExact, DrainCounts
<1> QED
  BY <1>2, <1>3 DEF Inv, Budget, BudgetExact

LEMMA HeldType == ASSUME Inv PROVE Held \in Nat
<1>1. Cardinality(reading) \in Nat
  BY FS_CardinalityType DEF Inv, Budget
<1>2. Len(outcomes) \in Nat
  BY DEF Inv, TypeOK
<1> QED
  BY <1>1, <1>2 DEF Held

LEMMA FlyingKept ==
    ASSUME \A s \in Slots : request'[s].inFlight <=> request[s].inFlight
    PROVE  Flying' = Flying
BY DEF Flying

\* Whose the requests are, and who is still owed, is as it was.
LEMMA NamesKept ==
    ASSUME Inv, UNCHANGED <<initialized, gen, completed, historyVars>>,
           \A s \in Slots : /\ request'[s].allocated <=> request[s].allocated
                            /\ request'[s].owner = request[s].owner
                            /\ request'[s].abandoned <=> request[s].abandoned
    PROVE  FirstLife'
<1>1. \A r \in Requests : Asked(r) => handle[r].slot \in Slots
  BY DEF Inv, TypeOK, Handles, Asked
<1>2. HandlesAreNames => HandlesAreNames'
  BY <1>1 DEF HandlesAreNames, Asked
<1>3. OwedOnce => OwedOnce'
  BY DEF OwedOnce, ToldOnce, Asked
<1> QED
  BY <1>2, <1>3 DEF Inv, FirstLife

\* Whatever SDL has is a slot's, and the slot's request knows.
LEMMA SdlHolds ==
    ASSUME Inv
    PROVE  /\ DOMAIN outcomes = Places /\ Len(outcomes) \in Nat
           /\ \A t \in reading :
                /\ t.slot \in Slots /\ t.file \in Requests
                /\ request[t.slot].inFlight /\ request[t.slot].owner = t.file
           /\ \A i \in Places :
                /\ outcomes[i].slot \in Slots /\ outcomes[i].file \in Requests
                /\ outcomes[i].ok \in BOOLEAN
                /\ request[outcomes[i].slot].inFlight
                /\ request[outcomes[i].slot].owner = outcomes[i].file
<1>1. DOMAIN outcomes = Places /\ Len(outcomes) \in Nat
  BY DEF Inv, TypeOK, Places
<1>2. \A i \in Places : outcomes[i] \in [slot : Slots, file : Requests, ok : BOOLEAN]
  <2> DEFINE Outcome == [slot : Slots, file : Requests, ok : BOOLEAN]
  <2>1. outcomes \in Seq(Outcome)
    BY DEF Inv, TypeOK
  <2> HIDE DEF Outcome
  <2>2. \A i \in Places : outcomes[i] \in Outcome
    BY <2>1 DEF Places
  <2> QED
    BY <2>2 DEF Outcome
<1>3. \A t \in reading : t \in [slot : Slots, file : Requests]
  BY DEF Inv, TypeOK
<1>4. \A t \in reading : request[t.slot].inFlight /\ request[t.slot].owner = t.file
  BY DEF Inv, Hands, NoMisdelivery
<1>5. \A i \in Places : /\ request[outcomes[i].slot].inFlight
                        /\ request[outcomes[i].slot].owner = outcomes[i].file
  BY <1>1 DEF Inv, Hands, NoMisdelivery
<1> QED
  BY <1>1, <1>2, <1>3, <1>4, <1>5

\* What a callback is given was asked for.
LEMMA CompletedTypes ==
    ASSUME Inv
    PROVE  /\ DOMAIN completed = 1..Len(completed) /\ Len(completed) \in Nat
           /\ \A i \in 1..Len(completed) :
                /\ completed[i].owner \in Requests /\ completed[i].owner = completed[i].file
<1> DEFINE C == [owner : Requests, file : Requests, ok : BOOLEAN]
<1>1. completed \in Seq(C)
  BY DEF Inv, TypeOK
<1>2. /\ DOMAIN completed = 1..Len(completed) /\ Len(completed) \in Nat
      /\ \A i \in 1..Len(completed) : completed[i] \in C
  <2> HIDE DEF C
  <2> QED
    BY <1>1
<1> QED
  BY <1>2 DEF Inv, Hands, NoMisdelivery

\* A queued slot holds a request that nobody has in hand yet.
LEMMA QueuedIsHeld ==
    ASSUME Inv, NEW s \in queued
    PROVE  /\ s \in Slots /\ request[s] \in RequestType /\ request[s].allocated
           /\ ~request[s].inFlight /\ request[s].status = "Pending" /\ ~request[s].abandoned
           /\ request[s].owner \in Requests /\ s \notin freeSlots
<1>1. s \in Slots /\ request[s] \in RequestType
  BY DEF Inv, TypeOK
<1>2. request[s].allocated
  BY <1>1 DEF Inv, Shape, BlankWhenFree, MarksAgree, Blank
<1> QED
  BY <1>1, <1>2 DEF Inv, Shape, MarksAgree, SlotsAccounted

-----------------------------------------------------------------------------
(* Actions that leave the requests alone. *)

LEMMA SubmitSleepInv == ASSUME Inv, SubmitSleep PROVE Inv'
<1> USE DEF SubmitSleep
<1>1. TypeOK' /\ NothingWhenDown' /\ FrameAgrees'
  BY DEF Inv, Shape, TypeOK, NothingWhenDown, FrameAgrees
<1>2. SlotsAccounted' /\ BlankWhenFree' /\ MarksAgree' /\ FirstLife'
  BY ServiceKept
<1>3. Opening' <=> Opening
  BY DEF Opening
<1>4. Hands'
  BY <1>3, HandsKept
<1>5. Budget'
  BY <1>3, FlyingKept, BudgetKept
<1> QED
  BY <1>1, <1>2, <1>4, <1>5 DEF Inv, Shape

LEMMA SubmitStopInv == ASSUME Inv, SubmitStop PROVE Inv'
<1> USE DEF SubmitStop
<1>1. TypeOK' /\ NothingWhenDown' /\ FrameAgrees'
  BY DEF Inv, Shape, TypeOK, NothingWhenDown, FrameAgrees
<1>2. SlotsAccounted' /\ BlankWhenFree' /\ MarksAgree' /\ FirstLife'
  BY ServiceKept
<1>3. Opening' <=> Opening
  BY DEF Opening
<1>4. Hands'
  BY <1>3, HandsKept
<1>5. Budget'
  BY <1>3, FlyingKept, BudgetKept
<1> QED
  BY <1>1, <1>2, <1>4, <1>5 DEF Inv, Shape

LEMMA PumpWakeInv == ASSUME Inv, PumpWake PROVE Inv'
<1> USE DEF PumpWake, WakeSubmitter
<1>1. TypeOK' /\ NothingWhenDown' /\ FrameAgrees'
  BY DEF Inv, Shape, TypeOK, NothingWhenDown, FrameAgrees
<1>2. SlotsAccounted' /\ BlankWhenFree' /\ MarksAgree' /\ FirstLife'
  BY ServiceKept
<1>3. Opening' <=> Opening
  BY DEF Opening
<1>4. Hands'
  BY <1>3, HandsKept
<1>5. Budget'
  BY <1>3, FlyingKept, BudgetKept
<1> QED
  BY <1>1, <1>2, <1>4, <1>5 DEF Inv, Shape

LEMMA CallbackReturnsInv == ASSUME Inv, CallbackReturns PROVE Inv'
<1> USE DEF CallbackReturns
<1>1. TypeOK' /\ NothingWhenDown' /\ FrameAgrees'
  BY DEF Inv, Shape, TypeOK, NothingWhenDown, FrameAgrees
<1>2. SlotsAccounted' /\ BlankWhenFree' /\ MarksAgree' /\ FirstLife'
  BY ServiceKept
<1>3. Hands'
  BY HandsKept DEF Opening
<1>4. Budget'
  BY FlyingKept, BudgetKept DEF Opening
<1> QED
  BY <1>1, <1>2, <1>3, <1>4 DEF Inv, Shape

LEMMA ShutdownWakeInv == ASSUME Inv, ShutdownWake PROVE Inv'
<1> USE DEF ShutdownWake, WakeSubmitter
<1>1. TypeOK' /\ NothingWhenDown' /\ FrameAgrees'
  BY DEF Inv, Shape, TypeOK, NothingWhenDown, FrameAgrees
<1>2. SlotsAccounted' /\ BlankWhenFree' /\ MarksAgree' /\ FirstLife'
  BY ServiceKept
<1>3. Opening' <=> Opening
  BY DEF Opening
<1>4. Hands'
  BY <1>3, HandsKept
<1>5. Budget'
  BY <1>3, FlyingKept, BudgetKept
<1> QED
  BY <1>1, <1>2, <1>4, <1>5 DEF Inv, Shape

\* The join is what makes the count exact: nobody is opening a file any more.
LEMMA ShutdownJoinInv == ASSUME Inv, ShutdownJoin PROVE Inv'
<1> USE DEF ShutdownJoin
<1>1. TypeOK' /\ NothingWhenDown' /\ FrameAgrees'
  BY DEF Inv, Shape, TypeOK, NothingWhenDown, FrameAgrees
<1>2. SlotsAccounted' /\ BlankWhenFree' /\ MarksAgree' /\ FirstLife'
  BY ServiceKept
<1>3. Hands'
  BY HandsKept DEF Opening
<1>4. initialized /\ frame # "drain" /\ sub # "opening"
  BY DEF Inv, Shape, NothingWhenDown
<1>5. inFlight = Held
  BY <1>4, HeldType DEF Inv, Budget, BudgetExact, InFlightHonest, TypeOK, Held
<1>6. Held' = Held
  BY DEF Held
<1>7. Budget'
  BY <1>5, <1>6 DEF Inv, Budget, BudgetExact, InFlightHonest, DrainCounts
<1> QED
  BY <1>1, <1>2, <1>3, <1>7 DEF Inv, Shape

LEMMA DrainEmptyInv == ASSUME Inv, DrainEmpty PROVE Inv'
<1> USE DEF DrainEmpty, Draining
<1>1. TypeOK' /\ NothingWhenDown' /\ FrameAgrees'
  BY DEF Inv, Shape, TypeOK, NothingWhenDown, FrameAgrees
<1>2. SlotsAccounted' /\ BlankWhenFree' /\ MarksAgree' /\ FirstLife'
  BY ServiceKept
<1>3. Hands'
  BY HandsKept DEF Opening
<1>4. Budget'
  BY FlyingKept, BudgetKept DEF Opening
<1> QED
  BY <1>1, <1>2, <1>3, <1>4 DEF Inv, Shape

LEMMA ReadRefusedInv == ASSUME Inv, NEW r \in Requests, ReadRefused(r) PROVE Inv'
<1> USE DEF ReadRefused
<1>1. TypeOK' /\ NothingWhenDown' /\ FrameAgrees'
  BY DEF Inv, Shape, TypeOK, NothingWhenDown, FrameAgrees
<1>2. SlotsAccounted' /\ BlankWhenFree' /\ MarksAgree'
  BY DEF Inv, Shape, SlotsAccounted, BlankWhenFree, MarksAgree
<1>3. Hands'
  BY HandsKept DEF Opening
<1>4. Budget'
  BY FlyingKept, BudgetKept DEF Opening
<1>5. handle[r].slot = None
  BY DEF NoHandle
<1>6. HandlesAreNames => HandlesAreNames'
  BY DEF HandlesAreNames, Asked
<1>7. HandlesAreNames => \A s \in Slots : request[s].allocated => request[s].owner # r
  <2> SUFFICES ASSUME HandlesAreNames, NEW s \in Slots, request[s].allocated, request[s].owner = r
               PROVE  FALSE
    OBVIOUS
  <2>1. handle[r] = [slot |-> s, gen |-> gen[s]]
    BY DEF HandlesAreNames
  <2> QED
    BY <1>5, <2>1, IoAssumption
<1>8. HandlesAreNames /\ OwedOnce => OwedOnce'
  BY <1>5, <1>7 DEF OwedOnce, ToldOnce, Asked
<1> QED
  BY <1>1, <1>2, <1>3, <1>4, <1>6, <1>8 DEF Inv, Shape, FirstLife

-----------------------------------------------------------------------------
(* The submitter's open, and SDL's read. *)

LEMMA SubmitPickInv == ASSUME Inv, SubmitPick PROVE Inv'
<1> PICK s \in queued : Pick(s) /\ subSlot' = s /\ subFile' = request[s].owner
  BY DEF SubmitPick
<1> USE DEF SubmitPick, Pick
<1>1. /\ s \in Slots /\ request[s] \in RequestType /\ request[s].allocated
      /\ ~request[s].inFlight /\ request[s].status = "Pending" /\ ~request[s].abandoned
      /\ request[s].owner \in Requests /\ s \notin freeSlots
  BY QueuedIsHeld
<1>2. request \in [Slots -> RequestType]
  BY DEF Inv, TypeOK
<1>3. request'[s] = [request[s] EXCEPT !.inFlight = TRUE]
  BY <1>1, <1>2
<1>4. \A q \in Slots \ {s} : request'[q] = request[q]
  BY <1>2
<1>5. request' \in [Slots -> RequestType]
  BY <1>1, <1>2 DEF RequestType
<1>6. TypeOK'
  <2>1. subSlot' \in Slots /\ subFile' \in Requests /\ sub' = "opening" /\ queued' \subseteq Slots
    BY <1>1 DEF Inv, TypeOK
  <2>2. inFlight' \in Nat
    BY DEF Inv, TypeOK
  <2> QED
    BY <1>5, <2>1, <2>2 DEF Inv, TypeOK
<1>7. request'[s].inFlight /\ request'[s].allocated /\ request'[s].owner = request[s].owner
      /\ request'[s].status = "Pending" /\ ~request'[s].abandoned
      /\ request'[s].bytes = request[s].bytes
  BY <1>1, <1>3 DEF RequestType
<1>8. SlotsAccounted'
  BY <1>1, <1>4, <1>7 DEF Inv, SlotsAccounted
<1>9. Shape'
  <2>1. BlankWhenFree'
    BY <1>1, <1>4, <1>7 DEF Inv, Shape, BlankWhenFree
  <2>2. MarksAgree'
    BY <1>1, <1>4, <1>7 DEF Inv, Shape, MarksAgree
  <2>3. NothingWhenDown'
    BY <1>1, <1>4, <1>7 DEF Inv, Shape, NothingWhenDown
  <2>4. FrameAgrees'
    BY <1>1, <1>4, <1>7 DEF Inv, Shape, FrameAgrees
  <2> QED
    BY <2>1, <2>2, <2>3, <2>4 DEF Shape
<1>10. \A t \in reading \cup {outcomes[i] : i \in DOMAIN outcomes} : t.slot # s /\ t.slot \in Slots
  BY <1>1, SdlHolds
<1>11. DOMAIN outcomes = Places
  BY DEF Inv, TypeOK, Places
<1>12. OneTaskPerSlot'
  BY <1>10, <1>11 DEF Inv, Hands, OneTaskPerSlot, Places
<1>13. NoMisdelivery'
  BY <1>4, <1>7, <1>10 DEF Inv, Hands, NoMisdelivery
<1>14. OpeningAgrees'
  BY <1>1, <1>7 DEF OpeningAgrees, Opening
<1>15. Flying' = Flying \cup {s} /\ s \notin Flying
  BY <1>1, <1>4, <1>7 DEF Flying
<1>16. IsFiniteSet(Flying)
  BY FS_Subset DEF Flying
<1>17. Cardinality(Flying') = Cardinality(Flying) + 1
  BY <1>15, <1>16, FS_AddElement
<1>18. initialized /\ frame # "drain"
  BY DEF Inv, Shape, NothingWhenDown, FrameAgrees
<1>19. Held' = Held /\ Held \in Nat
  BY HeldType DEF Held
<1>20. Budget'
  BY <1>17, <1>18, <1>19 DEF Inv, Budget, BudgetExact, InFlightHonest, DrainCounts, TypeOK, CanPick
<1>21. FirstLife'
  BY <1>1, <1>4, <1>7, NamesKept
<1> QED
  BY <1>6, <1>8, <1>9, <1>12, <1>13, <1>14, <1>20, <1>21 DEF Inv, Hands

LEMMA OpenIssuedInv == ASSUME Inv, OpenIssued PROVE Inv'
<1> USE DEF OpenIssued
<1> DEFINE t == [slot |-> subSlot, file |-> subFile]
<1>1. /\ subSlot \in Slots /\ request[subSlot].inFlight /\ request[subSlot].owner = subFile
      /\ request[subSlot].allocated /\ subFile \in Requests
  BY DEF Inv, Shape, Hands, OpeningAgrees, Opening, BlankWhenFree, Blank, MarksAgree
<1>2. TypeOK'
  BY <1>1 DEF Inv, TypeOK
<1>3. Shape'
  BY DEF Inv, Shape, BlankWhenFree, MarksAgree, NothingWhenDown, FrameAgrees
<1>4. SlotsAccounted' /\ FirstLife'
  BY ServiceKept
<1>5. \A u \in reading : u.slot # subSlot /\ u.slot \in Slots
  BY DEF Inv, Hands, OneTaskPerSlot, TypeOK
<1>6. \A i \in Places : outcomes[i].slot # subSlot /\ outcomes[i].slot \in Slots
  BY SdlHolds DEF Inv, Hands, OneTaskPerSlot
<1>7. OneTaskPerSlot'
  BY <1>1, <1>5, <1>6 DEF Inv, Hands, OneTaskPerSlot, Places
<1>8. NoMisdelivery'
  BY <1>1 DEF Inv, Hands, NoMisdelivery
<1>9. OpeningAgrees'
  BY DEF OpeningAgrees, Opening
<1>10. t \notin reading /\ reading' = reading \cup {t}
  BY <1>5
<1>11. IsFiniteSet(reading') /\ Cardinality(reading') = Cardinality(reading) + 1
  BY <1>10, FS_AddElement DEF Inv, Budget
<1>12. Held' = Held + 1 /\ Held \in Nat
  <2>1. Cardinality(reading) \in Nat /\ Len(outcomes) \in Nat
    BY FS_CardinalityType DEF Inv, Budget, TypeOK
  <2> QED
    BY <1>11, <2>1 DEF Held
<1>13. initialized /\ frame # "drain"
  BY DEF Inv, Shape, NothingWhenDown, FrameAgrees
<1>14. Flying' = Flying
  BY FlyingKept
<1>15. Budget'
  BY <1>11, <1>12, <1>13, <1>14 DEF Inv, Budget, BudgetExact, InFlightHonest, DrainCounts, TypeOK
<1> QED
  BY <1>2, <1>3, <1>4, <1>7, <1>8, <1>9, <1>15 DEF Inv, Hands

LEMMA OpenFailedInv == ASSUME Inv, OpenFailed PROVE Inv'
<1> USE DEF OpenFailed
<1> DEFINE s == subSlot
<1>1. /\ s \in Slots /\ request[s].inFlight /\ request[s].owner = subFile
      /\ request[s].allocated /\ subFile \in Requests
  BY DEF Inv, Shape, Hands, OpeningAgrees, Opening, BlankWhenFree, Blank, MarksAgree
<1>2. request \in [Slots -> RequestType]
  BY DEF Inv, TypeOK
<1>3. request'[s] = [request[s] EXCEPT !.inFlight = FALSE, !.status = "Failed"]
  BY <1>1, <1>2
<1>4. \A q \in Slots \ {s} : request'[q] = request[q]
  BY <1>2
<1>5. request[s] \in RequestType
  BY <1>1, <1>2
<1>6. /\ ~request'[s].inFlight /\ request'[s].allocated /\ request'[s].owner = request[s].owner
      /\ request'[s].status = "Failed" /\ (request'[s].abandoned <=> request[s].abandoned)
      /\ request'[s].bytes = request[s].bytes /\ request'[s] \in RequestType
  <2> HIDE DEF OpenFailed, s
  <2> QED
    BY <1>1, <1>3, <1>5 DEF RequestType, Statuses
<1>7. request' \in [Slots -> RequestType]
  BY <1>2, <1>4, <1>6
<1>8. s \notin queued
  BY <1>1 DEF Inv, Shape, MarksAgree
<1>9. TypeOK'
  BY <1>7 DEF Inv, TypeOK
<1>10. SlotsAccounted'
  BY <1>1, <1>4, <1>6 DEF Inv, SlotsAccounted
<1>11. Shape'
  <2>1. BlankWhenFree'
    BY <1>1, <1>4, <1>6, <1>8 DEF Inv, Shape, BlankWhenFree
  <2>2. MarksAgree'
    BY <1>1, <1>4, <1>6, <1>8 DEF Inv, Shape, MarksAgree
  <2>3. NothingWhenDown'
    BY <1>1, <1>4, <1>6, <1>8 DEF Inv, Shape, NothingWhenDown
  <2>4. FrameAgrees'
    BY <1>1, <1>4, <1>6, <1>8 DEF Inv, Shape, FrameAgrees
  <2> QED
    BY <2>1, <2>2, <2>3, <2>4 DEF Shape
<1>12. \A u \in reading \cup {outcomes[i] : i \in DOMAIN outcomes} : u.slot # s /\ u.slot \in Slots
  BY SdlHolds DEF Inv, Hands, OneTaskPerSlot
<1>13. DOMAIN outcomes = Places
  BY DEF Inv, TypeOK, Places
<1>14. OneTaskPerSlot'
  BY <1>12, <1>13, IoAssumption DEF Inv, Hands, OneTaskPerSlot, Places
<1>15. NoMisdelivery'
  <2>1. \A q \in Slots : request'[q].bytes = request[q].bytes /\ request'[q].owner = request[q].owner
    BY <1>4, <1>6
  <2>2. \A t \in reading \cup {outcomes[i] : i \in DOMAIN outcomes} : request'[t.slot] = request[t.slot]
    BY <1>4, <1>12
  <2>3. reading' = reading /\ outcomes' = outcomes /\ completed' = completed
    OBVIOUS
  <2>4. NoMisdelivery
    BY DEF Inv, Hands
  <2> HIDE DEF OpenFailed
  <2> QED
    BY <2>1, <2>2, <2>3, <2>4 DEF NoMisdelivery
<1>16. OpeningAgrees'
  BY DEF OpeningAgrees, Opening
<1>17. Flying' = Flying \ {s} /\ s \in Flying
  BY <1>1, <1>4, <1>6 DEF Flying
<1>18. IsFiniteSet(Flying)
  BY FS_Subset DEF Flying
<1>19. Cardinality(Flying') = Cardinality(Flying) - 1 /\ Cardinality(Flying) \in Nat
  BY <1>17, <1>18, FS_RemoveElement, FS_CardinalityType
<1>20. initialized /\ frame # "drain"
  BY DEF Inv, Shape, NothingWhenDown, FrameAgrees
<1>21. Held' = Held /\ Held \in Nat
  BY HeldType DEF Held
<1>22. Budget'
  BY <1>19, <1>20, <1>21 DEF Inv, Budget, BudgetExact, InFlightHonest, DrainCounts, TypeOK
<1>23. FirstLife'
  BY <1>1, <1>4, <1>6, NamesKept
<1> QED
  BY <1>9, <1>10, <1>11, <1>14, <1>15, <1>16, <1>22, <1>23 DEF Inv, Hands

\* SDL moves a task from one hand to the other.
LEMMA ReadDoneInv == ASSUME Inv, NEW t \in reading, NEW ok \in BOOLEAN, ReadDone(t, ok) PROVE Inv'
<1> USE DEF ReadDone
<1> DEFINE o == [slot |-> t.slot, file |-> t.file, ok |-> ok]
           Outcome == [slot : Slots, file : Requests, ok : BOOLEAN]
<1>1. o \in Outcome /\ outcomes \in Seq(Outcome) /\ outcomes' = Append(outcomes, o)
  BY SdlHolds DEF Inv, TypeOK
<1>2. /\ outcomes' \in Seq(Outcome) /\ Len(outcomes') = Len(outcomes) + 1
      /\ \A i \in Places : outcomes'[i] = outcomes[i]
      /\ outcomes'[Len(outcomes) + 1] = o /\ Len(outcomes) \in Nat
  <2> HIDE DEF Outcome, o, ReadDone
  <2> QED
    BY <1>1 DEF Places
<1>3. Places' = Places \cup {Len(outcomes) + 1} /\ Len(outcomes) + 1 \notin Places
  BY <1>2 DEF Places
<1>4. TypeOK'
  BY <1>2 DEF Inv, TypeOK
<1>5. Shape'
  BY DEF Inv, Shape, BlankWhenFree, MarksAgree, NothingWhenDown, FrameAgrees
<1>6. SlotsAccounted' /\ FirstLife'
  BY ServiceKept
<1>7. \A i \in Places' : \/ (i \in Places /\ outcomes'[i] = outcomes[i])
                         \/ (i = Len(outcomes) + 1 /\ outcomes'[i] = o)
  BY <1>2, <1>3
<1>8. \A u \in reading' : u \in reading /\ u.slot # o.slot
  BY DEF Inv, Hands, OneTaskPerSlot
<1>9. \A i \in Places : outcomes[i].slot # o.slot
  BY DEF Inv, Hands, OneTaskPerSlot
<1>10. o.slot # subSlot
  BY DEF Inv, Hands, OneTaskPerSlot
<1>11. OneTaskPerSlot'
  <2>1. \A i, j \in Places' : outcomes'[i].slot = outcomes'[j].slot => i = j
    <3> HIDE DEF o, ReadDone
    <3> QED
      BY <1>7, <1>9 DEF Inv, Hands, OneTaskPerSlot
  <2>2. \A u \in reading', i \in Places' : u.slot # outcomes'[i].slot
    <3> HIDE DEF o, ReadDone
    <3> QED
      BY <1>7, <1>8 DEF Inv, Hands, OneTaskPerSlot
  <2>3. \A i \in Places' : outcomes'[i].slot # subSlot
    <3> HIDE DEF o, ReadDone
    <3> QED
      BY <1>7, <1>10 DEF Inv, Hands, OneTaskPerSlot
  <2> QED
    BY <1>8, <2>1, <2>2, <2>3 DEF Inv, Hands, OneTaskPerSlot
<1>12. NoMisdelivery'
  <2>1. DOMAIN outcomes' = Places'
    BY <1>2 DEF Places
  <2>2. \A i \in Places' : /\ request[outcomes'[i].slot].inFlight
                           /\ request[outcomes'[i].slot].owner = outcomes'[i].file
    <3>1. request[o.slot].inFlight /\ request[o.slot].owner = o.file
      BY SdlHolds
    <3> HIDE DEF o, ReadDone
    <3> QED
      BY <1>7, <3>1, SdlHolds
  <2>3. \A u \in reading' : request[u.slot].inFlight /\ request[u.slot].owner = u.file
    BY SdlHolds
  <2>4. request' = request /\ completed' = completed
    OBVIOUS
  <2> HIDE DEF o, ReadDone
  <2> QED
    BY <2>1, <2>2, <2>3, <2>4 DEF Inv, Hands, NoMisdelivery
<1>13. OpeningAgrees'
  BY DEF Inv, Hands, OpeningAgrees, Opening
<1>14. IsFiniteSet(reading') /\ Cardinality(reading') = Cardinality(reading) - 1
       /\ Cardinality(reading) \in Nat
  BY FS_RemoveElement, FS_CardinalityType DEF Inv, Budget
<1>15. Held' = Held
  BY <1>2, <1>14 DEF Held
<1>16. Flying' = Flying
  BY FlyingKept
<1>17. Budget'
  BY <1>14, <1>15, <1>16 DEF Inv, Budget, BudgetExact, InFlightHonest, DrainCounts
<1> QED
  BY <1>4, <1>5, <1>6, <1>11, <1>12, <1>13, <1>17 DEF Inv, Hands

\* shutdownIo takes one outcome out of SDL's hands.
LEMMA DrainCollectInv == ASSUME Inv, DrainCollect PROVE Inv'
<1> USE DEF DrainCollect, Draining
<1> DEFINE Outcome == [slot : Slots, file : Requests, ok : BOOLEAN]
<1>1. outcomes \in Seq(Outcome) /\ outcomes # <<>> /\ outcomes' = Tail(outcomes)
  BY DEF Inv, TypeOK
<1>2. /\ outcomes' \in Seq(Outcome) /\ Len(outcomes') = Len(outcomes) - 1 /\ Len(outcomes) \in Nat
      /\ \A i \in Places' : i + 1 \in Places /\ outcomes'[i] = outcomes[i + 1]
      /\ DOMAIN outcomes' = Places' /\ DOMAIN outcomes = Places /\ Places' \subseteq Nat
  <2> HIDE DEF Outcome, DrainCollect
  <2> QED
    BY <1>1 DEF Places
<1>3. TypeOK'
  BY <1>2 DEF Inv, TypeOK
<1>4. Shape'
  BY DEF Inv, Shape, BlankWhenFree, MarksAgree, NothingWhenDown, FrameAgrees
<1>5. SlotsAccounted' /\ FirstLife'
  BY ServiceKept
<1>6. UNCHANGED <<request, reading, completed, subSlot, subFile, sub>>
  OBVIOUS
<1> HIDE DEF DrainCollect, Outcome
<1>7. OneTaskPerSlot'
  <2>1. \A i, j \in Places' : outcomes'[i].slot = outcomes'[j].slot => i = j
    <3> SUFFICES ASSUME NEW i \in Places', NEW j \in Places', outcomes'[i].slot = outcomes'[j].slot
                 PROVE  i = j
      OBVIOUS
    <3>1. i + 1 = j + 1
      <4>1. i + 1 \in Places /\ j + 1 \in Places
        BY <1>2
      <4>2. outcomes[i + 1].slot = outcomes[j + 1].slot
        BY <1>2
      <4> QED
        BY <4>1, <4>2 DEF Inv, Hands, OneTaskPerSlot
    <3> QED
      BY <1>2, <3>1
  <2>2. \A u \in reading, i \in Places' : u.slot # outcomes'[i].slot
    BY <1>2 DEF Inv, Hands, OneTaskPerSlot
  <2>3. \A i \in Places' : outcomes'[i].slot # subSlot
    BY <1>2 DEF Inv, Hands, OneTaskPerSlot
  <2> QED
    BY <1>6, <2>1, <2>2, <2>3 DEF Inv, Hands, OneTaskPerSlot
<1>8. NoMisdelivery'
  <2>1. \A i \in DOMAIN outcomes' : outcomes'[i] \in {outcomes[j] : j \in DOMAIN outcomes}
    BY <1>2
  <2> QED
    BY <1>6, <2>1 DEF Inv, Hands, NoMisdelivery
<1>9. OpeningAgrees'
  BY <1>6 DEF Inv, Hands, OpeningAgrees, Opening
<1>10. Cardinality(reading) \in Nat
  BY FS_CardinalityType DEF Inv, Budget
<1>11. Held' = Held - 1 /\ Held \in Nat
  BY <1>2, <1>6, <1>10, HeldType DEF Held
<1>12. Budget'
  BY <1>6, <1>11 DEF DrainCollect, Inv, Budget, BudgetExact, InFlightHonest, DrainCounts
<1> QED
  BY <1>3, <1>4, <1>5, <1>7, <1>8, <1>9, <1>12 DEF Inv, Hands

-----------------------------------------------------------------------------
(* Slots given back. *)

\* In the first life of the service, the request a live handle names is its own.
LEMMA HandleIsOwn ==
    ASSUME Inv, HandlesAreNames, NEW r \in Requests, Live(handle[r])
    PROVE  request[handle[r].slot].owner = r
<1> DEFINE s == handle[r].slot
           q == request[s].owner
<1>1. handle[r] \in Handles /\ s \in Slots /\ s # None
  BY DEF Inv, TypeOK, Handles, Live
<1>2. q \in Requests /\ handle[q] = [slot |-> s, gen |-> gen[s]]
  BY <1>1 DEF Inv, Shape, MarksAgree, HandlesAreNames, Live
<1>3. handle[r] = [slot |-> s, gen |-> gen[s]]
  BY <1>1 DEF Handles, Live
<1>4. Asked(q)
  BY <1>1, <1>2 DEF Asked
<1> QED
  BY <1>2, <1>3, <1>4 DEF HandlesAreNames

LEMMA LiveIsAllocated ==
    ASSUME Inv, NEW r \in Requests, Live(handle[r])
    PROVE  handle[r].slot \in Slots /\ request[handle[r].slot].allocated
BY DEF Inv, TypeOK, Handles, Live

\* The table after releaseSlotLocked is in order.
LEMMA ReleaseTable ==
    ASSUME Inv, NEW S \in SUBSET Slots, Release(S), queued' = queued \ S,
           initialized' => initialized
    PROVE  /\ request' \in [Slots -> RequestType] /\ gen' \in [Slots -> Nat]
           /\ freeSlots' \subseteq Slots /\ queued' \subseteq Slots
           /\ SlotsAccounted' /\ BlankWhenFree' /\ MarksAgree'
<1>1. request \in [Slots -> RequestType] /\ gen \in [Slots -> Nat]
  BY DEF Inv, TypeOK
<1>2. request' \in [Slots -> RequestType] /\ gen' \in [Slots -> Nat]
  BY <1>1, BlankType DEF Release
<1>3. \A s \in Slots : request'[s] = IF s \in S THEN Blank ELSE request[s]
  BY DEF Release
<1>4. freeSlots' \subseteq Slots /\ queued' \subseteq Slots /\ freeSlots' = freeSlots \cup S
  BY DEF Release, Inv, TypeOK
<1>5. ~Blank.allocated /\ Blank.status = "Unknown" /\ ~Blank.inFlight
  BY DEF Blank
<1>6. SlotsAccounted'
  BY <1>3, <1>4, <1>5 DEF Inv, SlotsAccounted
<1>7. BlankWhenFree'
  BY <1>3 DEF Inv, Shape, BlankWhenFree
<1>8. MarksAgree'
  BY <1>3, <1>5 DEF Inv, Shape, MarksAgree
<1> QED
  BY <1>2, <1>4, <1>6, <1>7, <1>8

\* Nothing in a hand is given back behind it.
LEMMA ReleaseHands ==
    ASSUME Inv, NEW S \in SUBSET Slots, Release(S), \A s \in S : ~request[s].inFlight,
           UNCHANGED <<reading, outcomes, completed, subSlot, subFile, sub>>
    PROVE  Hands' /\ Flying' = Flying
<1>1. \A s \in Slots : request'[s] = IF s \in S THEN Blank ELSE request[s]
  BY DEF Release
<1>2. ~Blank.inFlight /\ Blank.bytes = None
  BY DEF Blank
<1>3. Flying' = Flying
  BY <1>1, <1>2 DEF Flying
<1>4. OneTaskPerSlot'
  BY DEF Inv, Hands, OneTaskPerSlot, Places
<1>5. OpeningAgrees'
  BY <1>1 DEF Inv, Hands, OpeningAgrees, Opening
<1>6. NoMisdelivery'
  <2>1. \A t \in reading \cup {outcomes[i] : i \in DOMAIN outcomes} : request'[t.slot] = request[t.slot]
    BY <1>1, SdlHolds
  <2>2. \A s \in Slots : request'[s].bytes \in {None, request'[s].owner}
    BY <1>1, <1>2 DEF Inv, Hands, NoMisdelivery
  <2> QED
    BY <2>1, <2>2 DEF Inv, Hands, NoMisdelivery
<1> QED
  BY <1>3, <1>4, <1>5, <1>6 DEF Hands

LEMMA OneSlotEach ==
    ASSUME HandlesAreNames, NEW s \in Slots, NEW q \in Slots,
           request[s].allocated, request[q].allocated, request[s].owner = request[q].owner
    PROVE  s = q
<1>1. [slot |-> s, gen |-> gen[s]] = [slot |-> q, gen |-> gen[q]]
  BY DEF HandlesAreNames
<1> QED
  BY <1>1

\* The handles of the slots given back are stale, and the others name what they named.
LEMMA NamesAfterRelease ==
    ASSUME Inv, HandlesAreNames, NEW S \in SUBSET Slots,
           UNCHANGED <<handle, life>>, initialized' => initialized,
           \A s \in S : ~request'[s].allocated /\ gen'[s] = gen[s] + 1,
           \A s \in Slots \ S : /\ request'[s].allocated <=> request[s].allocated
                                /\ request'[s].owner = request[s].owner /\ gen'[s] = gen[s]
    PROVE  HandlesAreNames'
<1>1. \A r \in Requests : Asked(r) => handle[r].slot \in Slots /\ handle[r].gen \in Nat
  BY DEF Inv, TypeOK, Handles, Asked
<1>2. \A s \in Slots : gen[s] \in Nat
  BY DEF Inv, TypeOK
<1>3. life' = 0 => ~initialized' /\ \A r \in Requests : ~Asked(r)'
  BY DEF HandlesAreNames, Asked
<1>4. \A s \in Slots : request'[s].allocated =>
         handle'[request'[s].owner] = [slot |-> s, gen |-> gen'[s]]
  BY DEF HandlesAreNames
<1>5. \A r \in Requests : Asked(r)' =>
         /\ handle'[r].gen <= gen'[handle'[r].slot]
         /\ ~request'[handle'[r].slot].allocated => handle'[r].gen < gen'[handle'[r].slot]
  BY <1>1, <1>2 DEF HandlesAreNames, Asked
<1> QED
  BY <1>3, <1>4, <1>5 DEF HandlesAreNames, Asked

\* The handles of the slots given back are stale, and their requests are over.
LEMMA ReleaseNames ==
    ASSUME Inv, NEW S \in SUBSET Slots, Release(S), \A s \in S : request[s].allocated,
           UNCHANGED <<completed, handle, life, told>>, initialized' => initialized,
           life <= 1 => over' = over \cup {request[s].owner : s \in S}
    PROVE  FirstLife'
<1> SUFFICES ASSUME life <= 1, HandlesAreNames, OwedOnce
             PROVE  HandlesAreNames' /\ OwedOnce'
  BY DEF Inv, FirstLife
<1>1. \A s \in Slots : /\ request'[s] = IF s \in S THEN Blank ELSE request[s]
                       /\ gen'[s] = IF s \in S THEN gen[s] + 1 ELSE gen[s]
                       /\ gen[s] \in Nat
  BY DEF Release, Inv, TypeOK
<1>2. ~Blank.allocated
  BY DEF Blank
<1>3. \A r \in Requests : Asked(r) => handle[r].slot \in Slots /\ handle[r].gen \in Nat
  BY DEF Inv, TypeOK, Handles, Asked
<1>4. \A s, q \in Slots : request[s].allocated /\ request[q].allocated
                             /\ request[s].owner = request[q].owner => s = q
  BY OneSlotEach
<1>5. HandlesAreNames'
  BY <1>1, <1>2, NamesAfterRelease
<1>6. \A s \in Slots : request'[s].allocated => s \notin S /\ request'[s] = request[s]
  BY <1>1, <1>2
<1>7. \A s \in Slots : request'[s].allocated => request[s].owner \notin {request[q].owner : q \in S}
  BY <1>4, <1>6
<1>8. OwedOnce'
  <2>1. \A s \in Slots : request'[s].allocated =>
           told'[request'[s].owner] = 0 /\ (~request'[s].abandoned => request'[s].owner \notin over')
    BY <1>6, <1>7 DEF OwedOnce
  <2>2. \A i \in 1..Len(completed) : completed[i].owner \notin over'
    BY DEF OwedOnce
  <2>3. ToldOnce'
    BY DEF OwedOnce, ToldOnce, Inv, Shape, MarksAgree
  <2> QED
    BY <1>6, <2>1, <2>2, <2>3 DEF OwedOnce, Asked
<1> QED
  BY <1>5, <1>8

LEMMA TakeIoResultInv == ASSUME Inv, NEW r \in Requests, TakeIoResult(r) PROVE Inv'
<1> USE DEF TakeIoResult
<1> DEFINE s == handle[r].slot
<1>1. Live(handle[r]) /\ request[s].status = "Ready"
  BY DEF StatusOf
<1>2. s \in Slots /\ request[s].allocated
  BY <1>1, LiveIsAllocated
<1>3. s \notin queued /\ ~request[s].inFlight
  BY <1>1, <1>2 DEF Inv, Shape, MarksAgree
<1>4. /\ request' \in [Slots -> RequestType] /\ gen' \in [Slots -> Nat]
      /\ freeSlots' \subseteq Slots /\ queued' \subseteq Slots
      /\ SlotsAccounted' /\ BlankWhenFree' /\ MarksAgree'
  BY <1>2, <1>3, ReleaseTable
<1>5. Hands' /\ Flying' = Flying
  BY <1>2, <1>3, ReleaseHands
<1>6. life <= 1 => over' = over \cup {request[q].owner : q \in {s}}
  BY <1>1, HandleIsOwn DEF Inv, FirstLife
<1>7. FirstLife'
  BY <1>2, <1>6, ReleaseNames
<1>8. Budget'
  BY <1>5, BudgetKept DEF Opening
<1>9. TypeOK'
  BY <1>4 DEF Inv, TypeOK
<1>10. NothingWhenDown' /\ FrameAgrees'
  BY <1>2 DEF Inv, Shape, NothingWhenDown, FrameAgrees
<1> QED
  BY <1>4, <1>5, <1>7, <1>8, <1>9, <1>10 DEF Inv, Shape

LEMMA CancelIoInv == ASSUME Inv, NEW r \in Requests, CancelIo(r) PROVE Inv'
<1> DEFINE s == handle[r].slot
<1>1. /\ InProgram /\ Live(handle[r]) /\ over' = over \cup {r}
      /\ UNCHANGED <<initialized, stopping, inFlight, nextSequence, subVars, sdlVars,
                     frameVars, handle, life, told>>
  BY DEF CancelIo
<1>2. s \in Slots /\ request[s].allocated
  BY <1>1, LiveIsAllocated
<1>3. life <= 1 => request[s].owner = r
  BY <1>1, HandleIsOwn DEF Inv, FirstLife
<1>4. initialized
  BY <1>2 DEF Inv, Shape, NothingWhenDown
<1>5. CASE ~request[s].inFlight
  <2>1. Release({s}) /\ queued' = queued \ {s}
    BY <1>5 DEF CancelIo
  <2>2. /\ request' \in [Slots -> RequestType] /\ gen' \in [Slots -> Nat]
        /\ freeSlots' \subseteq Slots /\ queued' \subseteq Slots
        /\ SlotsAccounted' /\ BlankWhenFree' /\ MarksAgree'
    BY <1>1, <1>2, <2>1, ReleaseTable
  <2>3. Hands' /\ Flying' = Flying
    BY <1>1, <1>2, <1>5, <2>1, ReleaseHands
  <2>4. life <= 1 => over' = over \cup {request[q].owner : q \in {s}}
    BY <1>1, <1>3
  <2>5. FirstLife'
    BY <1>1, <1>2, <2>1, <2>4, ReleaseNames
  <2>6. Budget'
    BY <1>1, <2>3, BudgetKept DEF Opening
  <2>7. TypeOK'
    BY <1>1, <2>2 DEF Inv, TypeOK
  <2>8. NothingWhenDown' /\ FrameAgrees'
    BY <1>1, <1>4, <2>1 DEF Inv, Shape, NothingWhenDown, FrameAgrees
  <2> QED
    BY <2>2, <2>3, <2>5, <2>6, <2>7, <2>8 DEF Inv, Shape
<1>6. CASE request[s].inFlight
  <2>1. /\ request' = [request EXCEPT ![s].abandoned = TRUE, ![s].callback = FALSE]
        /\ UNCHANGED <<gen, freeSlots, queued>>
    BY <1>6 DEF CancelIo
  <2>2. request \in [Slots -> RequestType] /\ request[s] \in RequestType
    BY <1>2 DEF Inv, TypeOK
  <2>3. request'[s] = [request[s] EXCEPT !.abandoned = TRUE, !.callback = FALSE]
    BY <1>2, <2>1, <2>2
  <2>4. \A q \in Slots \ {s} : request'[q] = request[q]
    BY <2>1, <2>2
  <2>5. /\ request'[s] \in RequestType /\ request'[s].inFlight /\ request'[s].allocated
        /\ request'[s].abandoned /\ request'[s].owner = request[s].owner
        /\ request'[s].status = request[s].status /\ request'[s].bytes = request[s].bytes
    <3> HIDE DEF s, CancelIo
    <3> DEFINE q == request[s]
    <3>1. q \in RequestType /\ q.inFlight /\ q.allocated
      BY <1>2, <1>6, <2>2
    <3> HIDE DEF q
    <3>2. LET n == [q EXCEPT !.abandoned = TRUE, !.callback = FALSE] IN
          /\ n \in RequestType /\ n.inFlight = q.inFlight /\ n.allocated = q.allocated
          /\ n.abandoned /\ n.owner = q.owner /\ n.status = q.status /\ n.bytes = q.bytes
      BY <3>1 DEF RequestType
    <3> QED
      BY <2>3, <3>1, <3>2 DEF q
  <2>6. request' \in [Slots -> RequestType]
    BY <2>1, <2>2, <2>4, <2>5
  <2>7. TypeOK'
    BY <1>1, <2>1, <2>6 DEF Inv, TypeOK
  <2> HIDE DEF s
  <2>8. SlotsAccounted'
    BY <1>1, <1>2, <2>1, <2>4, <2>5 DEF Inv, SlotsAccounted
  <2>9. Shape'
    BY <1>1, <1>2, <1>4, <1>6, <2>1, <2>4, <2>5
       DEF Inv, Shape, BlankWhenFree, MarksAgree, NothingWhenDown, FrameAgrees
  <2>10. \A q \in Slots : /\ request'[q].inFlight <=> request[q].inFlight
                          /\ request'[q].owner = request[q].owner
                          /\ request'[q].bytes = request[q].bytes
    BY <1>6, <2>4, <2>5
  <2>11. Flying' = Flying
    BY <2>10, FlyingKept
  <2>12. Budget'
    BY <1>1, <2>11, BudgetKept DEF Opening
  <2>13. Hands'
    <3>1. OneTaskPerSlot'
      BY <1>1 DEF Inv, Hands, OneTaskPerSlot, Places
    <3>2. OpeningAgrees'
      BY <1>1, <2>10 DEF Inv, Hands, OpeningAgrees, Opening
    <3>3. \A t \in reading \cup {outcomes[i] : i \in DOMAIN outcomes} : t.slot \in Slots
      BY SdlHolds
    <3>4. NoMisdelivery'
      BY <1>1, <2>10, <3>3 DEF Inv, Hands, NoMisdelivery
    <3> QED
      BY <3>1, <3>2, <3>4 DEF Hands
  <2>14. FirstLife'
    <3> SUFFICES ASSUME life <= 1, HandlesAreNames, OwedOnce
                 PROVE  HandlesAreNames' /\ OwedOnce'
      BY <1>1 DEF Inv, FirstLife
    <3>1. \A q \in Slots : /\ request'[q].allocated <=> request[q].allocated
                           /\ request'[q].owner = request[q].owner
                           /\ q # s => (request'[q].abandoned <=> request[q].abandoned)
      BY <1>2, <2>4, <2>5
    <3>2. \A x \in Requests : Asked(x) => handle[x].slot \in Slots
      BY DEF Inv, TypeOK, Handles, Asked
    <3>3. HandlesAreNames'
      BY <1>1, <2>1, <3>1, <3>2 DEF HandlesAreNames, Asked
    <3>4. \A q \in Slots : request[q].allocated /\ q # s => request[q].owner # r
      BY <1>2, <1>3, OneSlotEach
    <3>5. \A i \in 1..Len(completed) : completed[i].owner # r
      BY <1>2, <1>3 DEF OwedOnce
    <3>6. told[r] = 0
      BY <1>2, <1>3 DEF OwedOnce
    <3>7. ToldOnce'
      BY <1>1, <3>6 DEF OwedOnce, ToldOnce
    <3>8. \A q \in Slots : request'[q].allocated =>
             told'[request'[q].owner] = 0 /\ (~request'[q].abandoned => request'[q].owner \notin over')
      BY <1>1, <2>5, <3>1, <3>4 DEF OwedOnce
    <3> QED
      BY <1>1, <3>1, <3>3, <3>5, <3>7, <3>8 DEF OwedOnce, Asked
  <2> QED
    BY <2>7, <2>8, <2>9, <2>12, <2>13, <2>14 DEF Inv
<1> QED
  BY <1>5, <1>6

LEMMA SetIoPriorityInv ==
    ASSUME Inv, NEW r \in Requests, NEW p \in Priorities, SetIoPriority(r, p) PROVE Inv'
<1> USE DEF SetIoPriority
<1> DEFINE s == handle[r].slot
<1>1. s \in Slots /\ request[s].allocated /\ p \in 0..3
  BY LiveIsAllocated
<1>2. request \in [Slots -> RequestType] /\ request[s] \in RequestType
  BY <1>1 DEF Inv, TypeOK
<1>3. request'[s] = [request[s] EXCEPT !.priority = p]
  BY <1>1, <1>2
<1>4. \A q \in Slots \ {s} : request'[q] = request[q]
  BY <1>2
<1>5. /\ request'[s] \in RequestType /\ request'[s].allocated
      /\ request'[s].inFlight = request[s].inFlight /\ request'[s].owner = request[s].owner
      /\ request'[s].abandoned = request[s].abandoned /\ request'[s].bytes = request[s].bytes
      /\ request'[s].status = request[s].status
  <2> HIDE DEF s, SetIoPriority
  <2> QED
    BY <1>1, <1>2, <1>3 DEF RequestType
<1>6. request' \in [Slots -> RequestType]
  BY <1>2, <1>4, <1>5
<1>7. TypeOK'
  BY <1>6 DEF Inv, TypeOK
<1> HIDE DEF s
<1>8. UNCHANGED <<initialized, freeSlots, queued, reading, outcomes, sub, frame, completed, subSlot, subFile>>
  OBVIOUS
<1>9. SlotsAccounted'
  BY <1>1, <1>4, <1>5, <1>8 DEF Inv, SlotsAccounted
<1>10. Shape'
  <2>1. BlankWhenFree'
    BY <1>1, <1>4, <1>5, <1>8 DEF Inv, Shape, BlankWhenFree
  <2>2. MarksAgree'
    BY <1>1, <1>4, <1>5, <1>8 DEF Inv, Shape, MarksAgree
  <2>3. NothingWhenDown'
    BY <1>1, <1>4, <1>5, <1>8 DEF Inv, Shape, NothingWhenDown
  <2>4. FrameAgrees'
    BY <1>1, <1>4, <1>5, <1>8 DEF Inv, Shape, FrameAgrees
  <2> QED
    BY <2>1, <2>2, <2>3, <2>4 DEF Shape
<1>11. \A q \in Slots : /\ request'[q].inFlight <=> request[q].inFlight
                        /\ request'[q].owner = request[q].owner
                        /\ request'[q].bytes = request[q].bytes
                        /\ request'[q].allocated <=> request[q].allocated
                        /\ request'[q].abandoned <=> request[q].abandoned
  BY <1>4, <1>5
<1>12. Flying' = Flying
  BY <1>11, FlyingKept
<1>13. Budget'
  BY <1>12, BudgetKept DEF Opening
<1>14. FirstLife'
  BY <1>11, NamesKept
<1>15. Hands'
  <2>1. OneTaskPerSlot'
    BY <1>8 DEF Inv, Hands, OneTaskPerSlot, Places
  <2>2. OpeningAgrees'
    BY <1>8, <1>11 DEF Inv, Hands, OpeningAgrees, Opening
  <2>3. \A t \in reading \cup {outcomes[i] : i \in DOMAIN outcomes} : t.slot \in Slots
    BY SdlHolds
  <2>4. NoMisdelivery'
    BY <1>8, <1>11, <2>3 DEF Inv, Hands, NoMisdelivery
  <2> QED
    BY <2>1, <2>2, <2>4 DEF Hands
<1> QED
  BY <1>7, <1>9, <1>10, <1>13, <1>14, <1>15 DEF Inv

LEMMA ShutdownIoInv == ASSUME Inv, ShutdownIo PROVE Inv'
<1> USE DEF ShutdownIo
<1>1. \A s \in queued : /\ s \in Slots /\ request[s].allocated /\ ~request[s].inFlight
                        /\ request[s].owner \in Requests
  BY QueuedIsHeld
<1>2. queued \in SUBSET Slots /\ queued' = queued \ queued
  BY <1>1
<1>3. /\ request' \in [Slots -> RequestType] /\ gen' \in [Slots -> Nat]
      /\ freeSlots' \subseteq Slots /\ queued' \subseteq Slots
      /\ SlotsAccounted' /\ BlankWhenFree' /\ MarksAgree'
  BY <1>2, ReleaseTable
<1>4. Hands' /\ Flying' = Flying
  BY <1>1, <1>2, ReleaseHands
<1>5. FirstLife'
  BY <1>1, <1>2, ReleaseNames
<1>6. Budget'
  BY <1>4, BudgetKept DEF Opening
<1>7. TypeOK'
  BY <1>1, <1>3 DEF Inv, TypeOK
<1>8. NothingWhenDown' /\ FrameAgrees'
  BY DEF Inv, Shape, NothingWhenDown, FrameAgrees
<1> QED
  BY <1>3, <1>4, <1>5, <1>6, <1>7, <1>8 DEF Inv, Shape

LEMMA ShutdownDoneInv == ASSUME Inv, ShutdownDone PROVE Inv'
<1> USE DEF ShutdownDone
<1> DEFINE S == {s \in Slots : request[s].allocated}
<1>1. queued = {} /\ sub = "off" /\ completed = <<>>
  BY DEF Inv, Shape, FrameAgrees
<1>2. S \in SUBSET Slots /\ queued' = queued \ S
  BY <1>1
<1>3. /\ request' \in [Slots -> RequestType] /\ gen' \in [Slots -> Nat]
      /\ freeSlots' \subseteq Slots /\ queued' \subseteq Slots
      /\ SlotsAccounted' /\ BlankWhenFree' /\ MarksAgree'
  BY <1>2, ReleaseTable
<1>4. FirstLife'
  BY <1>2, ReleaseNames
<1>5. \A s \in S : request[s].owner \in Requests
  BY DEF Inv, Shape, MarksAgree
<1>6. \A s \in Slots : request'[s] = Blank
  BY DEF Release, Inv, Shape, BlankWhenFree
<1>7. TypeOK'
  <2>1. over' \subseteq Requests
    BY <1>5 DEF Inv, TypeOK
  <2>2. outcomes' \in Seq([slot : Slots, file : Requests, ok : BOOLEAN])
    OBVIOUS
  <2> HIDE DEF S
  <2> QED
    BY <1>3, <2>1, <2>2 DEF Inv, TypeOK
<1>8. NothingWhenDown' /\ FrameAgrees'
  BY <1>1, <1>6 DEF NothingWhenDown, FrameAgrees, Blank
<1>9. Hands'
  <2>1. OneTaskPerSlot'
    BY DEF OneTaskPerSlot, Places
  <2>2. OpeningAgrees'
    BY <1>1 DEF Inv, Hands, OpeningAgrees, Opening
  <2>3. NoMisdelivery'
    BY <1>1, <1>6 DEF NoMisdelivery, Blank
  <2> QED
    BY <2>1, <2>2, <2>3 DEF Hands
<1>10. Budget'
  BY FS_EmptySet DEF Budget, BudgetExact, InFlightHonest, DrainCounts
<1> QED
  BY <1>3, <1>4, <1>7, <1>8, <1>9, <1>10 DEF Inv, Shape

-----------------------------------------------------------------------------
(* A new life, a new request. *)

LEMMA InitIoInv == ASSUME Inv, InitIo PROVE Inv'
<1> DEFINE Renewed(q) == [q EXCEPT !.allocated = FALSE, !.status = "Unknown"]
<1>0. /\ frame = "idle" /\ ~initialized /\ initialized' = TRUE /\ stopping' = FALSE
      /\ request' = [s \in Slots |-> Renewed(request[s])] /\ gen' = [s \in Slots |-> 1]
      /\ freeSlots' = Slots /\ queued' = {} /\ inFlight' = 0 /\ nextSequence' = 1
      /\ sub' = "idle" /\ life' = life + 1
      /\ UNCHANGED <<subSlot, subFile, reading, outcomes, frame, completed, outstanding, emptyWaits,
                     handle, told, over>>
  BY DEF InitIo
<1>r. Renewed(Blank) = Blank
  BY BlankRenewed
<1> HIDE DEF Renewed
<1>1. /\ \A s \in Slots : request[s] = Blank
      /\ queued = {} /\ reading = {} /\ outcomes = <<>> /\ sub = "off" /\ completed = <<>>
  BY <1>0 DEF Inv, Shape, NothingWhenDown, BlankWhenFree, FrameAgrees
<1>2. \A s \in Slots : request'[s] = Blank
  BY <1>0, <1>r, <1>1
<1>3. request' \in [Slots -> RequestType]
  BY <1>0, <1>2, BlankType
<1>4. TypeOK'
  <2>1. gen' \in [Slots -> Nat]
    BY <1>0
  <2>2. freeSlots' \subseteq Slots /\ queued' \subseteq Slots /\ inFlight' \in Nat /\ nextSequence' \in Nat
    BY <1>0
  <2>3. life' \in Nat
    BY <1>0 DEF Inv, TypeOK
  <2>4. /\ reading' \subseteq [slot : Slots, file : Requests]
        /\ outcomes' \in Seq([slot : Slots, file : Requests, ok : BOOLEAN])
        /\ completed' \in Seq([owner : Requests, file : Requests, ok : BOOLEAN])
    BY <1>0 DEF Inv, TypeOK
  <2>5. /\ initialized' \in BOOLEAN /\ stopping' \in BOOLEAN
        /\ sub' \in {"off", "idle", "asleep", "opening", "exited"}
        /\ subSlot' \in Slots \cup {None} /\ subFile' \in Requests \cup {None}
        /\ frame' \in {"idle", "wake", "fire", "called", "stop", "join", "drain"}
    BY <1>0 DEF Inv, TypeOK
  <2>6. /\ outstanding' \in Nat /\ emptyWaits' \in 0..MaxEmptyWaits
        /\ handle' \in [Requests -> Handles]
        /\ told' \in [Requests -> Nat] /\ over' \subseteq Requests
    BY <1>0 DEF Inv, TypeOK
  <2> QED
    BY <1>3, <2>1, <2>2, <2>3, <2>4, <2>5, <2>6 DEF TypeOK
<1>5. SlotsAccounted'
  BY <1>0, <1>2 DEF SlotsAccounted, Blank
<1>6. Shape'
  <2>1. BlankWhenFree'
    BY <1>0, <1>1, <1>2 DEF Inv, Shape, BlankWhenFree
  <2>2. MarksAgree'
    BY <1>0, <1>1, <1>2 DEF Inv, Shape, MarksAgree
  <2>3. NothingWhenDown'
    BY <1>0, <1>1, <1>2 DEF Inv, Shape, NothingWhenDown
  <2>4. FrameAgrees'
    BY <1>0, <1>1, <1>2 DEF Inv, Shape, FrameAgrees
  <2> QED
    BY <2>1, <2>2, <2>3, <2>4 DEF Shape
<1>7. Hands'
  <2>1. OpeningAgrees'
    BY <1>0, <1>1 DEF Inv, Hands, OpeningAgrees, Opening
  <2>2. OneTaskPerSlot'
    BY <1>0, <1>1 DEF OneTaskPerSlot, Places
  <2>3. NoMisdelivery'
    BY <1>0, <1>1, <1>2 DEF NoMisdelivery, Blank
  <2> QED
    BY <2>1, <2>2, <2>3 DEF Hands
<1>8. Budget'
  <2>1. Flying' = {}
    BY <1>2 DEF Flying, Blank
  <2>2. Held' = 0
    BY <1>0, <1>1, FS_EmptySet DEF Held
  <2> QED
    BY <1>0, <1>1, <2>1, <2>2, FS_EmptySet DEF Budget, BudgetExact, InFlightHonest, DrainCounts
<1>9. FirstLife'
  <2> SUFFICES ASSUME life' <= 1
               PROVE  HandlesAreNames' /\ OwedOnce'
    BY DEF FirstLife
  <2>1. life = 0 /\ life' = 1
    BY <1>0 DEF Inv, TypeOK
  <2>2. \A r \in Requests : ~Asked(r) /\ told[r] = 0
    BY <2>1 DEF Inv, FirstLife, HandlesAreNames, OwedOnce
  <2>3. HandlesAreNames'
    BY <1>0, <1>2, <2>1, <2>2 DEF HandlesAreNames, Asked, Blank
  <2>4. OwedOnce'
    BY <1>0, <1>1, <1>2, <2>2 DEF OwedOnce, ToldOnce, Asked, Blank
  <2> QED
    BY <2>3, <2>4
<1> QED
  BY <1>3, <1>4, <1>5, <1>6, <1>7, <1>8, <1>9 DEF Inv

LEMMA ReadFileAsyncInv ==
    ASSUME Inv, NEW r \in Requests, NEW p \in Priorities, ReadFileAsync(r, p) PROVE Inv'
<1> DEFINE carries == r \in Carries
           Asking(s) == [Blank EXCEPT !.allocated = TRUE, !.status = "Pending", !.owner = r,
                                      !.priority = p, !.sequence = nextSequence,
                                      !.callback = carries]
<1>1. PICK s \in freeSlots :
        /\ freeSlots' = freeSlots \ {s} /\ request' = [request EXCEPT ![s] = Asking(s)]
        /\ queued' = queued \cup {s} /\ handle' = [handle EXCEPT ![r] = [slot |-> s, gen |-> gen[s]]]
  BY DEF ReadFileAsync
<1>2. /\ InProgram /\ handle[r] = NoHandle /\ r \notin over /\ initialized
      /\ nextSequence' = nextSequence + 1 /\ WakeSubmitter
      /\ UNCHANGED <<initialized, stopping, gen, inFlight, subSlot, subFile, reading, outcomes,
                     frameVars, life, told, over>>
  BY DEF ReadFileAsync
<1>3. s \in Slots /\ request \in [Slots -> RequestType] /\ p \in 0..3 /\ nextSequence \in Nat
  BY DEF Inv, TypeOK
<1>4. request[s] = Blank /\ ~request[s].allocated /\ ~request[s].inFlight /\ s \notin queued
  BY <1>3 DEF Inv, SlotsAccounted, Shape, BlankWhenFree, Blank
<1>5. request'[s] = Asking(s) /\ \A q \in Slots \ {s} : request'[q] = request[q]
  BY <1>1, <1>3
<1>6. /\ Asking(s) \in RequestType /\ Asking(s).allocated /\ Asking(s).status = "Pending"
      /\ Asking(s).owner = r /\ ~Asking(s).inFlight /\ ~Asking(s).abandoned /\ Asking(s).bytes = None
  <2>1. carries \in BOOLEAN
    OBVIOUS
  <2> DEFINE n == nextSequence
             q == Asking(s)
  <2>2. n \in Nat /\ r \in Requests /\ p \in 0..3
    BY <1>3
  <2>3. q = [Blank EXCEPT !.allocated = TRUE, !.status = "Pending", !.owner = r,
                          !.priority = p, !.sequence = n, !.callback = carries]
    OBVIOUS
  <2> HIDE DEF carries, n, q, Asking
  <2>4. /\ q \in RequestType /\ q.allocated /\ q.status = "Pending" /\ q.owner = r
        /\ ~q.inFlight /\ ~q.abandoned /\ q.bytes = None
    <3> DEFINE B == Blank
    <3>1. B \in RequestType /\ ~B.inFlight /\ ~B.abandoned /\ B.bytes = None
      BY BlankType DEF Blank
    <3>2. q = [B EXCEPT !.allocated = TRUE, !.status = "Pending", !.owner = r,
                        !.priority = p, !.sequence = n, !.callback = carries]
      BY <2>3
    <3> HIDE DEF B
    <3> QED
      BY <2>1, <2>2, <3>1, <3>2 DEF RequestType, Statuses
  <2> QED
    BY <2>4 DEF q
<1> HIDE DEF Asking
<1>7. request' \in [Slots -> RequestType]
  BY <1>1, <1>3, <1>6
<1>8. gen[s] \in Nat /\ handle \in [Requests -> Handles]
  BY <1>3 DEF Inv, TypeOK
<1>9. handle' \in [Requests -> Handles] /\ handle'[r] = [slot |-> s, gen |-> gen[s]]
      /\ \A q \in Requests \ {r} : handle'[q] = handle[q]
  BY <1>1, <1>3, <1>8 DEF Handles
<1>10. TypeOK'
  BY <1>1, <1>2, <1>3, <1>7, <1>9 DEF Inv, TypeOK, WakeSubmitter
<1>11. SlotsAccounted'
  BY <1>1, <1>2, <1>5, <1>6 DEF Inv, SlotsAccounted
<1>12. Shape'
  BY <1>1, <1>2, <1>5, <1>6
     DEF Inv, Shape, BlankWhenFree, MarksAgree, NothingWhenDown, FrameAgrees, WakeSubmitter, InProgram
<1>13. Opening' <=> Opening
  BY <1>2 DEF WakeSubmitter, Opening
<1>14. \A t \in reading \cup {outcomes[i] : i \in DOMAIN outcomes} :
          t.slot # s /\ t.slot \in Slots
  BY <1>4, SdlHolds
<1>15. Hands'
  <2>1. OneTaskPerSlot'
    BY <1>2 DEF Inv, Hands, OneTaskPerSlot, Places
  <2>2. OpeningAgrees'
    BY <1>2, <1>4, <1>5, <1>13 DEF Inv, Hands, OpeningAgrees
  <2>3. NoMisdelivery'
    BY <1>2, <1>5, <1>6, <1>14 DEF Inv, Hands, NoMisdelivery
  <2> QED
    BY <2>1, <2>2, <2>3 DEF Hands
<1>16. Flying' = Flying
  BY <1>4, <1>5, <1>6, FlyingKept
<1>17. Budget'
  BY <1>2, <1>13, <1>16, BudgetKept DEF WakeSubmitter
<1>18. FirstLife'
  <2> SUFFICES ASSUME life <= 1, HandlesAreNames, OwedOnce
               PROVE  HandlesAreNames' /\ OwedOnce'
    BY <1>2 DEF Inv, FirstLife
  <2>1. ~Asked(r) /\ Asked(r)' /\ \A q \in Requests \ {r} : Asked(q)' <=> Asked(q)
    BY <1>2, <1>3, <1>9, IoAssumption DEF Asked, NoHandle
  <2>2. \A q \in Slots : request[q].allocated =>
           request[q].owner \in Requests \ {r} /\ q # s
    <3> SUFFICES ASSUME NEW q \in Slots, request[q].allocated
                 PROVE  request[q].owner \in Requests \ {r} /\ q # s
      OBVIOUS
    <3>1. request[q].owner \in Requests
      BY DEF Inv, Shape, MarksAgree
    <3>2. handle[request[q].owner].slot = q
      <4>1. handle[request[q].owner] = [slot |-> q, gen |-> gen[q]]
        BY DEF HandlesAreNames
      <4> QED
        BY <4>1
    <3>3. Asked(request[q].owner)
      BY <3>2, IoAssumption DEF Asked
    <3> QED
      BY <1>4, <2>1, <3>1, <3>3
  <2>3. HandlesAreNames'
    <3>1. life # 0
      BY <1>2 DEF HandlesAreNames
    <3>2. \A q \in Slots : request'[q].allocated =>
             handle'[request'[q].owner] = [slot |-> q, gen |-> gen'[q]]
      BY <1>2, <1>5, <1>6, <1>9, <2>2 DEF HandlesAreNames
    <3>3. \A q \in Requests : Asked(q)' =>
             /\ handle'[q].gen <= gen'[handle'[q].slot]
             /\ ~request'[handle'[q].slot].allocated => handle'[q].gen < gen'[handle'[q].slot]
      <4>1. CASE TRUE
        <5> SUFFICES ASSUME NEW q \in Requests, Asked(q)'
                     PROVE  /\ handle'[q].gen <= gen[handle'[q].slot]
                            /\ ~request'[handle'[q].slot].allocated => handle'[q].gen < gen[handle'[q].slot]
          BY <1>2
        <5>1. CASE q = r
          BY <1>5, <1>6, <1>8, <1>9, <5>1
        <5>2. CASE q # r
          <6>1. handle'[q] = handle[q] /\ Asked(q) /\ handle[q].slot \in Slots
            BY <1>8, <1>9, <2>1, <5>2 DEF Asked, Handles
          <6> QED
            BY <1>4, <1>5, <1>6, <6>1 DEF HandlesAreNames
        <5> QED
          BY <5>1, <5>2
      <4> QED
        BY <4>1
    <3>4. \A q \in Requests \ {r} : Asked(q) => handle[q] # handle'[r]
      <4> SUFFICES ASSUME NEW q \in Requests \ {r}, Asked(q), handle[q] = handle'[r]
                   PROVE  FALSE
        OBVIOUS
      <4>1. handle[q].slot = s /\ handle[q].gen = gen[s]
        BY <1>9
      <4>2. handle[q].gen < gen[s]
        BY <1>4, <4>1 DEF HandlesAreNames
      <4> QED
        BY <1>8, <4>1, <4>2
    <3>5. \A q, x \in Requests : Asked(q)' /\ handle'[q] = handle'[x] => q = x
      <4> SUFFICES ASSUME NEW q \in Requests, NEW x \in Requests, Asked(q)', handle'[q] = handle'[x]
                   PROVE  q = x
        OBVIOUS
      <4>1. Asked(x)'
        BY DEF Asked
      <4> QED
        BY <1>9, <2>1, <3>4, <4>1 DEF HandlesAreNames
    <3> QED
      BY <1>2, <3>1, <3>2, <3>3, <3>5 DEF HandlesAreNames
  <2>4. OwedOnce'
    <3>1. told[r] = 0
      BY <2>1 DEF OwedOnce
    <3>2. \A q \in Slots : request'[q].allocated =>
             /\ told[request'[q].owner] = 0
             /\ ~request'[q].abandoned => request'[q].owner \notin over
      BY <1>2, <1>5, <1>6, <3>1 DEF OwedOnce
    <3>3. \A i \in 1..Len(completed) : completed[i].owner # r /\ completed[i].owner \in Requests
      BY <2>1, CompletedTypes DEF OwedOnce
    <3>4. \A i \in 1..Len(completed) :
             \A q \in Slots : request'[q].allocated => request'[q].owner # completed[i].owner
      BY <1>5, <1>6, <3>3 DEF OwedOnce
    <3>5. \A i \in 1..Len(completed) : Asked(completed[i].owner)'
      <4> SUFFICES ASSUME NEW i \in 1..Len(completed)
                   PROVE  Asked(completed[i].owner)'
        OBVIOUS
      <4>1. Asked(completed[i].owner)
        BY DEF OwedOnce
      <4> DEFINE q == completed[i].owner
      <4>2. q \in Requests \ {r} /\ Asked(q)
        BY <3>3, <4>1
      <4>3. handle'[q] = handle[q]
        BY <1>9, <4>2
      <4> QED
        BY <1>2, <4>2, <4>3 DEF Asked
    <3>6. ToldOnce'
      BY <1>2 DEF OwedOnce, ToldOnce
    <3>7. \A q \in Requests : ~Asked(q)' => told[q] = 0
      BY <2>1 DEF OwedOnce
    <3> QED
      BY <1>2, <3>2, <3>4, <3>5, <3>6, <3>7 DEF OwedOnce
  <2> QED
    BY <2>3, <2>4
<1> QED
  BY <1>10, <1>11, <1>12, <1>15, <1>17, <1>18 DEF Inv

-----------------------------------------------------------------------------
(* What SDL has finished, delivered. *)

LEMMA FireCallbackInv == ASSUME Inv, FireCallback PROVE Inv'
<1> DEFINE C == [owner : Requests, file : Requests, ok : BOOLEAN]
           r == Head(completed).owner
<1>0. /\ frame = "fire" /\ told' = [told EXCEPT ![r] = @ + 1]
      /\ completed' = Tail(completed) /\ frame' = "called"
      /\ UNCHANGED <<serviceVars, subVars, sdlVars, outstanding, emptyWaits, handle, life, over>>
  BY DEF FireCallback
<1>1. completed \in Seq(C) /\ completed # <<>>
  BY <1>0 DEF Inv, Shape, FrameAgrees, TypeOK
<1>2. /\ completed' \in Seq(C) /\ Len(completed') = Len(completed) - 1 /\ Len(completed) \in Nat \ {0}
      /\ \A i \in 1..Len(completed') :
            i \in Nat /\ i + 1 \in 1..Len(completed) /\ i + 1 # 1 /\ completed'[i] = completed[i + 1]
      /\ DOMAIN completed' = 1..Len(completed')
  <2> HIDE DEF C
  <2> QED
    BY <1>0, <1>1
<1>3. r = completed[1].owner /\ 1 \in 1..Len(completed) /\ r \in Requests
  <2>1. Head(completed) = completed[1]
    BY <1>1
  <2> QED
    BY <1>2, <2>1, CompletedTypes
<1> HIDE DEF r
<1>4. told' \in [Requests -> Nat] /\ told'[r] = told[r] + 1
      /\ \A q \in Requests \ {r} : told'[q] = told[q]
  BY <1>0, <1>3 DEF Inv, TypeOK
<1>5. TypeOK'
  BY <1>0, <1>2, <1>4 DEF Inv, TypeOK
<1>6. Shape'
  <2>1. BlankWhenFree'
    BY <1>0 DEF Inv, Shape, BlankWhenFree
  <2>2. MarksAgree'
    BY <1>0 DEF Inv, Shape, MarksAgree
  <2>3. NothingWhenDown'
    BY <1>0 DEF Inv, Shape, NothingWhenDown
  <2>4. FrameAgrees'
    BY <1>0 DEF Inv, Shape, FrameAgrees
  <2> QED
    BY <2>1, <2>2, <2>3, <2>4 DEF Shape
<1>7. SlotsAccounted'
  BY <1>0 DEF Inv, SlotsAccounted
<1>8. Hands'
  <2>1. OneTaskPerSlot'
    BY <1>0 DEF Inv, Hands, OneTaskPerSlot, Places
  <2>2. OpeningAgrees'
    BY <1>0 DEF Inv, Hands, OpeningAgrees, Opening
  <2>3. \A i \in DOMAIN completed' : completed'[i].owner = completed'[i].file
    BY <1>2, CompletedTypes
  <2>4. NoMisdelivery'
    BY <1>0, <2>3 DEF Inv, Hands, NoMisdelivery
  <2> QED
    BY <2>1, <2>2, <2>4 DEF Hands
<1>9. Budget'
  BY <1>0, FlyingKept, BudgetKept DEF Opening
<1>10. FirstLife'
  <2> SUFFICES ASSUME life <= 1, HandlesAreNames, OwedOnce
               PROVE  HandlesAreNames' /\ OwedOnce'
    BY <1>0 DEF Inv, FirstLife
  <2>1. HandlesAreNames'
    BY <1>0 DEF HandlesAreNames, Asked
  <2>2. /\ told[r] = 0 /\ r \notin over /\ Asked(r)
        /\ \A s \in Slots : request[s].allocated => request[s].owner # r
    BY <1>3 DEF OwedOnce
  <2>3. \A i \in 1..Len(completed') : completed'[i].owner # r /\ completed'[i].owner \in Requests
    <3> SUFFICES ASSUME NEW i \in 1..Len(completed')
                 PROVE  completed'[i].owner # r /\ completed'[i].owner \in Requests
      OBVIOUS
    <3>1. i + 1 \in 1..Len(completed) /\ i + 1 # 1 /\ completed'[i] = completed[i + 1]
      BY <1>2
    <3>2. completed[i + 1].owner # completed[1].owner
      BY <1>3, <3>1 DEF OwedOnce
    <3> QED
      BY <1>3, <3>1, <3>2, CompletedTypes
  <2>4. \A s \in Slots : request[s].allocated => told'[request[s].owner] = 0
    BY <1>4, <2>2 DEF OwedOnce, Inv, Shape, MarksAgree
  <2>5. \A i \in 1..Len(completed') :
           LET q == completed'[i].owner IN
           /\ told'[q] = 0 /\ q \notin over /\ Asked(q)
           /\ \A s \in Slots : request[s].allocated => request[s].owner # q
    <3> SUFFICES ASSUME NEW i \in 1..Len(completed'), NEW q, q = completed'[i].owner
                 PROVE  /\ told'[q] = 0 /\ q \notin over /\ Asked(q)
                        /\ \A s \in Slots : request[s].allocated => request[s].owner # q
      OBVIOUS
    <3> DEFINE k == i + 1
    <3>1. k \in 1..Len(completed) /\ q = completed[k].owner
      BY <1>2
    <3> HIDE DEF k
    <3>2. /\ told[q] = 0 /\ q \notin over /\ Asked(q)
          /\ \A s \in Slots : request[s].allocated => request[s].owner # q
      BY <3>1 DEF OwedOnce
    <3>3. told'[q] = told[q]
      BY <1>4, <2>3
    <3> QED
      BY <3>2, <3>3
  <2>6. \A i, j \in 1..Len(completed') : completed'[i].owner = completed'[j].owner => i = j
    <3> SUFFICES ASSUME NEW i \in 1..Len(completed'), NEW j \in 1..Len(completed'),
                        completed'[i].owner = completed'[j].owner
                 PROVE  i = j
      OBVIOUS
    <3>1. i + 1 = j + 1
      BY <1>2 DEF OwedOnce
    <3> QED
      BY <1>2, <3>1
  <2>7. \A q \in Requests : ~Asked(q) => told'[q] = 0
    BY <1>4, <2>2 DEF OwedOnce
  <2>8. ToldOnce'
    BY <1>0, <1>4, <2>2 DEF OwedOnce, ToldOnce
  <2> QED
    BY <1>0, <2>1, <2>4, <2>5, <2>6, <2>7, <2>8 DEF OwedOnce, Asked
<1> QED
  BY <1>5, <1>6, <1>7, <1>8, <1>9, <1>10 DEF Inv

\* As many slots as there are outcomes, all of them in flight.
LEMMA OutcomeSlots ==
    ASSUME Inv
    PROVE  LET S == {outcomes[i].slot : i \in Places} IN
           S \subseteq Flying /\ IsFiniteSet(S) /\ Cardinality(S) = Len(outcomes)
<1> DEFINE S == {outcomes[i].slot : i \in Places}
           f == [i \in Places |-> outcomes[i].slot]
<1>1. S \subseteq Flying
  BY SdlHolds DEF Flying
<1>2. \A i, j \in Places : outcomes[i].slot = outcomes[j].slot => i = j
  BY DEF Inv, Hands, OneTaskPerSlot
<1>3. IsFiniteSet(Places) /\ Cardinality(Places) = Len(outcomes)
  <2>1. Len(outcomes) \in Nat /\ 1 \in Int /\ Len(outcomes) \in Int
    BY SdlHolds
  <2>2. IsFiniteSet(1..Len(outcomes))
        /\ Cardinality(1..Len(outcomes)) = IF 1 > Len(outcomes) THEN 0 ELSE Len(outcomes) - 1 + 1
    BY <2>1, FS_Interval
  <2> QED
    BY <2>1, <2>2 DEF Places
<1>4. f \in [Places -> S] /\ f \in Surjection(Places, S)
  BY DEF Surjection
<1>5. f \in Injection(Places, S)
  BY <1>2, <1>4 DEF Injection, IsInjective
<1> HIDE DEF f, S
<1>6. IsFiniteSet(S) /\ Cardinality(S) = Cardinality(Places)
  BY <1>3, <1>4, <1>5, FS_Surjection
<1> QED
  BY <1>1, <1>3, <1>6 DEF S

LEMMA SettledType ==
    ASSUME NEW q \in RequestType, NEW o, o.ok \in BOOLEAN, o.file \in Requests
    PROVE  /\ Settled(q, o) \in RequestType /\ ~Settled(q, o).inFlight
           /\ Settled(q, o).allocated = q.allocated /\ Settled(q, o).owner = q.owner
           /\ Settled(q, o).abandoned = q.abandoned
           /\ Settled(q, o).status \in {"Ready", "Failed"} /\ Settled(q, o).bytes \in {None, o.file}
BY DEF Settled, RequestType, Statuses

\* The outcome a slot is settled with is its own.
LEMMA PumpedOutcome ==
    ASSUME Inv, NEW i \in Places
    PROVE  (CHOOSE o \in {outcomes[j] : j \in DOMAIN outcomes} : o.slot = outcomes[i].slot) = outcomes[i]
<1> DEFINE c == CHOOSE o \in {outcomes[j] : j \in DOMAIN outcomes} : o.slot = outcomes[i].slot
<1>1. DOMAIN outcomes = Places
  BY SdlHolds
<1>2. c \in {outcomes[j] : j \in DOMAIN outcomes} /\ c.slot = outcomes[i].slot
  BY <1>1
<1>3. PICK j \in Places : c = outcomes[j]
  BY <1>1, <1>2
<1> HIDE DEF c
<1>4. j = i
  BY <1>2, <1>3 DEF Inv, Hands, OneTaskPerSlot
<1> QED
  BY <1>3, <1>4 DEF c

\* What pumpIo does to a slot: let go, settled, or left alone.
LEMMA PumpedSlots ==
    ASSUME Inv, PumpIo
    PROVE  LET freed == {outcomes[i].slot : i \in {j \in Places : \/ Silent(outcomes[j])
                                                                  \/ ByCallback(outcomes[j])}} IN
           /\ \A s \in freed : /\ s \in Slots /\ request[s].inFlight
                               /\ request'[s] = Blank /\ gen'[s] = gen[s] + 1
           /\ \A i \in Places : outcomes[i].slot \notin freed =>
                /\ request'[outcomes[i].slot] = Settled(request[outcomes[i].slot], outcomes[i])
                /\ gen'[outcomes[i].slot] = gen[outcomes[i].slot]
           /\ \A s \in Slots : (\A i \in Places : outcomes[i].slot # s) =>
                request'[s] = request[s] /\ gen'[s] = gen[s] /\ s \notin freed
           /\ freeSlots' = freeSlots \cup freed
           /\ DOMAIN request' = Slots /\ gen' \in [Slots -> Nat]
<1> DEFINE landed == {outcomes[i] : i \in DOMAIN outcomes}
           let    == {o.slot : o \in {l \in landed : Silent(l) \/ ByCallback(l)}}
           Own(s) == CHOOSE o \in landed : o.slot = s
           freed  == {outcomes[i].slot : i \in {j \in Places : \/ Silent(outcomes[j])
                                                               \/ ByCallback(outcomes[j])}}
<1>1. /\ request' = [s \in Slots |->
              IF s \in let THEN Blank
              ELSE IF \E o \in landed : o.slot = s THEN Settled(request[s], Own(s)) ELSE request[s]]
      /\ gen' = [s \in Slots |-> IF s \in let THEN gen[s] + 1 ELSE gen[s]]
      /\ freeSlots' = freeSlots \cup let
  BY DEF PumpIo
<1>2. DOMAIN outcomes = Places
  BY SdlHolds
<1>3. let = freed
  BY <1>2
<1>4. \A i \in Places : outcomes[i] \in landed /\ Own(outcomes[i].slot) = outcomes[i]
  BY <1>2, PumpedOutcome
<1>5. \A o \in landed : \E i \in Places : o = outcomes[i]
  BY <1>2
<1> HIDE DEF let, landed, Own
<1>6. \A s \in freed : s \in Slots /\ request[s].inFlight
  BY SdlHolds
<1>7. \A s \in freed : request'[s] = Blank /\ gen'[s] = gen[s] + 1
  BY <1>1, <1>3, <1>6
<1>8. \A i \in Places : outcomes[i].slot \notin freed =>
         /\ request'[outcomes[i].slot] = Settled(request[outcomes[i].slot], outcomes[i])
         /\ gen'[outcomes[i].slot] = gen[outcomes[i].slot]
  BY <1>1, <1>3, <1>4, SdlHolds
<1>9. \A s \in Slots : (\A i \in Places : outcomes[i].slot # s) => s \notin freed
  OBVIOUS
<1>10. \A s \in Slots : (\A i \in Places : outcomes[i].slot # s) =>
          request'[s] = request[s] /\ gen'[s] = gen[s]
  BY <1>1, <1>3, <1>5, <1>9
<1>11. DOMAIN request' = Slots /\ gen' \in [Slots -> Nat]
  BY <1>1 DEF Inv, TypeOK
<1> QED
  BY <1>1, <1>3, <1>6, <1>7, <1>8, <1>9, <1>10, <1>11

\* The callbacks pumpIo owes are those of the outcomes that have one, each once.
LEMMA PumpedCallbacks ==
    ASSUME Inv, PumpIo
    PROVE  /\ completed' \in Seq([owner : Requests, file : Requests, ok : BOOLEAN])
           /\ DOMAIN completed' = 1..Len(completed')
           /\ \A n \in 1..Len(completed') : \E i \in Places :
                /\ ByCallback(outcomes[i]) /\ completed'[n].owner = outcomes[i].file
                /\ completed'[n].file = outcomes[i].file
           /\ \A n, k \in 1..Len(completed') : completed'[n].owner = completed'[k].owner =>
                n = k \/ \E i, j \in Places : /\ i # j /\ outcomes[i].file = outcomes[j].file
<1> DEFINE Outcome == [slot : Slots, file : Requests, ok : BOOLEAN]
           I == {i \in DOMAIN outcomes : ByCallback(outcomes[i])}
           m == Cardinality(I)
           called == Sublist(outcomes, I)
           C == [owner : Requests, file : Requests, ok : BOOLEAN]
<1>1. outcomes \in Seq(Outcome) /\ DOMAIN outcomes = 1..Len(outcomes)
  BY DEF Inv, TypeOK
<1>2. I \in SUBSET (1..Len(outcomes))
  BY <1>1
<1>3. completed' = [n \in DOMAIN called |->
          [owner |-> request[called[n].slot].owner, file |-> called[n].file, ok |-> called[n].ok]]
  BY DEF PumpIo
<1>4. \A i \in I : i \in Places /\ ByCallback(outcomes[i])
  BY SdlHolds
<1> HIDE DEF Outcome, I
<1>5. /\ m \in Nat /\ called \in Seq(Outcome) /\ Len(called) = m
      /\ \A n \in 1..m : Place(I, n) \in I /\ called[n] = outcomes[Place(I, n)]
      /\ \A n, k \in 1..m : n < k => Place(I, n) < Place(I, k)
  <2>1. /\ Cardinality(I) \in Nat
        /\ Sublist(outcomes, I) \in Seq(Outcome) /\ Len(Sublist(outcomes, I)) = Cardinality(I)
    BY <1>1, <1>2, SublistIsExact
  <2>2. \A n \in 1..Cardinality(I) :
           Place(I, n) \in I /\ Sublist(outcomes, I)[n] = outcomes[Place(I, n)]
    BY <1>1, <1>2, SublistIsExact
  <2>3. \A n, k \in 1..Cardinality(I) : n < k => Place(I, n) < Place(I, k)
    BY <1>1, <1>2, SublistIsExact
  <2> QED
    BY <2>1, <2>2, <2>3
<1>6. DOMAIN called = 1..m
  BY <1>5
<1> HIDE DEF m, called
<1>7. \A n \in 1..m : completed'[n] = [owner |-> outcomes[Place(I, n)].file,
                                      file |-> outcomes[Place(I, n)].file,
                                      ok |-> outcomes[Place(I, n)].ok]
  BY <1>3, <1>4, <1>5, <1>6, SdlHolds
<1>8. completed' = [n \in 1..m |-> completed'[n]] /\ \A n \in 1..m : completed'[n] \in C
  BY <1>3, <1>4, <1>5, <1>6, <1>7, SdlHolds
<1> HIDE DEF C
<1>9. completed' \in Seq(C) /\ Len(completed') = m /\ DOMAIN completed' = 1..m
  BY <1>5, <1>8
<1>12. \A n \in 1..m : /\ Place(I, n) \in Places /\ ByCallback(outcomes[Place(I, n)])
                       /\ completed'[n].owner = outcomes[Place(I, n)].file
                       /\ completed'[n].file = outcomes[Place(I, n)].file
  <2>1. \A n \in 1..m : Place(I, n) \in I
    BY <1>5
  <2>2. \A n \in 1..m : Place(I, n) \in Places /\ ByCallback(outcomes[Place(I, n)])
    BY <1>4, <2>1
  <2>3. \A n \in 1..m : /\ completed'[n].owner = outcomes[Place(I, n)].file
                        /\ completed'[n].file = outcomes[Place(I, n)].file
    <3> SUFFICES ASSUME NEW n \in 1..m
                 PROVE  /\ completed'[n].owner = outcomes[Place(I, n)].file
                        /\ completed'[n].file = outcomes[Place(I, n)].file
      OBVIOUS
    <3> DEFINE o == outcomes[Place(I, n)]
    <3>1. completed'[n] = [owner |-> o.file, file |-> o.file, ok |-> o.ok]
      BY <1>7
    <3> HIDE DEF o
    <3>2. completed'[n].owner = o.file /\ completed'[n].file = o.file
      BY <3>1
    <3> QED
      BY <3>2 DEF o
  <2> QED
    BY <2>2, <2>3
<1>10. \A n \in 1..m : \E i \in Places :
          /\ ByCallback(outcomes[i]) /\ completed'[n].owner = outcomes[i].file
          /\ completed'[n].file = outcomes[i].file
  BY <1>12
<1>11. \A n, k \in 1..m : completed'[n].owner = completed'[k].owner =>
          n = k \/ \E i, j \in Places : i # j /\ outcomes[i].file = outcomes[j].file
  <2> SUFFICES ASSUME NEW n \in 1..m, NEW k \in 1..m, completed'[n].owner = completed'[k].owner, n # k
               PROVE  \E i, j \in Places : i # j /\ outcomes[i].file = outcomes[j].file
    OBVIOUS
  <2>1. Place(I, n) \in Places /\ Place(I, k) \in Places /\ Place(I, n) # Place(I, k)
    <3>1. n < k \/ k < n
      BY <1>5
    <3>2. Place(I, n) \in Int /\ Place(I, k) \in Int
      BY <1>4, <1>5 DEF Places
    <3> QED
      BY <1>4, <1>5, <3>1, <3>2
  <2>2. outcomes[Place(I, n)].file = outcomes[Place(I, k)].file
    BY <1>12
  <2> QED
    BY <2>1, <2>2
<1> QED
  BY <1>9, <1>10, <1>11 DEF C

\* What pumpIo leaves is a table in order, and hands that hold what they held.
LEMMA PumpIoInv == ASSUME Inv, PumpIo PROVE Inv'
<1> DEFINE freed == {outcomes[i].slot : i \in {j \in Places : \/ Silent(outcomes[j])
                                                              \/ ByCallback(outcomes[j])}}
           landed == {outcomes[i].slot : i \in Places}
<1>0. /\ frame = "idle" /\ initialized /\ outcomes' = <<>>
      /\ inFlight' = IF inFlight > Len(outcomes) THEN inFlight - Len(outcomes) ELSE 0
      /\ frame' = IF queued # {} THEN "wake" ELSE IF completed' # <<>> THEN "fire" ELSE "idle"
      /\ UNCHANGED <<initialized, stopping, queued, nextSequence, sub, subSlot, subFile, reading,
                     outstanding, emptyWaits, handle, life, told, over>>
  BY DEF PumpIo
<1>1. \A s \in freed : /\ s \in Slots /\ request[s].inFlight
                       /\ request'[s] = Blank /\ gen'[s] = gen[s] + 1
  BY PumpedSlots
<1>2. \A i \in Places : outcomes[i].slot \notin freed =>
         /\ request'[outcomes[i].slot] = Settled(request[outcomes[i].slot], outcomes[i])
         /\ gen'[outcomes[i].slot] = gen[outcomes[i].slot]
  BY PumpedSlots
<1>3. \A s \in Slots : s \notin landed => request'[s] = request[s] /\ gen'[s] = gen[s] /\ s \notin freed
  BY PumpedSlots
<1>4. freeSlots' = freeSlots \cup freed /\ DOMAIN request' = Slots /\ gen' \in [Slots -> Nat]
  BY PumpedSlots
<1>5. \A s \in Slots : s \in landed /\ s \notin freed =>
         /\ request'[s] \in RequestType /\ ~request'[s].inFlight /\ gen'[s] = gen[s]
         /\ request'[s].allocated = request[s].allocated /\ request'[s].owner = request[s].owner
         /\ request'[s].abandoned = request[s].abandoned
         /\ request'[s].status \in {"Ready", "Failed"} /\ request'[s].bytes \in {None, request[s].owner}
  <2> SUFFICES ASSUME NEW i \in Places, outcomes[i].slot \notin freed
               PROVE  LET s == outcomes[i].slot IN
                      /\ request'[s] \in RequestType /\ ~request'[s].inFlight /\ gen'[s] = gen[s]
                      /\ request'[s].allocated = request[s].allocated
                      /\ request'[s].owner = request[s].owner
                      /\ request'[s].abandoned = request[s].abandoned
                      /\ request'[s].status \in {"Ready", "Failed"}
                      /\ request'[s].bytes \in {None, request[s].owner}
    OBVIOUS
  <2> DEFINE s == outcomes[i].slot
  <2>1. /\ s \in Slots /\ outcomes[i].ok \in BOOLEAN /\ outcomes[i].file \in Requests
        /\ request[s].owner = outcomes[i].file
    BY SdlHolds
  <2>2. request[s] \in RequestType
    BY <2>1 DEF Inv, TypeOK
  <2>3. request'[s] = Settled(request[s], outcomes[i]) /\ gen'[s] = gen[s]
    BY <1>2
  <2> HIDE DEF s, freed
  <2> QED
    BY <2>1, <2>2, <2>3, SettledType DEF s
<1>6. landed \subseteq Flying /\ IsFiniteSet(landed) /\ Cardinality(landed) = Len(outcomes)
  BY OutcomeSlots
<1>7. freed \subseteq landed /\ freed \subseteq Slots
  BY <1>1
<1>8. /\ \A t \in reading : t.slot \notin landed /\ t.slot \in Slots
      /\ subSlot \notin landed
  BY SdlHolds DEF Inv, Hands, OneTaskPerSlot
<1>9. \A s \in landed : s \in Slots /\ request[s].inFlight
  BY <1>6 DEF Flying
<1>h. \A s \in Slots : request[s].inFlight => request[s].allocated
  BY DEF Inv, Shape, BlankWhenFree, Blank
<1>c. \A i \in Places : ByCallback(outcomes[i]) => outcomes[i].slot \in freed
  OBVIOUS
<1> HIDE DEF freed, landed
<1>10. request' \in [Slots -> RequestType]
  <2>1. \A s \in Slots : request'[s] \in RequestType
    BY <1>1, <1>3, <1>5, BlankType DEF Inv, TypeOK
  <2>2. request' = [s \in Slots |-> request'[s]]
    BY <1>4 DEF PumpIo
  <2> QED
    BY <2>1, <2>2
<1>11. completed' \in Seq([owner : Requests, file : Requests, ok : BOOLEAN])
  BY PumpedCallbacks
<1>12. TypeOK'
  <2>1. inFlight' \in Nat
    BY <1>0, SdlHolds DEF Inv, TypeOK
  <2>2. outcomes' \in Seq([slot : Slots, file : Requests, ok : BOOLEAN])
    BY <1>0
  <2>3. freeSlots' \subseteq Slots
    BY <1>4, <1>7 DEF Inv, TypeOK
  <2> QED
    BY <1>0, <1>4, <1>10, <1>11, <2>1, <2>2, <2>3 DEF Inv, TypeOK
<1>13. SlotsAccounted'
  BY <1>0, <1>1, <1>3, <1>4, <1>5, <1>7, <1>9 DEF Inv, SlotsAccounted, Shape, MarksAgree, Blank
<1>14. Shape'
  <2>1. BlankWhenFree'
    BY <1>1, <1>3, <1>5, <1>9, <1>h DEF Inv, Shape, BlankWhenFree
  <2>2. MarksAgree'
    BY <1>0, <1>1, <1>3, <1>5, <1>9 DEF Inv, Shape, MarksAgree, Blank
  <2>3. NothingWhenDown' /\ FrameAgrees'
    BY <1>0 DEF NothingWhenDown, FrameAgrees
  <2> QED
    BY <2>1, <2>2, <2>3 DEF Shape
<1>15. Hands'
  <2>1. OneTaskPerSlot'
    BY <1>0 DEF Inv, Hands, OneTaskPerSlot, Places
  <2>2. OpeningAgrees'
    BY <1>0, <1>3, <1>8 DEF Inv, Hands, OpeningAgrees, Opening
  <2>3. \A t \in reading : request'[t.slot].inFlight /\ request'[t.slot].owner = t.file
    BY <1>3, <1>8, SdlHolds
  <2>4. \A s \in Slots : request'[s].bytes \in {None, request'[s].owner}
    BY <1>1, <1>3, <1>5 DEF Inv, Hands, NoMisdelivery, Blank
  <2>5. \A n \in DOMAIN completed' : completed'[n].owner = completed'[n].file
    BY PumpedCallbacks
  <2>6. NoMisdelivery'
    BY <1>0, <2>3, <2>4, <2>5 DEF NoMisdelivery
  <2> QED
    BY <2>1, <2>2, <2>6 DEF Hands
<1>16. Budget'
  <2>1. Flying' = Flying \ landed
    BY <1>1, <1>3, <1>5, <1>7 DEF Flying, Blank
  <2>2. IsFiniteSet(Flying) /\ Flying \cap landed = landed
    BY <1>6, FS_Subset DEF Flying
  <2>3. Cardinality(Flying') = Cardinality(Flying) - Len(outcomes)
    <3>1. Cardinality(Flying \ landed) = Cardinality(Flying) - Cardinality(Flying \cap landed)
      BY <2>2, FS_Difference
    <3> QED
      BY <1>6, <2>1, <2>2, <3>1
  <2>4. Cardinality(reading) \in Nat /\ Len(outcomes) \in Nat
    BY SdlHolds, FS_CardinalityType DEF Inv, Budget
  <2>5. Held' = Cardinality(reading)
    BY <1>0, <2>4 DEF Held
  <2>6. inFlight = Held + (IF sub = "opening" THEN 1 ELSE 0)
        /\ inFlight = Cardinality(Flying) /\ inFlight <= MaxInFlight
    BY <1>0 DEF Inv, Budget, BudgetExact, InFlightHonest
  <2>7. inFlight' = inFlight - Len(outcomes)
    BY <1>0, <2>4, <2>6 DEF Held
  <2> QED
    BY <1>0, <2>3, <2>4, <2>5, <2>6, <2>7
       DEF Inv, Budget, BudgetExact, InFlightHonest, DrainCounts, Held
<1>17. FirstLife'
  <2> SUFFICES ASSUME life <= 1, HandlesAreNames, OwedOnce
               PROVE  HandlesAreNames' /\ OwedOnce'
    BY <1>0 DEF Inv, FirstLife
  <2>1. \A s \in freed : ~request'[s].allocated /\ gen'[s] = gen[s] + 1
    BY <1>1 DEF Blank
  <2>2. \A s \in Slots \ freed : /\ request'[s].allocated <=> request[s].allocated
                                 /\ request'[s].owner = request[s].owner /\ gen'[s] = gen[s]
                                 /\ request'[s].abandoned <=> request[s].abandoned
    BY <1>3, <1>5
  <2>3. HandlesAreNames'
    <3>1. freed \in SUBSET Slots /\ UNCHANGED <<handle, life>> /\ (initialized' => initialized)
      BY <1>0, <1>7
    <3> QED
      BY <2>1, <2>2, <3>1, NamesAfterRelease
  <2>6. \A n \in 1..Len(completed') :
           LET r == completed'[n].owner IN
           /\ told'[r] = 0 /\ r \notin over' /\ handle'[r].slot # None
           /\ \A s \in Slots : request'[s].allocated => request'[s].owner # r
    <3> SUFFICES ASSUME NEW n \in 1..Len(completed'), NEW r, r = completed'[n].owner
                 PROVE  /\ told'[r] = 0 /\ r \notin over' /\ handle'[r].slot # None
                        /\ \A s \in Slots : request'[s].allocated => request'[s].owner # r
      OBVIOUS
    <3>1. PICK i \in Places : ByCallback(outcomes[i]) /\ r = outcomes[i].file
      BY PumpedCallbacks
    <3> DEFINE s == outcomes[i].slot
    <3>2. s \in Slots /\ s \in freed /\ request[s].owner = r /\ request[s].allocated /\ ~request[s].abandoned
      BY <1>h, <1>c, <3>1, SdlHolds DEF ByCallback, Silent
    <3> HIDE DEF s
    <3>3. told[r] = 0 /\ r \notin over
      BY <3>2 DEF OwedOnce
    <3>4. Asked(r)
      <4>1. handle[r] = [slot |-> s, gen |-> gen[s]]
        BY <3>2 DEF HandlesAreNames
      <4> QED
        BY <3>2, <4>1, IoAssumption DEF Asked
    <3>5. \A q \in Slots : request'[q].allocated => request'[q].owner # r
      <4> SUFFICES ASSUME NEW q \in Slots, request'[q].allocated, request'[q].owner = r
                   PROVE  FALSE
        OBVIOUS
      <4>1. q \notin freed
        BY <2>1
      <4>2. request[q].allocated /\ request[q].owner = r
        BY <2>2, <4>1
      <4>3. q = s
        BY <3>2, <4>2, OneSlotEach
      <4> QED
        BY <3>2, <4>1, <4>3
    <3> QED
      BY <1>0, <3>3, <3>4, <3>5 DEF Asked
  <2>7. \A i, j \in Places : outcomes[i].file = outcomes[j].file => i = j
    <3> SUFFICES ASSUME NEW i \in Places, NEW j \in Places, outcomes[i].file = outcomes[j].file
                 PROVE  i = j
      OBVIOUS
    <3>1. outcomes[i].slot = outcomes[j].slot
      BY <1>h, SdlHolds, OneSlotEach
    <3> QED
      BY <3>1 DEF Inv, Hands, OneTaskPerSlot
  <2>8. \A n, k \in 1..Len(completed') : completed'[n].owner = completed'[k].owner => n = k
    BY <2>7, PumpedCallbacks
  <2>9. \A s \in Slots : request'[s].allocated =>
           /\ told'[request'[s].owner] = 0
           /\ ~request'[s].abandoned => request'[s].owner \notin over'
    <3>1. \A s \in Slots : request'[s].allocated => s \in Slots \ freed
      BY <2>1
    <3> QED
      BY <1>0, <2>2, <3>1 DEF OwedOnce
  <2>10. (\A r \in Requests : ~Asked(r)' => told'[r] = 0) /\ ToldOnce'
    BY <1>0 DEF OwedOnce, ToldOnce, Asked
  <2>11. OwedOnce'
    BY <2>6, <2>8, <2>9, <2>10 DEF OwedOnce, Asked
  <2> QED
    BY <2>3, <2>11
<1> QED
  BY <1>12, <1>13, <1>14, <1>15, <1>16, <1>17 DEF Inv

-----------------------------------------------------------------------------
(* The theorems. *)

LEMMA InitInv == Init => Inv
<1> SUFFICES ASSUME Init PROVE Inv
  OBVIOUS
<1> USE DEF Init
<1>1. TypeOK
  <2>1. NoHandle \in Handles
    BY DEF NoHandle, Handles
  <2>2. /\ outcomes \in Seq([slot : Slots, file : Requests, ok : BOOLEAN])
        /\ completed \in Seq([owner : Requests, file : Requests, ok : BOOLEAN])
    OBVIOUS
  <2>3. request \in [Slots -> RequestType] /\ handle \in [Requests -> Handles]
    BY <2>1, BlankType
  <2>4. gen \in [Slots -> Nat] /\ told \in [Requests -> Nat]
    OBVIOUS
  <2>5. emptyWaits \in 0..MaxEmptyWaits
    BY IoAssumption
  <2> QED
    BY <2>2, <2>3, <2>4, <2>5 DEF TypeOK
<1>2. SlotsAccounted /\ Shape
  BY DEF SlotsAccounted, Shape, BlankWhenFree, MarksAgree, NothingWhenDown, FrameAgrees, Blank
<1>3. Hands
  BY DEF Hands, OpeningAgrees, Opening, OneTaskPerSlot, Places, NoMisdelivery, Blank
<1>4. Budget
  BY FS_EmptySet DEF Budget, BudgetExact, InFlightHonest, DrainCounts
<1>5. \A r \in Requests : ~Asked(r)
  BY DEF Asked, NoHandle
<1>6. FirstLife
  BY <1>5 DEF FirstLife, HandlesAreNames, OwedOnce, ToldOnce, Blank
<1> QED
  BY <1>1, <1>2, <1>3, <1>4, <1>6 DEF Inv

LEMMA NextInv == Inv /\ [Next]_vars => Inv'
<1> SUFFICES ASSUME Inv, [Next]_vars PROVE Inv'
  OBVIOUS
<1>1. CASE Call
  BY <1>1, InitIoInv, ShutdownIoInv, ReadRefusedInv, TakeIoResultInv, CancelIoInv, ReadFileAsyncInv,
     SetIoPriorityInv DEF Call
<1>2. CASE Submitter
  BY <1>2, SubmitSleepInv, SubmitStopInv, SubmitPickInv, OpenIssuedInv, OpenFailedInv DEF Submitter
<1>3. CASE Sdl
  BY <1>3, ReadDoneInv DEF Sdl
<1>4. CASE Frame
  BY <1>4, PumpIoInv, PumpWakeInv, FireCallbackInv, CallbackReturnsInv DEF Frame
<1>5. CASE Stop
  BY <1>5, ShutdownWakeInv, ShutdownJoinInv, DrainCollectInv, DrainEmptyInv, ShutdownDoneInv DEF Stop
<1>6. CASE UNCHANGED vars
  <2> USE <1>6 DEF vars
  <2>1. TypeOK' /\ NothingWhenDown' /\ FrameAgrees'
    BY DEF Inv, Shape, TypeOK, NothingWhenDown, FrameAgrees
  <2>2. SlotsAccounted' /\ BlankWhenFree' /\ MarksAgree' /\ FirstLife'
    BY ServiceKept
  <2>3. Hands'
    BY HandsKept DEF Opening
  <2>4. Budget'
    BY FlyingKept, BudgetKept DEF Opening
  <2> QED
    BY <2>1, <2>2, <2>3, <2>4 DEF Inv, Shape
<1> QED
  BY <1>1, <1>2, <1>3, <1>4, <1>5, <1>6 DEF Next, Rest

\* The inductive invariant holds at every step of the service (async_io.cpp).
THEOREM InvHolds == Spec => []Inv
BY InitInv, NextInv, PTL DEF Spec

\* The table of requests is well formed and no slot of it is ever lost, for any
\* number of slots, requests and lives.
THEOREM SlotsExactHolds == Spec => []SlotsExact
<1>1. Inv => SlotsExact
  BY DEF Inv, SlotsExact
<1> QED
  BY <1>1, InvHolds, PTL

\* What the service counts in flight is what SDL holds, never above its bound,
\* and shutdownIo waits for as many outcomes as there are.
THEOREM BudgetExactHolds == Spec => []BudgetExact
<1>1. Inv => BudgetExact
  BY DEF Inv, Budget
<1> QED
  BY <1>1, InvHolds, PTL

\* No read is delivered to a request that did not ask for it.
THEOREM NoMisdeliveryHolds == Spec => []NoMisdelivery
<1>1. Inv => NoMisdelivery
  BY DEF Inv, Hands
<1> QED
  BY <1>1, InvHolds, PTL

\* While the service has been started once, every request gets its own file, by
\* its own handle, and its callback at most once, and never after a cancel.
THEOREM DeliveredRightHolds == Spec /\ [](life <= 1) => []DeliveredRight
<1>1. Inv /\ life <= 1 => DeliveredRight
  <2> SUFFICES ASSUME Inv, life <= 1 PROVE DeliveredRight
    OBVIOUS
  <2>1. HandlesAreNames /\ OwedOnce
    BY DEF Inv, FirstLife
  <2>2. NoMisdelivery /\ ToldOnce
    BY <2>1 DEF Inv, Hands, OwedOnce
  <2>3. HandleNamesOwn
    BY <2>1, HandleIsOwn DEF HandleNamesOwn
  <2> QED
    BY <2>2, <2>3 DEF DeliveredRight
<1> QED
  BY <1>1, InvHolds, PTL

-----------------------------------------------------------------------------
(* World: the walk to the root, the walk down, the chains of the name index,  *)
(* the announcements, and what each operation keeps of them.                 *)

HIDE IoAssumption DEF serviceVars, subVars, sdlVars, frameVars, historyVars

(* The walk to the root *)

Spots == Instances \cup {Nil}

Above(parent, x) ==
    LET up[y \in Instances \cup {Nil}] == IF y = Nil THEN {} ELSE {y} \cup up[parent[y]]
    IN up[x]

Climbs(parent, f) == f = [y \in Instances \cup {Nil} |-> IF y = Nil THEN {} ELSE {y} \cup f[parent[y]]]

\* No cycle.
Rooted(parent) == \A S \in SUBSET Instances : S # {} => \E x \in S : parent[x] \notin S

LEMMA NilIs == Nil \notin Instances
BY DEF Nil, Instances

LEMMA ChainIs == ASSUME NEW t, NEW x PROVE Chain(t, x) = Above(t.parent, x)
BY DEF Chain, Above

LEMMA ClimbExists == ASSUME NEW parent \in [Instances -> Spots] PROVE \E f : Climbs(parent, f)
<1> DEFINE Shut(S) == \A w \in S : parent[w] \in S \cup {Nil}
           C(y) == {z \in Instances : \A S \in SUBSET Instances : y \in S /\ Shut(S) => z \in S}
           g == [y \in Instances \cup {Nil} |-> IF y = Nil THEN {} ELSE C(y)]
<1>1. ASSUME NEW y \in Instances PROVE C(y) = {y} \cup g[parent[y]]
  <2>1. parent[y] \in Instances \cup {Nil}
    BY DEF Spots
  <2>2. CASE parent[y] = Nil
    <3>1. {y} \in SUBSET Instances /\ Shut({y})
      BY <2>2
    <3>2. \A z \in C(y) : z = y
      BY <3>1
    <3>3. y \in C(y)
      OBVIOUS
    <3>4. g[parent[y]] = {}
      BY <2>2
    <3> QED
      BY <3>2, <3>3, <3>4
  <2>3. CASE parent[y] # Nil
    <3> DEFINE q == parent[y]
    <3>1. q \in Instances /\ g[q] = C(q)
      BY <2>1, <2>3
    <3>2. ASSUME NEW z \in C(q) PROVE z \in C(y)
      <4> SUFFICES ASSUME NEW S \in SUBSET Instances, y \in S, Shut(S) PROVE z \in S
        OBVIOUS
      <4>1. q \in S
        BY <2>3
      <4> QED
        BY <3>2, <4>1
    <3>3. ASSUME NEW z \in C(y), z # y PROVE z \in C(q)
      <4> SUFFICES ASSUME NEW S \in SUBSET Instances, q \in S, Shut(S) PROVE z \in S
        OBVIOUS
      <4> DEFINE U == S \cup {y}
      <4>1. U \in SUBSET Instances /\ Shut(U) /\ y \in U
        OBVIOUS
      <4>2. z \in U
        BY <3>3, <4>1
      <4> QED
        BY <3>3, <4>2
    <3>4. y \in C(y)
      OBVIOUS
    <3> QED
      BY <3>1, <3>2, <3>3, <3>4
  <2> QED
    BY <2>2, <2>3
<1>2. g = [y \in Instances \cup {Nil} |-> IF y = Nil THEN {} ELSE {y} \cup g[parent[y]]]
  <2> HIDE DEF C
  <2>1. \A y \in Instances \cup {Nil} : g[y] = IF y = Nil THEN {} ELSE {y} \cup g[parent[y]]
    BY <1>1, NilIs
  <2>2. g = [y \in Instances \cup {Nil} |-> g[y]]
    OBVIOUS
  <2> HIDE DEF g
  <2> QED
    BY <2>1, <2>2
<1> HIDE DEF g
<1> QED
  BY <1>2 DEF Climbs

LEMMA AboveIs ==
    ASSUME NEW parent \in [Instances -> Spots]
    PROVE  /\ Above(parent, Nil) = {}
           /\ \A x \in Instances : Above(parent, x) = {x} \cup Above(parent, parent[x])
<1> DEFINE f == CHOOSE f : Climbs(parent, f)
<1>1. Climbs(parent, f)
  BY ClimbExists
<1>2. \A x : Above(parent, x) = f[x]
  BY DEF Above, Climbs
<1> HIDE DEF f
<1>3. \A y \in Instances \cup {Nil} : f[y] = IF y = Nil THEN {} ELSE {y} \cup f[parent[y]]
  <2> DEFINE g == [y \in Instances \cup {Nil} |-> IF y = Nil THEN {} ELSE {y} \cup f[parent[y]]]
  <2>1. f = g
    BY <1>1 DEF Climbs
  <2>2. \A y \in Instances \cup {Nil} : g[y] = IF y = Nil THEN {} ELSE {y} \cup f[parent[y]]
    OBVIOUS
  <2> HIDE DEF g
  <2> QED
    BY <2>1, <2>2
<1> QED
  BY <1>2, <1>3, NilIs

LEMMA AboveType ==
    ASSUME NEW parent \in [Instances -> Spots], Rooted(parent)
    PROVE  \A x \in Spots : Above(parent, x) \in SUBSET Instances
<1> DEFINE S == {x \in Instances : ~(Above(parent, x) \in SUBSET Instances)}
<1>1. S = {}
  <2> SUFFICES ASSUME S # {} PROVE FALSE
    OBVIOUS
  <2>1. PICK x \in S : parent[x] \notin S
    BY DEF Rooted
  <2>2. parent[x] \in Instances \cup {Nil}
    BY DEF Spots
  <2>3. Above(parent, parent[x]) \in SUBSET Instances
    BY <2>1, <2>2, AboveIs
  <2> QED
    BY <2>3, AboveIs
<1> QED
  BY <1>1, AboveIs DEF Spots

\* Who is above one that is above, is above.
LEMMA AboveAbove ==
    ASSUME NEW parent \in [Instances -> Spots], Rooted(parent), NEW x \in Spots, NEW y \in Above(parent, x)
    PROVE  Above(parent, y) \subseteq Above(parent, x)
<1> DEFINE S == {z \in Instances : y \in Above(parent, z) /\ ~(Above(parent, y) \subseteq Above(parent, z))}
<1>1. S = {}
  <2> SUFFICES ASSUME S # {} PROVE FALSE
    OBVIOUS
  <2>1. PICK z \in S : parent[z] \notin S
    BY DEF Rooted
  <2>2. parent[z] \in Instances \cup {Nil}
    BY DEF Spots
  <2>3. y # z
    BY <2>1
  <2>4. y \in Above(parent, parent[z])
    BY <2>1, <2>3, AboveIs
  <2>5. Above(parent, y) \subseteq Above(parent, parent[z])
    BY <2>1, <2>2, <2>4, AboveIs
  <2> QED
    BY <2>1, <2>5, AboveIs
<1>2. x # Nil
  BY AboveIs
<1> QED
  BY <1>1, <1>2 DEF Spots

\* Nobody is above itself.
LEMMA NotAboveItself ==
    ASSUME NEW parent \in [Instances -> Spots], Rooted(parent), NEW x \in Instances
    PROVE  x \notin Above(parent, parent[x])
<1> SUFFICES ASSUME x \in Above(parent, parent[x]) PROVE FALSE
  OBVIOUS
<1> DEFINE S == {z \in Above(parent, x) : x \in Above(parent, z)}
<1>1. x \in S /\ S \in SUBSET Instances
  BY AboveIs, AboveType DEF Spots
<1>2. ASSUME NEW z \in S PROVE parent[z] \in S
  <2>1. z \in Instances /\ parent[z] \in Spots
    BY <1>1, <1>2
  <2>2. x \in Above(parent, parent[z])
    BY <1>2, <2>1, AboveIs
  <2>3. parent[z] # Nil
    BY <2>2, AboveIs
  <2>4. parent[z] \in Above(parent, parent[z])
    BY <2>1, <2>3, AboveIs DEF Spots
  <2>5. parent[z] \in Above(parent, z)
    BY <2>1, <2>4, AboveIs
  <2>6. Above(parent, z) \subseteq Above(parent, x)
    BY <1>2, AboveAbove DEF Spots
  <2> QED
    BY <2>2, <2>5, <2>6
<1> HIDE DEF S
<1> QED
  BY <1>1, <1>2 DEF Rooted

LEMMA AboveOnce ==
    ASSUME NEW parent \in [Instances -> Spots], Rooted(parent), NEW x \in Instances, NEW y \in Instances,
           y \in Above(parent, x), x \in Above(parent, y)
    PROVE  x = y
<1> SUFFICES ASSUME x # y PROVE FALSE
  OBVIOUS
<1>1. y \in Above(parent, parent[x]) /\ parent[x] \in Spots
  BY AboveIs
<1>2. x \in Above(parent, parent[x])
  BY <1>1, AboveAbove
<1> QED
  BY <1>2, NotAboveItself

-----------------------------------------------------------------------------
(* One is put somewhere else *)

Under(parent, x) == {d \in Instances : x \in Above(parent, d)}

LEMMA MovedRooted ==
    ASSUME NEW parent \in [Instances -> Spots], Rooted(parent), NEW x \in Instances, NEW p \in Spots,
           x \notin Above(parent, p)
    PROVE  LET moved == [parent EXCEPT ![x] = p] IN moved \in [Instances -> Spots] /\ Rooted(moved)
<1> DEFINE moved == [parent EXCEPT ![x] = p]
<1>1. moved \in [Instances -> Spots] /\ moved[x] = p /\ \A y \in Instances : y # x => moved[y] = parent[y]
  OBVIOUS
<1> HIDE DEF moved
<1>2. ASSUME NEW S \in SUBSET Instances, S # {}, \A y \in S : moved[y] \in S PROVE FALSE
  <2>1. CASE x \notin S
    <3>1. \A y \in S : parent[y] \in S
      BY <1>1, <1>2, <2>1
    <3> QED
      BY <1>2, <3>1 DEF Rooted
  <2>2. CASE x \in S
    <3> DEFINE U == S \cap Above(parent, p)
    <3>1. p \in S /\ p \in Instances
      BY <1>1, <1>2, <2>2
    <3>2. p \in U
      BY <3>1, AboveIs
    <3>3. ASSUME NEW y \in U PROVE parent[y] \in U
      <4>1. y # x /\ y \in Instances /\ parent[y] = moved[y] /\ parent[y] \in S
        BY <1>1, <1>2, <3>3
      <4>2. parent[y] \in Above(parent, y)
        BY <4>1, AboveIs
      <4>3. Above(parent, y) \subseteq Above(parent, p)
        BY <3>3, AboveAbove
      <4> QED
        BY <4>1, <4>2, <4>3
    <3> HIDE DEF U
    <3>4. U \in SUBSET Instances
      BY DEF U
    <3> QED
      BY <3>2, <3>3, <3>4 DEF Rooted
  <2> QED
    BY <2>1, <2>2
<1>3. Rooted(moved)
  BY <1>2 DEF Rooted
<1> QED
  BY <1>1, <1>3 DEF moved

Moves(parent, x, p, moved) ==
    /\ parent \in [Instances -> Spots] /\ Rooted(parent) /\ x \in Instances /\ p \in Spots
    /\ x \notin Above(parent, p) /\ moved = [parent EXCEPT ![x] = p]

\* Who is above whom, then.
MovedTo(parent, x, p, moved) ==
    /\ Above(moved, Nil) = {}
    /\ \A d \in Instances : x \notin Above(parent, d) => Above(moved, d) = Above(parent, d)
    /\ \A d \in Under(parent, x) :
           Above(moved, d) = (Above(parent, d) \cap Under(parent, x)) \cup Above(parent, p)

LEMMA MovedAbove ==
    ASSUME NEW parent, NEW x, NEW p, NEW moved, Moves(parent, x, p, moved)
    PROVE  MovedTo(parent, x, p, moved)
<1>0. /\ parent \in [Instances -> Spots] /\ Rooted(parent) /\ x \in Instances /\ p \in Spots
      /\ x \notin Above(parent, p) /\ moved = [parent EXCEPT ![x] = p]
  BY DEF Moves
<1> USE <1>0
<1>1. moved \in [Instances -> Spots] /\ moved[x] = p /\ \A y \in Instances : y # x => moved[y] = parent[y]
  OBVIOUS
<1>2. Rooted(moved)
  BY MovedRooted
<1> DEFINE Same == {d \in Instances : x \notin Above(parent, d) /\ Above(moved, d) # Above(parent, d)}
           Set(d) == (Above(parent, d) \cap Under(parent, x)) \cup Above(parent, p)
           Odd == {d \in Under(parent, x) : Above(moved, d) # Set(d)}
<1>3. Same = {}
  <2> SUFFICES ASSUME Same # {} PROVE FALSE
    OBVIOUS
  <2>1. PICK d \in Same : parent[d] \notin Same
    BY DEF Rooted
  <2>2. d # x
    BY <2>1, AboveIs
  <2>3. x \notin Above(parent, parent[d]) /\ parent[d] \in Instances \cup {Nil} /\ moved[d] = parent[d]
    BY <1>1, <2>1, <2>2, AboveIs DEF Spots
  <2>4. Above(moved, parent[d]) = Above(parent, parent[d])
    BY <1>1, <2>1, <2>3, AboveIs
  <2>5. Above(moved, d) = {d} \cup Above(moved, moved[d])
    BY <1>1, AboveIs
  <2>6. Above(parent, d) = {d} \cup Above(parent, parent[d])
    BY AboveIs
  <2> QED
    BY <2>1, <2>3, <2>4, <2>5, <2>6
<1>4. Above(moved, p) = Above(parent, p)
  BY <1>1, <1>3, AboveIs DEF Spots
<1>5. Odd = {}
  <2> SUFFICES ASSUME Odd # {} PROVE FALSE
    OBVIOUS
  <2>1. PICK d \in Odd : parent[d] \notin Odd
    BY DEF Rooted, Under
  <2>2. d \in Instances /\ x \in Above(parent, d)
    BY <2>1 DEF Under
  <2>3. CASE d = x
    <3>1. Above(moved, x) = {x} \cup Above(parent, p)
      BY <1>1, <1>4, AboveIs
    <3>2. ASSUME NEW z \in Above(parent, x), z \in Under(parent, x) PROVE z = x
      BY <3>2, AboveOnce DEF Under
    <3>3. x \in Above(parent, x) /\ x \in Under(parent, x)
      BY AboveIs DEF Under
    <3>4. Above(parent, x) \cap Under(parent, x) = {x}
      BY <3>2, <3>3
    <3> QED
      BY <2>1, <2>3, <3>1, <3>4
  <2>4. CASE d # x
    <3>1. x \in Above(parent, parent[d])
      BY <2>2, <2>4, AboveIs
    <3>2. parent[d] \in Under(parent, x)
      BY <3>1, <2>2, AboveIs DEF Under, Spots
    <3>3. Above(moved, parent[d]) = Set(parent[d])
      BY <2>1, <3>2
    <3>4. Above(moved, d) = {d} \cup Set(parent[d])
      BY <1>1, <2>2, <2>4, <3>3, AboveIs
    <3>5. Above(parent, d) = {d} \cup Above(parent, parent[d]) /\ d \in Under(parent, x)
      BY <2>2, AboveIs DEF Under
    <3>6. Set(d) = {d} \cup Set(parent[d])
      BY <3>5
    <3> QED
      BY <2>1, <3>4, <3>6
  <2> QED
    BY <2>3, <2>4
<1>6. Above(moved, Nil) = {}
  BY <1>1, AboveIs
<1> QED
  BY <1>3, <1>5, <1>6 DEF MovedTo

-----------------------------------------------------------------------------
(* The walk down *)

Below(kids, x) ==
    LET below[y \in Instances] ==
            <<y>> \o Joined([i \in DOMAIN kids[y] |-> below[kids[y][i]]])
    IN below[x]

BelowOf(kids, f, y) == <<y>> \o Joined([i \in DOMAIN kids[y] |-> f[kids[y][i]]])

\* Each is in the list of its parent, and there only, and once.
Matched(kids, parent) ==
    /\ \A p \in Instances : \A i \in 1..Len(kids[p]) : parent[kids[p][i]] = p
    /\ \A p \in Instances : \A i, j \in 1..Len(kids[p]) : kids[p][i] = kids[p][j] => i = j
    /\ \A x \in Instances : parent[x] # Nil => \E i \in 1..Len(kids[parent[x]]) : kids[parent[x]][i] = x

LEMMA SubtreeIs == ASSUME NEW t, NEW x PROVE Subtree(t, x) = Below(t.kids, x)
BY DEF Subtree, Below

LEMMA SomeInstances == IsFiniteSet(Instances) /\ Cardinality(Instances) \in Nat
BY WorldAssumption, FS_Interval, FS_CardinalityType DEF Instances

\* How many are under one, itself among them, and that it is more than are
\* under its child.
LEMMA UnderSize ==
    ASSUME NEW parent \in [Instances -> Spots], Rooted(parent)
    PROVE  /\ \A y \in Instances : Cardinality(Under(parent, y)) \in Nat
           /\ \A y \in Instances : Cardinality(Under(parent, y)) >= 1
           /\ \A y \in Instances : Cardinality(Under(parent, y)) <= Cardinality(Instances)
           /\ \A y \in Instances : parent[y] # Nil =>
                Cardinality(Under(parent, y)) < Cardinality(Under(parent, parent[y]))
<1>1. ASSUME NEW y \in Instances
      PROVE  /\ Cardinality(Under(parent, y)) \in Nat /\ IsFiniteSet(Under(parent, y))
             /\ Cardinality(Under(parent, y)) <= Cardinality(Instances)
             /\ Cardinality(Under(parent, y)) >= 1
             /\ y \in Under(parent, y)
  <2>1. Under(parent, y) \subseteq Instances
    BY DEF Under
  <2>2. y \in Under(parent, y)
    BY AboveIs DEF Under
  <2>3. IsFiniteSet(Under(parent, y)) /\ Cardinality(Under(parent, y)) <= Cardinality(Instances)
    BY <2>1, SomeInstances, FS_Subset
  <2>4. Cardinality(Under(parent, y)) \in Nat
    BY <2>3, FS_CardinalityType
  <2>5. Cardinality(Under(parent, y)) # 0
    BY <2>2, <2>3, FS_EmptySet
  <2> QED
    BY <2>2, <2>3, <2>4, <2>5
<1>2. ASSUME NEW y \in Instances, parent[y] # Nil
      PROVE  Cardinality(Under(parent, y)) < Cardinality(Under(parent, parent[y]))
  <2>1. parent[y] \in Instances
    BY <1>2 DEF Spots
  <2>2. ASSUME NEW d \in Under(parent, y) PROVE d \in Under(parent, parent[y])
    <3>1. d \in Instances /\ y \in Above(parent, d)
      BY <2>2 DEF Under
    <3>2. Above(parent, y) \subseteq Above(parent, d)
      BY <3>1, AboveAbove DEF Spots
    <3>3. parent[y] \in Above(parent, y)
      BY <2>1, AboveIs
    <3> QED
      BY <3>1, <3>2, <3>3 DEF Under
  <2>3. parent[y] \notin Under(parent, y)
    BY NotAboveItself DEF Under
  <2>4. Under(parent, y) # Under(parent, parent[y])
    BY <1>1, <2>1, <2>3
  <2> QED
    BY <1>1, <2>1, <2>2, <2>4, FS_Subset
<1> QED
  BY <1>1, <1>2

\* What holds of one whose children it holds of holds of everyone.
LEMMA AllBelow ==
    ASSUME NEW parent \in [Instances -> Spots], Rooted(parent),
           NEW kids \in [Instances -> Seq(Instances)], Matched(kids, parent), NEW Q,
           \A y \in Instances : (\A i \in 1..Len(kids[y]) : kids[y][i] \in Q) => y \in Q
    PROVE  \A y \in Instances : y \in Q
<1> DEFINE N == {n \in Nat : \A y \in Instances : Cardinality(Under(parent, y)) <= n => y \in Q}
<1>1. 0 \in N
  <2>1. \A y \in Instances : ~(Cardinality(Under(parent, y)) <= 0)
    BY UnderSize
  <2> QED
    BY <2>1
<1>2. ASSUME NEW n \in Nat, n \in N PROVE n + 1 \in N
  <2> SUFFICES ASSUME NEW y \in Instances, Cardinality(Under(parent, y)) <= n + 1 PROVE y \in Q
    OBVIOUS
  <2>1. ASSUME NEW i \in 1..Len(kids[y]) PROVE kids[y][i] \in Q
    <3>1. kids[y][i] \in Instances /\ parent[kids[y][i]] = y
      BY DEF Matched
    <3>2. parent[kids[y][i]] # Nil
      BY <3>1, NilIs
    <3>3. Cardinality(Under(parent, kids[y][i])) < Cardinality(Under(parent, y))
      BY <3>1, <3>2, UnderSize
    <3>4. Cardinality(Under(parent, kids[y][i])) \in Nat /\ Cardinality(Under(parent, y)) \in Nat
      BY <3>1, UnderSize
    <3>5. Cardinality(Under(parent, kids[y][i])) <= n
      BY <2>1, <3>3, <3>4
    <3> QED
      BY <1>2, <3>1, <3>5
  <2> QED
    BY <2>1
<1> HIDE DEF N
<1>3. \A n \in Nat : n \in N
  BY <1>1, <1>2, AllNumbers
<1>4. Cardinality(Instances) \in N
  BY <1>3, SomeInstances
<1> QED
  BY <1>4, UnderSize DEF N

LEMMA BelowExists ==
    ASSUME NEW parent \in [Instances -> Spots], Rooted(parent),
           NEW kids \in [Instances -> Seq(Instances)], Matched(kids, parent)
    PROVE  \E f : f = [y \in Instances |-> BelowOf(kids, f, y)]
<1> DEFINE m(y) == Cardinality(Under(parent, y))
           N == {n \in Nat : \E f : \A y \in Instances : m(y) <= n => f[y] = BelowOf(kids, f, y)}
<1>1. 0 \in N
  <2>1. \A y \in Instances : ~(m(y) <= 0)
    BY UnderSize
  <2> QED
    BY <2>1
<1>2. ASSUME NEW n \in Nat, n \in N PROVE n + 1 \in N
  <2>1. PICK f : \A y \in Instances : m(y) <= n => f[y] = BelowOf(kids, f, y)
    BY <1>2
  <2> DEFINE g == [y \in Instances |-> BelowOf(kids, f, y)]
  <2>2. \A y \in Instances : g[y] = BelowOf(kids, f, y)
    OBVIOUS
  <2> HIDE DEF g
  <2>3. ASSUME NEW y \in Instances, m(y) <= n + 1 PROVE g[y] = BelowOf(kids, g, y)
    <3>1. ASSUME NEW i \in DOMAIN kids[y] PROVE f[kids[y][i]] = g[kids[y][i]]
      <4>1. kids[y][i] \in Instances /\ parent[kids[y][i]] = y
        BY DEF Matched
      <4>2. parent[kids[y][i]] # Nil
        BY <4>1, NilIs
      <4>3. m(kids[y][i]) < m(y)
        BY <4>1, <4>2, UnderSize
      <4>4. m(kids[y][i]) \in Nat /\ m(y) \in Nat
        BY <4>1, UnderSize
      <4>5. m(kids[y][i]) <= n
        BY <2>3, <4>3, <4>4
      <4> QED
        BY <2>1, <2>2, <4>1, <4>5
    <3>2. [i \in DOMAIN kids[y] |-> f[kids[y][i]]] = [i \in DOMAIN kids[y] |-> g[kids[y][i]]]
      BY <3>1
    <3> QED
      BY <2>2, <3>2 DEF BelowOf
  <2> QED
    BY <2>3
<1> HIDE DEF N
<1>3. \A n \in Nat : n \in N
  BY <1>1, <1>2, AllNumbers
<1>4. PICK f : \A y \in Instances : m(y) <= Cardinality(Instances) => f[y] = BelowOf(kids, f, y)
  BY <1>3, SomeInstances DEF N
<1>5. \A y \in Instances : f[y] = BelowOf(kids, f, y)
  BY <1>4, UnderSize
<1> DEFINE g == [y \in Instances |-> f[y]]
<1>6. \A y \in Instances : g[y] = f[y]
  OBVIOUS
<1>7. g = [y \in Instances |-> g[y]]
  OBVIOUS
<1> HIDE DEF g
<1>8. ASSUME NEW y \in Instances PROVE BelowOf(kids, f, y) = BelowOf(kids, g, y)
  <2>1. \A i \in DOMAIN kids[y] : f[kids[y][i]] = g[kids[y][i]]
    BY <1>6
  <2>2. [i \in DOMAIN kids[y] |-> f[kids[y][i]]] = [i \in DOMAIN kids[y] |-> g[kids[y][i]]]
    BY <2>1
  <2> QED
    BY <2>2 DEF BelowOf
<1>9. \A y \in Instances : g[y] = BelowOf(kids, g, y)
  BY <1>5, <1>6, <1>8
<1> QED
  BY <1>7, <1>9

LEMMA BelowIs ==
    ASSUME NEW parent \in [Instances -> Spots], Rooted(parent),
           NEW kids \in [Instances -> Seq(Instances)], Matched(kids, parent), NEW y \in Instances
    PROVE  Below(kids, y) = <<y>> \o Joined([i \in DOMAIN kids[y] |-> Below(kids, kids[y][i])])
<1> DEFINE f == CHOOSE f : f = [z \in Instances |-> BelowOf(kids, f, z)]
<1>1. f = [z \in Instances |-> BelowOf(kids, f, z)]
  BY BelowExists
<1>2. \A z : Below(kids, z) = f[z]
  BY DEF Below, BelowOf
<1> HIDE DEF f
<1>3. f[y] = BelowOf(kids, f, y)
  <2> DEFINE g == [z \in Instances |-> BelowOf(kids, f, z)]
  <2>1. g[y] = BelowOf(kids, f, y)
    OBVIOUS
  <2>2. f = g
    BY <1>1
  <2> HIDE DEF g
  <2> QED
    BY <2>1, <2>2
<1>4. [i \in DOMAIN kids[y] |-> f[kids[y][i]]] = [i \in DOMAIN kids[y] |-> Below(kids, kids[y][i])]
  BY <1>2
<1> QED
  BY <1>2, <1>3, <1>4 DEF BelowOf

LEMMA ListOf ==
    ASSUME NEW S, NEW n \in Nat, NEW q \in [1..n -> S]
    PROVE  q \in Seq(S) /\ Len(q) = n
OBVIOUS

LEMMA BelowType ==
    ASSUME NEW parent \in [Instances -> Spots], Rooted(parent),
           NEW kids \in [Instances -> Seq(Instances)], Matched(kids, parent)
    PROVE  \A y \in Instances : Below(kids, y) \in Seq(Instances)
<1> DEFINE Q == {y \in Instances : Below(kids, y) \in Seq(Instances)}
<1>1. ASSUME NEW y \in Instances, \A i \in 1..Len(kids[y]) : kids[y][i] \in Q PROVE y \in Q
  <2> DEFINE q == [i \in DOMAIN kids[y] |-> Below(kids, kids[y][i])]
  <2>1. q \in Seq(Seq(Instances))
    <3>1. DOMAIN kids[y] = 1..Len(kids[y]) /\ Len(kids[y]) \in Nat
      OBVIOUS
    <3>2. \A i \in DOMAIN kids[y] : Below(kids, kids[y][i]) \in Seq(Instances)
      BY <1>1, <3>1
    <3>3. q \in [1..Len(kids[y]) -> Seq(Instances)]
      BY <3>1, <3>2
    <3> HIDE DEF q
    <3> QED
      BY <3>1, <3>3, ListOf
  <2> HIDE DEF q
  <2>2. Joined(q) \in Seq(Instances)
    BY <2>1, JoinedType
  <2>3. Below(kids, y) = <<y>> \o Joined(q)
    BY BelowIs DEF q
  <2>4. \A j \in Seq(Instances) : <<y>> \o j \in Seq(Instances)
    OBVIOUS
  <2> QED
    BY <2>2, <2>3, <2>4
<1> HIDE DEF Q
<1>2. \A y \in Instances : y \in Q
  BY <1>1, AllBelow
<1> QED
  BY <1>2 DEF Q

\* Who is under one is it, or under one of its children, and not under two.
LEMMA UnderIs ==
    ASSUME NEW parent \in [Instances -> Spots], Rooted(parent),
           NEW kids \in [Instances -> Seq(Instances)], Matched(kids, parent), NEW y \in Instances
    PROVE  /\ y \in Under(parent, y)
           /\ \A i \in 1..Len(kids[y]) :
                  y \notin Under(parent, kids[y][i]) /\ Under(parent, kids[y][i]) \subseteq Under(parent, y)
           /\ \A d \in Under(parent, y) : d # y => \E i \in 1..Len(kids[y]) : d \in Under(parent, kids[y][i])
<1>1. y \in Under(parent, y)
  BY AboveIs DEF Under
<1>2. ASSUME NEW i \in 1..Len(kids[y])
      PROVE y \notin Under(parent, kids[y][i]) /\ Under(parent, kids[y][i]) \subseteq Under(parent, y)
  <2> DEFINE k == kids[y][i]
  <2>1. k \in Instances /\ parent[k] = y
    BY DEF Matched
  <2>2. y \notin Under(parent, k)
    BY <2>1, NotAboveItself DEF Under
  <2>3. y \in Above(parent, k)
    BY <2>1, AboveIs
  <2>4. ASSUME NEW d \in Under(parent, k) PROVE d \in Under(parent, y)
    <3>1. d \in Instances /\ k \in Above(parent, d)
      BY <2>4 DEF Under
    <3>2. Above(parent, k) \subseteq Above(parent, d)
      BY <3>1, AboveAbove DEF Spots
    <3> QED
      BY <2>3, <3>1, <3>2 DEF Under
  <2> QED
    BY <2>2, <2>4
<1>3. ASSUME NEW d \in Under(parent, y), d # y
      PROVE  \E i \in 1..Len(kids[y]) : d \in Under(parent, kids[y][i])
  <2>0. \A w \in Instances : w \in Above(parent, w) /\ Above(parent, w) = {w} \cup Above(parent, parent[w])
    BY AboveIs
  <2> DEFINE S == {z \in Under(parent, y) : z # y /\ \A i \in 1..Len(kids[y]) : kids[y][i] \notin Above(parent, z)}
  <2>1. S = {}
    <3> SUFFICES ASSUME S # {} PROVE FALSE
      OBVIOUS
    <3>1. S \in SUBSET Instances
      BY DEF Under
    <3>2. PICK z \in S : parent[z] \notin S
      BY <3>1 DEF Rooted
    <3>3. z \in Instances /\ y \in Above(parent, z) /\ z # y
      BY <3>2 DEF Under
    <3>4. y \in Above(parent, parent[z])
      <4>1. Above(parent, z) = {z} \cup Above(parent, parent[z])
        BY <2>0, <3>3
      <4> QED
        BY <3>3, <4>1
    <3>5. parent[z] \in Instances
      <4>1. Above(parent, Nil) = {}
        BY AboveIs
      <4>2. parent[z] # Nil
        BY <3>4, <4>1
      <4> QED
        BY <3>3, <4>2 DEF Spots
    <3>6. parent[z] \in Under(parent, y)
      BY <3>4, <3>5 DEF Under
    <3>7. CASE parent[z] = y
      <4>1. PICK i \in 1..Len(kids[y]) : kids[y][i] = z
        BY <3>3, <3>7, NilIs DEF Matched
      <4>2. z \in Above(parent, z)
        BY <2>0, <3>3
      <4> QED
        BY <3>2, <4>1, <4>2
    <3>8. CASE parent[z] # y
      <4>1. PICK i \in 1..Len(kids[y]) : kids[y][i] \in Above(parent, parent[z])
        BY <3>2, <3>6, <3>8
      <4>2. kids[y][i] \in Above(parent, z)
        BY <2>0, <3>3, <4>1
      <4> QED
        BY <3>2, <4>2
    <3> QED
      BY <3>7, <3>8
  <2>2. PICK i \in 1..Len(kids[y]) : kids[y][i] \in Above(parent, d)
    BY <1>3, <2>1
  <2>3. d \in Instances
    BY DEF Under
  <2> QED
    BY <2>2, <2>3 DEF Under
<1> QED
  BY <1>1, <1>2, <1>3

\* The walk lists who is under the instance; it comes first, and only then.
Walk(b, parent, y) ==
    /\ Len(b) >= 1 /\ b[1] = y /\ \A n \in 2..Len(b) : b[n] # y
    /\ \A n \in 1..Len(b) : b[n] \in Under(parent, y)
    /\ \A d \in Under(parent, y) : \E n \in 1..Len(b) : b[n] = d

LEMMA BelowMembers ==
    ASSUME NEW parent \in [Instances -> Spots], Rooted(parent),
           NEW kids \in [Instances -> Seq(Instances)], Matched(kids, parent), NEW y \in Instances
    PROVE  Walk(Below(kids, y), parent, y)
<1> DEFINE Lists(b, z) == /\ \A n \in 1..Len(b) : b[n] \in Under(parent, z)
                          /\ \A d \in Under(parent, z) : \E n \in 1..Len(b) : b[n] = d
           Q == {z \in Instances : Lists(Below(kids, z), z)}
<1>1. ASSUME NEW z \in Instances, \A i \in 1..Len(kids[z]) : kids[z][i] \in Q
      PROVE  /\ z \in Q
             /\ Len(Below(kids, z)) >= 1 /\ Below(kids, z)[1] = z
             /\ \A n \in 2..Len(Below(kids, z)) : Below(kids, z)[n] # z
  <2> DEFINE q == [i \in DOMAIN kids[z] |-> Below(kids, kids[z][i])]
             j == Joined(q)
             b == Below(kids, z)
  <2>1. q \in Seq(Seq(Instances)) /\ Len(q) = Len(kids[z])
        /\ \A i \in 1..Len(kids[z]) : q[i] = Below(kids, kids[z][i])
    <3>1. DOMAIN kids[z] = 1..Len(kids[z]) /\ Len(kids[z]) \in Nat
      OBVIOUS
    <3>2. \A i \in DOMAIN kids[z] : Below(kids, kids[z][i]) \in Seq(Instances)
      <4>1. \A i \in DOMAIN kids[z] : kids[z][i] \in Instances
        BY <3>1
      <4> QED
        BY <4>1, BelowType
    <3>3. q \in [1..Len(kids[z]) -> Seq(Instances)]
      BY <3>1, <3>2
    <3>4. \A i \in 1..Len(kids[z]) : q[i] = Below(kids, kids[z][i])
      BY <3>1
    <3> HIDE DEF q
    <3> QED
      BY <3>1, <3>3, <3>4, ListOf
  <2>2. b = <<z>> \o Joined(q)
    BY BelowIs
  <2>3. \A i \in 1..Len(kids[z]) : Lists(q[i], kids[z][i])
    BY <1>1, <2>1
  <2> HIDE DEF q, b, Q, Lists
  <2>4. j \in Seq(Instances)
    BY <2>1, JoinedType
  <2>5. \A n \in 1..Len(j) : \E i \in 1..Len(q) : \E k \in 1..Len(q[i]) : j[n] = q[i][k]
    BY <2>1, JoinedFrom
  <2>6. \A i \in 1..Len(q) : \A k \in 1..Len(q[i]) : \E n \in 1..Len(j) : j[n] = q[i][k]
    BY <2>1, JoinedMembers
  <2> HIDE DEF j
  <2>7. /\ Len(b) = Len(j) + 1 /\ Len(j) \in Nat /\ b[1] = z
        /\ \A n \in 1..Len(j) : b[n + 1] = j[n]
        /\ \A n \in 2..Len(b) : n - 1 \in 1..Len(j) /\ b[n] = j[n - 1]
    <3>1. b = <<z>> \o j
      BY <2>2 DEF j
    <3> QED
      BY <2>4, <3>1
  <2>8. \A n \in 1..Len(j) : j[n] \in Under(parent, z) /\ j[n] # z
    <3> SUFFICES ASSUME NEW n \in 1..Len(j) PROVE j[n] \in Under(parent, z) /\ j[n] # z
      OBVIOUS
    <3>1. PICK i \in 1..Len(q) : \E k \in 1..Len(q[i]) : j[n] = q[i][k]
      BY <2>5
    <3>2. i \in 1..Len(kids[z])
      BY <2>1
    <3>3. j[n] \in Under(parent, kids[z][i])
      BY <2>3, <3>1, <3>2 DEF Lists
    <3>4. z \notin Under(parent, kids[z][i]) /\ Under(parent, kids[z][i]) \subseteq Under(parent, z)
      BY <3>2, UnderIs
    <3> QED
      BY <3>3, <3>4
  <2>9. ASSUME NEW d \in Under(parent, z), d # z PROVE \E n \in 1..Len(j) : j[n] = d
    <3>1. PICK i \in 1..Len(kids[z]) : d \in Under(parent, kids[z][i])
      BY <2>9, UnderIs
    <3>2. PICK k \in 1..Len(q[i]) : q[i][k] = d
      BY <2>3, <3>1 DEF Lists
    <3> QED
      BY <2>1, <2>6, <3>2
  <2>10. \A n \in 2..Len(b) : b[n] # z /\ b[n] \in Under(parent, z)
    BY <2>7, <2>8
  <2>11. z \in Under(parent, z)
    BY UnderIs
  <2>12. Lists(b, z)
    <3>1. ASSUME NEW n \in 1..Len(b) PROVE b[n] \in Under(parent, z)
      <4>1. CASE n = 1
        BY <4>1, <2>7, <2>11
      <4>2. CASE n # 1
        <5>1. n \in 2..Len(b)
          BY <4>2, <2>7
        <5> QED
          BY <5>1, <2>10
      <4> QED
        BY <4>1, <4>2
    <3>2. ASSUME NEW d \in Under(parent, z) PROVE \E n \in 1..Len(b) : b[n] = d
      <4>1. CASE d = z
        BY <4>1, <2>7
      <4>2. CASE d # z
        <5>1. PICK n \in 1..Len(j) : j[n] = d
          BY <4>2, <2>9
        <5>2. n + 1 \in 1..Len(b) /\ b[n + 1] = d
          BY <5>1, <2>7
        <5> QED
          BY <5>2
      <4> QED
        BY <4>1, <4>2
    <3> QED
      BY <3>1, <3>2 DEF Lists
  <2>13. z \in Q
    BY <2>12 DEF Q, b
  <2>14. Len(b) >= 1 /\ b[1] = z /\ \A n \in 2..Len(b) : b[n] # z
    BY <2>7, <2>10
  <2> QED
    BY <2>13, <2>14 DEF b
<1> HIDE DEF Q
<1>2. \A z \in Instances : z \in Q
  BY <1>1, AllBelow
<1>3. \A i \in 1..Len(kids[y]) : kids[y][i] \in Q
  BY <1>2
<1>4. Lists(Below(kids, y), y)
  BY <1>2 DEF Q
<1>5. Len(Below(kids, y)) >= 1 /\ Below(kids, y)[1] = y /\ \A n \in 2..Len(Below(kids, y)) : Below(kids, y)[n] # y
  BY <1>1, <1>3
<1> QED
  BY <1>4, <1>5 DEF Walk

-----------------------------------------------------------------------------
(* The chains of the name index *)

Follow(next, h) ==
    LET from[y \in Instances \cup {Nil}] == IF y = Nil THEN <<>> ELSE <<y>> \o from[next[y]]
    IN from[h]

FollowOf(next, f, y) == IF y = Nil THEN <<>> ELSE <<y>> \o f[next[y]]

LEMMA SameNameIs == ASSUME NEW t, NEW h PROVE SameName(t, h) = Follow(t.next, h)
BY DEF SameName, Follow

LEMMA AboveSize ==
    ASSUME NEW next \in [Instances -> Spots], Rooted(next)
    PROVE  /\ \A y \in Spots : Cardinality(Above(next, y)) \in Nat
           /\ \A y \in Spots : Cardinality(Above(next, y)) <= Cardinality(Instances)
           /\ Cardinality(Above(next, Nil)) = 0
           /\ \A y \in Instances : Cardinality(Above(next, y)) = Cardinality(Above(next, next[y])) + 1
<1>1. \A y \in Spots : IsFiniteSet(Above(next, y))
      /\ Cardinality(Above(next, y)) <= Cardinality(Instances) /\ Cardinality(Above(next, y)) \in Nat
  BY AboveType, SomeInstances, FS_Subset, FS_CardinalityType
<1>2. Cardinality(Above(next, Nil)) = 0
  BY AboveIs, FS_EmptySet
<1>3. ASSUME NEW y \in Instances PROVE Cardinality(Above(next, y)) = Cardinality(Above(next, next[y])) + 1
  <2>1. Above(next, y) = Above(next, next[y]) \cup {y}
    BY AboveIs
  <2>2. y \notin Above(next, next[y])
    BY NotAboveItself
  <2>3. IsFiniteSet(Above(next, next[y]))
    BY <1>1
  <2> QED
    BY <2>1, <2>2, <2>3, FS_AddElement
<1> QED
  BY <1>1, <1>2, <1>3

LEMMA FollowExists ==
    ASSUME NEW next \in [Instances -> Spots], Rooted(next)
    PROVE  \E f : f = [y \in Instances \cup {Nil} |-> FollowOf(next, f, y)]
<1> DEFINE m(y) == Cardinality(Above(next, y))
           N == {n \in Nat : \E f : \A y \in Spots : m(y) <= n => f[y] = FollowOf(next, f, y)}
<1>1. 0 \in N
  <2> DEFINE f == [y \in Spots |-> <<>>]
  <2>1. ASSUME NEW y \in Spots, m(y) <= 0 PROVE y = Nil
    <3> SUFFICES ASSUME y # Nil PROVE FALSE
      OBVIOUS
    <3>1. y \in Instances /\ next[y] \in Spots
      BY DEF Spots
    <3>2. m(y) = m(next[y]) + 1 /\ m(next[y]) \in Nat
      BY <3>1, AboveSize
    <3> QED
      BY <2>1, <3>2
  <2>2. Nil \in Spots
    BY DEF Spots
  <2>3. f[Nil] = <<>>
    BY <2>2
  <2> HIDE DEF f, m
  <2>4. \A y \in Spots : m(y) <= 0 => f[y] = FollowOf(next, f, y)
    BY <2>1, <2>3 DEF FollowOf
  <2> QED
    BY <2>4
<1>2. ASSUME NEW n \in Nat, n \in N PROVE n + 1 \in N
  <2>1. PICK f : \A y \in Spots : m(y) <= n => f[y] = FollowOf(next, f, y)
    BY <1>2
  <2> DEFINE g == [y \in Spots |-> FollowOf(next, f, y)]
  <2>2. \A y \in Spots : g[y] = FollowOf(next, f, y)
    OBVIOUS
  <2> HIDE DEF g
  <2>3. ASSUME NEW y \in Spots, m(y) <= n + 1 PROVE g[y] = FollowOf(next, g, y)
    <3>1. CASE y = Nil
      BY <2>2, <3>1 DEF FollowOf
    <3>2. CASE y # Nil
      <4>1. y \in Instances /\ next[y] \in Spots
        BY <3>2 DEF Spots
      <4>2. m(y) = m(next[y]) + 1 /\ m(next[y]) \in Nat
        BY <4>1, AboveSize
      <4>3. m(next[y]) <= n
        BY <2>3, <4>2
      <4>4. f[next[y]] = g[next[y]]
        BY <2>1, <2>2, <4>1, <4>3
      <4> QED
        BY <2>2, <4>4 DEF FollowOf
    <3> QED
      BY <3>1, <3>2
  <2> QED
    BY <2>3
<1> HIDE DEF N
<1>3. \A n \in Nat : n \in N
  BY <1>1, <1>2, AllNumbers
<1>4. PICK f : \A y \in Spots : m(y) <= Cardinality(Instances) => f[y] = FollowOf(next, f, y)
  BY <1>3, SomeInstances DEF N
<1>5. \A y \in Spots : f[y] = FollowOf(next, f, y)
  BY <1>4, AboveSize
<1> DEFINE g == [y \in Instances \cup {Nil} |-> f[y]]
<1>6. \A y \in Spots : g[y] = f[y]
  BY DEF Spots
<1>7. g = [y \in Instances \cup {Nil} |-> g[y]]
  OBVIOUS
<1> HIDE DEF g
<1>8. ASSUME NEW y \in Spots PROVE FollowOf(next, f, y) = FollowOf(next, g, y)
  <2>1. y # Nil => y \in Instances
    BY DEF Spots
  <2> QED
    BY <1>6, <2>1 DEF FollowOf
<1>9. \A y \in Instances \cup {Nil} : g[y] = FollowOf(next, g, y)
  BY <1>5, <1>6, <1>8 DEF Spots
<1> QED
  BY <1>7, <1>9

LEMMA FollowIs ==
    ASSUME NEW next \in [Instances -> Spots], Rooted(next)
    PROVE  /\ Follow(next, Nil) = <<>>
           /\ \A y \in Instances : Follow(next, y) = <<y>> \o Follow(next, next[y])
<1> DEFINE f == CHOOSE f : f = [z \in Instances \cup {Nil} |-> FollowOf(next, f, z)]
<1>1. f = [z \in Instances \cup {Nil} |-> FollowOf(next, f, z)]
  BY FollowExists
<1>2. \A z : Follow(next, z) = f[z]
  BY DEF Follow, FollowOf
<1> HIDE DEF f
<1>3. \A y \in Instances \cup {Nil} : f[y] = FollowOf(next, f, y)
  <2> DEFINE g == [z \in Instances \cup {Nil} |-> FollowOf(next, f, z)]
  <2>1. \A y \in Instances \cup {Nil} : g[y] = FollowOf(next, f, y)
    OBVIOUS
  <2>2. f = g
    BY <1>1
  <2> HIDE DEF g
  <2> QED
    BY <2>1, <2>2
<1> QED
  BY <1>2, <1>3, NilIs DEF FollowOf

Linked(h, next, row) ==
    /\ h = IF row = <<>> THEN Nil ELSE row[1]
    /\ \A i \in 1..Len(row) : next[row[i]] = IF i < Len(row) THEN row[i + 1] ELSE Nil

NoRow(R, y) == \A p \in Instances, n \in Names : \A i \in 1..Len(R[p][n]) : R[p][n][i] # y

Indexed(first, next, R) ==
    /\ \A p \in Instances, n \in Names : Linked(first[p][n], next, R[p][n])
    /\ \A y \in Instances : NoRow(R, y) => next[y] = Nil

Apart(R) ==
    \A p, q \in Instances, n, m \in Names : \A i \in 1..Len(R[p][n]), j \in 1..Len(R[q][m]) :
        R[p][n][i] = R[q][m][j] => p = q /\ n = m /\ i = j

RowsType == [Instances -> [Names -> Seq(Instances)]]

LEMMA NextRooted ==
    ASSUME NEW next \in [Instances -> Spots], NEW first, NEW R \in RowsType, Indexed(first, next, R)
    PROVE  Rooted(next)
<1> SUFFICES ASSUME NEW S \in SUBSET Instances, S # {}, \A y \in S : next[y] \in S PROVE FALSE
  BY DEF Rooted
<1>1. PICK y : y \in S
  OBVIOUS
<1>2. next[y] # Nil
  BY <1>1, NilIs
<1>3. PICK p \in Instances, n \in Names : \E i \in 1..Len(R[p][n]) : R[p][n][i] = y
  BY <1>1, <1>2 DEF Indexed, NoRow
<1> DEFINE row == R[p][n]
           T == {k \in Nat : k < Len(row) /\ row[Len(row) - k] \in S}
<1>4. row \in Seq(Instances) /\ Len(row) \in Nat
  BY DEF RowsType
<1>5. \A i \in 1..Len(row) : next[row[i]] = IF i < Len(row) THEN row[i + 1] ELSE Nil
  BY DEF Indexed, Linked
<1>6. PICK i \in 1..Len(row) : row[i] = y
  BY <1>3
<1> HIDE DEF row
<1>7. T # {}
  <2>1. Len(row) - i \in Nat /\ Len(row) - i < Len(row) /\ Len(row) - (Len(row) - i) = i
    BY <1>4
  <2> QED
    BY <1>1, <1>6, <2>1
<1>8. PICK k \in T : \A j \in T : k <= j
  <2>1. T \in SUBSET Nat
    OBVIOUS
  <2> HIDE DEF T
  <2> QED
    BY <1>7, <2>1, LeastExists
<1>9. Len(row) - k \in 1..Len(row) /\ row[Len(row) - k] \in S
  BY <1>4, <1>8
<1>10. next[row[Len(row) - k]] \in S
  BY <1>9
<1>11. CASE k = 0
  BY <1>4, <1>5, <1>9, <1>10, <1>11, NilIs
<1>12. CASE k # 0
  <2>1. k - 1 \in Nat /\ k - 1 < Len(row) /\ Len(row) - (k - 1) = (Len(row) - k) + 1 /\ Len(row) - k < Len(row)
    BY <1>4, <1>8, <1>12
  <2>2. row[Len(row) - (k - 1)] \in S
    BY <1>5, <1>9, <1>10, <2>1
  <2>3. k - 1 \in T
    BY <2>1, <2>2
  <2>4. k <= k - 1
    BY <1>8, <2>3
  <2> QED
    BY <2>1, <2>4
<1> QED
  BY <1>11, <1>12

\* The walk from the head of a chain returns it.
LEMMA FollowRow ==
    ASSUME NEW next \in [Instances -> Spots], Rooted(next), NEW h, NEW row \in Seq(Instances), Linked(h, next, row)
    PROVE  Follow(next, h) = row
<1>1. CASE row = <<>>
  BY <1>1, FollowIs DEF Linked
<1>2. CASE row # <<>>
  <2> DEFINE N == {k \in Nat : k < Len(row) =>
                      Follow(next, row[Len(row) - k]) = SubSeq(row, Len(row) - k, Len(row))}
  <2>1. Len(row) \in Nat /\ Len(row) >= 1 /\ h = row[1]
    BY <1>2 DEF Linked
  <2>2. \A i \in 1..Len(row) : row[i] \in Instances
    OBVIOUS
  <2>3. \A i \in 1..Len(row) : next[row[i]] = IF i < Len(row) THEN row[i + 1] ELSE Nil
    BY DEF Linked
  <2>4. 0 \in N
    <3> DEFINE e == row[Len(row)]
    <3>0. e \in Instances /\ next[e] = Nil
      BY <2>1, <2>2, <2>3
    <3>1. Follow(next, e) = <<e>> \o <<>>
      BY <3>0, FollowIs
    <3>2. SubSeq(row, Len(row), Len(row)) = <<e>> \o <<>>
      <4>1. SubSeq(row, Len(row), Len(row)) = <<e>>
        <5> DEFINE u == SubSeq(row, Len(row), Len(row))
        <5>1. u \in Seq(Instances) /\ Len(u) = 1 /\ u[1] = e
          BY <2>1
        <5> HIDE DEF u, e
        <5>2. \A w \in Seq(Instances) : Len(w) = 1 => w = <<w[1]>>
          OBVIOUS
        <5>3. u = <<u[1]>>
          BY <5>1, <5>2
        <5> QED
          BY <5>1, <5>3 DEF u
      <4> HIDE DEF e
      <4>2. <<e>> \o <<>> = <<e>>
        BY <3>0
      <4> QED
        BY <4>1, <4>2
    <3>3. Len(row) - 0 = Len(row)
      BY <2>1
    <3> QED
      BY <3>1, <3>2, <3>3
  <2>5. ASSUME NEW k \in Nat, k \in N PROVE k + 1 \in N
    <3> SUFFICES ASSUME k + 1 < Len(row)
                 PROVE Follow(next, row[Len(row) - (k + 1)]) = SubSeq(row, Len(row) - (k + 1), Len(row))
      OBVIOUS
    <3> DEFINE i == Len(row) - (k + 1)
    <3>1. i \in 1..Len(row) /\ i < Len(row) /\ i + 1 = Len(row) - k /\ k < Len(row)
      BY <2>1
    <3>2. Follow(next, row[i + 1]) = SubSeq(row, i + 1, Len(row))
      BY <2>5, <3>1
    <3> HIDE DEF i
    <3>3. Follow(next, row[i]) = <<row[i]>> \o Follow(next, row[i + 1])
      BY <2>2, <2>3, <3>1, FollowIs
    <3>4. <<row[i]>> \o SubSeq(row, i + 1, Len(row)) = SubSeq(row, i, Len(row))
      BY <2>1, <2>2, <3>1
    <3>5. Follow(next, row[i]) = SubSeq(row, i, Len(row))
      BY <3>2, <3>3, <3>4
    <3> QED
      BY <3>5 DEF i
  <2> HIDE DEF N
  <2>6. \A k \in Nat : k \in N
    BY <2>4, <2>5, AllNumbers
  <2>7. Len(row) - 1 \in N /\ Len(row) - 1 < Len(row) /\ Len(row) - (Len(row) - 1) = 1
    BY <2>1, <2>6
  <2>8. Follow(next, row[1]) = SubSeq(row, 1, Len(row))
    BY <2>7 DEF N
  <2>9. SubSeq(row, 1, Len(row)) = row
    BY <2>1
  <2> QED
    BY <2>1, <2>8, <2>9
<1> QED
  BY <1>1, <1>2

-----------------------------------------------------------------------------
\* s is r without its element x, at k.
Less(r, k, x, s) ==
    /\ k \in 1..Len(r) /\ r[k] = x /\ Len(s) = Len(r) - 1
    /\ \A i \in 1..Len(s) : s[i] = IF i < k THEN r[i] ELSE r[i + 1]

LEMMA LessAt ==
    ASSUME NEW r \in Seq(Instances), NEW s \in Seq(Instances), NEW k, NEW x, Less(r, k, x, s)
    PROVE  /\ Len(s) \in Nat /\ Len(r) = Len(s) + 1 /\ k \in Int /\ 1 <= k /\ k <= Len(s) + 1 /\ r[k] = x
           /\ x \in Instances
           /\ \A i \in Int : 1 <= i /\ i < k => s[i] = r[i]
           /\ \A i \in Int : k <= i /\ i <= Len(s) => s[i] = r[i + 1]
           /\ \A i \in Int : k < i /\ i <= Len(s) + 1 => r[i] = s[i - 1]
           /\ r # <<>> /\ (s = <<>> <=> Len(s) = 0)
<1>1. Len(s) \in Nat /\ Len(r) \in Nat
  OBVIOUS
<1>2. /\ k \in 1..Len(r) /\ r[k] = x /\ Len(s) = Len(r) - 1
      /\ \A i \in 1..Len(s) : s[i] = IF i < k THEN r[i] ELSE r[i + 1]
  BY DEF Less
<1>3. Len(r) = Len(s) + 1 /\ k \in Int /\ 1 <= k /\ k <= Len(s) + 1 /\ r[k] = x
  BY <1>1, <1>2
<1>4. ASSUME NEW i \in Int, 1 <= i, i < k PROVE s[i] = r[i]
  <2>1. i \in 1..Len(s)
    BY <1>1, <1>3, <1>4
  <2> QED
    BY <1>2, <1>4, <2>1
<1>5. ASSUME NEW i \in Int, k <= i, i <= Len(s) PROVE s[i] = r[i + 1]
  <2>1. i \in 1..Len(s) /\ ~(i < k)
    BY <1>1, <1>3, <1>5
  <2> QED
    BY <1>2, <2>1
<1>6. ASSUME NEW i \in Int, k < i, i <= Len(s) + 1 PROVE r[i] = s[i - 1]
  <2>1. i - 1 \in 1..Len(s) /\ ~(i - 1 < k) /\ (i - 1) + 1 = i
    BY <1>1, <1>3, <1>6
  <2> QED
    BY <1>2, <2>1
<1>7. x \in Instances
  BY <1>2
<1>8. r # <<>>
  BY <1>1, <1>2
<1>9. s = <<>> <=> Len(s) = 0
  OBVIOUS
<1> QED
  BY <1>1, <1>3, <1>4, <1>5, <1>6, <1>7, <1>8, <1>9

\* The row of one name at one parent, the rest as it was.
OneRow(first, R, p, n, f2, S) ==
    /\ S \in RowsType
    /\ \A q \in Instances, m \in Names : (q # p \/ m # n) => f2[q][m] = first[q][m] /\ S[q][m] = R[q][m]

\* x is taken from its k-th place.
Unlinks(first, next, R, p, n, k, x, f2, n2, S) ==
    /\ OneRow(first, R, p, n, f2, S) /\ Less(R[p][n], k, x, S[p][n])
    /\ f2[p][n] = (IF k = 1 THEN next[x] ELSE first[p][n])
    /\ n2[x] = Nil
    /\ k # 1 => n2[R[p][n][k - 1]] = next[x]
    /\ \A y \in Instances : y # x /\ (k = 1 \/ y # R[p][n][k - 1]) => n2[y] = next[y]

\* x is put there.
Links(first, next, R, p, n, k, x, f2, n2, S) ==
    /\ OneRow(first, R, p, n, f2, S) /\ Less(S[p][n], k, x, R[p][n])
    /\ f2[p][n] = (IF k = 1 THEN x ELSE first[p][n])
    /\ k = 1 => n2[x] = first[p][n]
    /\ k # 1 => n2[x] = next[R[p][n][k - 1]] /\ n2[R[p][n][k - 1]] = x
    /\ \A y \in Instances : y # x /\ (k = 1 \/ y # R[p][n][k - 1]) => n2[y] = next[y]

LEMMA ChainUnlinked ==
    ASSUME NEW first \in [Instances -> [Names -> Spots]], NEW next \in [Instances -> Spots], NEW R \in RowsType,
           Indexed(first, next, R), Apart(R), NEW p \in Instances, NEW n \in Names, NEW k, NEW x,
           NEW f2, NEW n2, NEW S, Unlinks(first, next, R, p, n, k, x, f2, n2, S)
    PROVE  Indexed(f2, n2, S)
<1> DEFINE s == S[p][n]
<1>13. /\ f2[p][n] = (IF k = 1 THEN next[x] ELSE first[p][n])
       /\ \A q \in Instances, m \in Names : (q # p \/ m # n) => f2[q][m] = first[q][m]
       /\ n2[x] = Nil /\ (k # 1 => n2[R[p][n][k - 1]] = next[x])
       /\ \A y \in Instances : y # x /\ (k = 1 \/ y # R[p][n][k - 1]) => n2[y] = next[y]
       /\ S \in RowsType /\ Less(R[p][n], k, x, S[p][n])
       /\ \A q \in Instances, m \in Names : (q # p \/ m # n) => S[q][m] = R[q][m]
  BY DEF Unlinks, OneRow
<1> DEFINE r == R[p][n]
<1>1. r \in Seq(Instances) /\ s \in Seq(Instances) /\ Len(r) \in Nat /\ Len(s) \in Nat /\ (\A i \in 1..Len(r) : r[i] \in Instances)
  BY <1>13 DEF RowsType
<1>2. k \in 1..Len(r) /\ r[k] = x /\ Len(s) = Len(r) - 1 /\ x \in Instances
      /\ \A i \in 1..Len(s) : s[i] = IF i < k THEN r[i] ELSE r[i + 1]
  BY <1>1, <1>13 DEF Less
<1>3. S[p][n] = s /\ S \in RowsType
      /\ \A q \in Instances, m \in Names : (q # p \/ m # n) => S[q][m] = R[q][m]
  BY <1>13
<1>4. /\ first[p][n] = IF r = <<>> THEN Nil ELSE r[1]
      /\ \A i \in 1..Len(r) : next[r[i]] = IF i < Len(r) THEN r[i + 1] ELSE Nil
  BY DEF Indexed, Linked
<1>5. f2[p][n] = (IF k = 1 THEN next[x] ELSE first[p][n])
      /\ \A q \in Instances, m \in Names : (q # p \/ m # n) => f2[q][m] = first[q][m]
  BY <1>13
<1>6. /\ n2[x] = Nil
      /\ k # 1 => n2[r[k - 1]] = next[x]
      /\ \A y \in Instances : y # x /\ (k = 1 \/ y # r[k - 1]) => n2[y] = next[y]
  BY <1>13
<1>7. \A i, j \in 1..Len(r) : r[i] = r[j] => i = j
  BY DEF Apart
<1>8. ASSUME NEW q \in Instances, NEW m \in Names, q # p \/ m # n, NEW i \in 1..Len(r), NEW j \in 1..Len(R[q][m])
      PROVE R[q][m][j] # r[i]
  BY <1>8 DEF Apart
<1>14. /\ Len(s) \in Nat /\ Len(r) = Len(s) + 1 /\ k \in Int /\ 1 <= k /\ k <= Len(s) + 1 /\ r[k] = x
       /\ x \in Instances
       /\ \A i \in Int : 1 <= i /\ i < k => s[i] = r[i]
       /\ \A i \in Int : k <= i /\ i <= Len(s) => s[i] = r[i + 1]
       /\ \A i \in Int : k < i /\ i <= Len(s) + 1 => r[i] = s[i - 1]
       /\ r # <<>> /\ (s = <<>> <=> Len(s) = 0)
  BY <1>1, <1>13, LessAt
<1> HIDE DEF r, s
<1>9. ASSUME NEW q \in Instances, NEW m \in Names PROVE Linked(f2[q][m], n2, S[q][m])
  <2>1. CASE q # p \/ m # n
    <3>1. Linked(first[q][m], next, R[q][m]) /\ S[q][m] = R[q][m] /\ f2[q][m] = first[q][m]
      BY <1>3, <1>5, <2>1 DEF Indexed
    <3>2. ASSUME NEW j \in 1..Len(R[q][m]) PROVE n2[R[q][m][j]] = next[R[q][m][j]]
      <4>1. R[q][m][j] \in Instances
        BY DEF RowsType
      <4>2. R[q][m][j] # x /\ (k # 1 => R[q][m][j] # r[k - 1])
        <5>1. k # 1 => k - 1 \in 1..Len(r)
          BY <1>1, <1>2
        <5> QED
          BY <1>2, <1>8, <2>1, <5>1
      <4> QED
        BY <1>6, <4>1, <4>2
    <3> QED
      BY <3>1, <3>2 DEF Linked
  <2>2. CASE q = p /\ m = n
    <3>1. f2[p][n] = IF s = <<>> THEN Nil ELSE s[1]
      <4>1. CASE k = 1
        <5>1. s = <<>> <=> Len(r) = 1
          BY <1>14
        <5>2. s # <<>> => s[1] = r[2]
          BY <1>14, <4>1, <5>1
        <5> QED
          BY <1>1, <1>2, <1>4, <1>5, <4>1, <5>1, <5>2
      <4>2. CASE k # 1
        <5>1. s # <<>> /\ s[1] = r[1] /\ r # <<>>
          BY <1>14, <4>2
        <5> QED
          BY <1>4, <1>5, <4>2, <5>1
      <4> QED
        BY <4>1, <4>2
    <3>2. ASSUME NEW i \in 1..Len(s) PROVE n2[s[i]] = IF i < Len(s) THEN s[i + 1] ELSE Nil
      <4>1. CASE i < k - 1
        <5>1. i \in 1..Len(r) /\ k - 1 \in 1..Len(r) /\ i # k /\ i # k - 1 /\ s[i] = r[i] /\ s[i + 1] = r[i + 1]
              /\ i < Len(r) /\ i < Len(s)
          <6>1. i \in Int /\ 1 <= i /\ i + 1 \in Int /\ 1 <= i + 1 /\ i + 1 < k /\ i < k
            BY <1>14, <4>1
          <6>2. s[i] = r[i]
            BY <1>14, <6>1
          <6>3. s[i + 1] = r[i + 1]
            BY <1>14, <6>1
          <6>4. i \in 1..Len(r) /\ k - 1 \in 1..Len(r) /\ i < Len(r) /\ i < Len(s)
            BY <1>14, <6>1
          <6> QED
            BY <4>1, <6>1, <6>2, <6>3, <6>4
        <5>2. r[i] # x /\ r[i] # r[k - 1]
          BY <1>2, <1>7, <5>1
        <5>3. n2[r[i]] = next[r[i]]
          BY <1>1, <1>6, <5>1, <5>2
        <5> QED
          BY <1>4, <5>1, <5>3
      <4>2. CASE i = k - 1
        <5>1. i \in 1..Len(r) /\ k # 1 /\ s[i] = r[k - 1] /\ (i < Len(s) <=> k < Len(r))
              /\ (i < Len(s) => s[i + 1] = r[k + 1]) /\ i # k
          BY <1>1, <1>2, <4>2
        <5>2. r[k - 1] # x
          BY <1>2, <1>7, <4>2, <5>1
        <5>3. n2[r[k - 1]] = next[r[k]]
          BY <1>2, <1>6, <5>1, <5>2
        <5> QED
          BY <1>2, <1>4, <5>1, <5>3
      <4>3. CASE i >= k
        <5>5. /\ Len(s) \in Nat /\ Len(r) = Len(s) + 1 /\ k \in Int /\ i \in Int /\ 1 <= k /\ k <= i /\ 1 <= i /\ i <= Len(s)
              /\ \A j \in Int : k <= j /\ j <= Len(s) => s[j] = r[j + 1]
          BY <1>1, <1>2, <4>3
        <5>6. i + 1 \in 1..Len(r) /\ i + 1 # k /\ i + 1 # k - 1 /\ (i < Len(s) <=> i + 1 < Len(r))
          BY <5>5
        <5>7. s[i] = r[i + 1] /\ (i < Len(s) => s[i + 1] = r[(i + 1) + 1])
          BY <5>5
        <5>1. i + 1 \in 1..Len(r) /\ i + 1 # k /\ i + 1 # k - 1 /\ s[i] = r[i + 1]
              /\ (i < Len(s) <=> i + 1 < Len(r)) /\ (i < Len(s) => s[i + 1] = r[(i + 1) + 1])
          BY <5>6, <5>7
        <5>2. r[i + 1] # x /\ (k # 1 => r[i + 1] # r[k - 1])
          <6>1. k # 1 => k - 1 \in 1..Len(r)
            BY <1>1, <1>2
          <6> QED
            BY <1>2, <1>7, <5>1, <6>1
        <5>3. n2[r[i + 1]] = next[r[i + 1]]
          BY <1>1, <1>6, <5>1, <5>2
        <5> QED
          BY <1>4, <5>1, <5>3
      <4> QED
        BY <1>1, <1>2, <4>1, <4>2, <4>3
    <3> QED
      BY <1>3, <2>2, <3>1, <3>2 DEF Linked
  <2> QED
    BY <2>1, <2>2
<1>10. ASSUME NEW y \in Instances, NoRow(S, y) PROVE n2[y] = Nil
  <2>1. CASE y = x
    BY <1>6, <2>1
  <2>2. CASE y # x
    <3>1. \A i \in 1..Len(s) : s[i] # y
      BY <1>3, <1>10 DEF NoRow
    <3>2. ASSUME NEW i \in 1..Len(r) PROVE r[i] # y
      <4>1. CASE i < k
        <5>1. i \in 1..Len(s) /\ s[i] = r[i]
          BY <1>14, <4>1
        <5> QED
          BY <3>1, <5>1
      <4>2. CASE i = k
        BY <1>2, <2>2, <4>2
      <4>3. CASE i > k
        <5>1. i - 1 \in 1..Len(s) /\ s[i - 1] = r[(i - 1) + 1] /\ (i - 1) + 1 = i
          BY <1>1, <1>2, <4>3
        <5> QED
          BY <3>1, <5>1
      <4> QED
        BY <1>1, <1>2, <4>1, <4>2, <4>3
    <3>3. NoRow(R, y)
      <4> SUFFICES ASSUME NEW q \in Instances, NEW m \in Names, NEW i \in 1..Len(R[q][m]) PROVE R[q][m][i] # y
        BY DEF NoRow
      <4>1. CASE q = p /\ m = n
        BY <3>2, <4>1 DEF r
      <4>2. CASE q # p \/ m # n
        BY <1>3, <1>10, <4>2 DEF NoRow
      <4> QED
        BY <4>1, <4>2
    <3>4. next[y] = Nil
      BY <3>3 DEF Indexed
    <3>5. k # 1 => y # r[k - 1]
      BY <1>1, <1>2, <3>2
    <3> QED
      BY <1>6, <2>2, <3>4, <3>5
  <2> QED
    BY <2>1, <2>2
<1> QED
  BY <1>9, <1>10 DEF Indexed

LEMMA ChainLinked ==
    ASSUME NEW first \in [Instances -> [Names -> Spots]], NEW next \in [Instances -> Spots], NEW R \in RowsType,
           Indexed(first, next, R), Apart(R), NEW p \in Instances, NEW n \in Names, NEW k, NEW x \in Instances,
           NoRow(R, x), NEW f2, NEW n2, NEW S, Links(first, next, R, p, n, k, x, f2, n2, S)
    PROVE  Indexed(f2, n2, S)
<1> DEFINE s == S[p][n]
<1>13. /\ f2[p][n] = (IF k = 1 THEN x ELSE first[p][n])
       /\ \A q \in Instances, m \in Names : (q # p \/ m # n) => f2[q][m] = first[q][m]
       /\ (k = 1 => n2[x] = first[p][n])
       /\ (k # 1 => n2[x] = next[R[p][n][k - 1]] /\ n2[R[p][n][k - 1]] = x)
       /\ \A y \in Instances : y # x /\ (k = 1 \/ y # R[p][n][k - 1]) => n2[y] = next[y]
       /\ S \in RowsType /\ Less(S[p][n], k, x, R[p][n])
       /\ \A q \in Instances, m \in Names : (q # p \/ m # n) => S[q][m] = R[q][m]
  BY DEF Links, OneRow
<1> DEFINE r == R[p][n]
<1>1. r \in Seq(Instances) /\ s \in Seq(Instances) /\ Len(r) \in Nat /\ Len(s) \in Nat /\ (\A i \in 1..Len(r) : r[i] \in Instances)
  BY <1>13 DEF RowsType
<1>2. k \in 1..Len(s) /\ s[k] = x /\ Len(r) = Len(s) - 1
      /\ \A i \in 1..Len(r) : r[i] = IF i < k THEN s[i] ELSE s[i + 1]
  BY <1>1, <1>13 DEF Less
<1>3. S[p][n] = s /\ S \in RowsType
      /\ \A q \in Instances, m \in Names : (q # p \/ m # n) => S[q][m] = R[q][m]
  BY <1>13
<1>4. /\ first[p][n] = IF r = <<>> THEN Nil ELSE r[1]
      /\ \A i \in 1..Len(r) : next[r[i]] = IF i < Len(r) THEN r[i + 1] ELSE Nil
  BY DEF Indexed, Linked
<1>5. f2[p][n] = (IF k = 1 THEN x ELSE first[p][n])
      /\ \A q \in Instances, m \in Names : (q # p \/ m # n) => f2[q][m] = first[q][m]
  BY <1>13
<1>6. \A i \in 1..Len(r) : r[i] # x
  BY DEF NoRow
<1>7. /\ k = 1 => n2[x] = first[p][n]
      /\ k # 1 => n2[x] = next[r[k - 1]] /\ n2[r[k - 1]] = x
      /\ \A y \in Instances : y # x /\ (k = 1 \/ y # r[k - 1]) => n2[y] = next[y]
  BY <1>13
<1>8. \A i, j \in 1..Len(r) : r[i] = r[j] => i = j
  BY DEF Apart
<1>9. ASSUME NEW q \in Instances, NEW m \in Names, q # p \/ m # n, NEW i \in 1..Len(r), NEW j \in 1..Len(R[q][m])
      PROVE R[q][m][j] # r[i]
  BY <1>9 DEF Apart
<1>14. /\ Len(r) \in Nat /\ Len(s) = Len(r) + 1 /\ k \in Int /\ 1 <= k /\ k <= Len(r) + 1 /\ s[k] = x
       /\ x \in Instances
       /\ \A i \in Int : 1 <= i /\ i < k => r[i] = s[i]
       /\ \A i \in Int : k <= i /\ i <= Len(r) => r[i] = s[i + 1]
       /\ \A i \in Int : k < i /\ i <= Len(r) + 1 => s[i] = r[i - 1]
       /\ s # <<>> /\ (r = <<>> <=> Len(r) = 0)
  BY <1>1, <1>13, LessAt
<1> HIDE DEF r, s
<1>10. ASSUME NEW q \in Instances, NEW m \in Names PROVE Linked(f2[q][m], n2, S[q][m])
  <2>1. CASE q # p \/ m # n
    <3>1. Linked(first[q][m], next, R[q][m]) /\ S[q][m] = R[q][m] /\ f2[q][m] = first[q][m]
      BY <1>3, <1>5, <2>1 DEF Indexed
    <3>2. ASSUME NEW j \in 1..Len(R[q][m]) PROVE n2[R[q][m][j]] = next[R[q][m][j]]
      <4>3. R[q][m][j] \in Instances
        BY DEF RowsType
      <4>1. R[q][m][j] \in Instances /\ R[q][m][j] # x
        BY <4>3 DEF NoRow
      <4>2. k # 1 => R[q][m][j] # r[k - 1]
        <5>1. k # 1 => k - 1 \in 1..Len(r)
          BY <1>1, <1>2
        <5> QED
          BY <1>9, <2>1, <5>1
      <4> QED
        BY <1>7, <4>1, <4>2
    <3> QED
      BY <3>1, <3>2 DEF Linked
  <2>2. CASE q = p /\ m = n
    <3>1. f2[p][n] = IF s = <<>> THEN Nil ELSE s[1]
      <4>1. CASE k = 1
        BY <1>1, <1>2, <1>5, <4>1
      <4>2. CASE k # 1
        <5>1. s # <<>> /\ s[1] = r[1] /\ r # <<>>
          BY <1>14, <4>2
        <5> QED
          BY <1>4, <1>5, <4>2, <5>1
      <4> QED
        BY <4>1, <4>2
    <3>2. ASSUME NEW i \in 1..Len(s) PROVE n2[s[i]] = IF i < Len(s) THEN s[i + 1] ELSE Nil
      <4>1. CASE i < k - 1
        <5>1. i \in 1..Len(r) /\ k - 1 \in 1..Len(r) /\ i # k - 1 /\ s[i] = r[i] /\ s[i + 1] = r[i + 1]
              /\ i < Len(r) /\ i < Len(s)
          <6>1. i \in Int /\ 1 <= i /\ i + 1 \in Int /\ 1 <= i + 1 /\ i + 1 < k /\ i < k
            BY <1>14, <4>1
          <6>2. s[i] = r[i]
            BY <1>14, <6>1
          <6>3. s[i + 1] = r[i + 1]
            BY <1>14, <6>1
          <6>4. i \in 1..Len(r) /\ k - 1 \in 1..Len(r) /\ i < Len(r) /\ i < Len(s)
            BY <1>14, <6>1
          <6> QED
            BY <4>1, <6>1, <6>2, <6>3, <6>4
        <5>2. r[i] # x /\ r[i] # r[k - 1]
          BY <1>6, <1>8, <5>1
        <5>3. n2[r[i]] = next[r[i]]
          BY <1>1, <1>7, <5>1, <5>2
        <5> QED
          BY <1>4, <5>1, <5>3
      <4>2. CASE i = k - 1
        <5>1. i \in 1..Len(r) /\ k # 1 /\ s[i] = r[k - 1] /\ i < Len(s) /\ s[i + 1] = x
          BY <1>1, <1>2, <4>2
        <5> QED
          BY <1>7, <5>1
      <4>3. CASE i = k /\ k = 1
        <5>1. (r = <<>> <=> ~(i < Len(s))) /\ (i < Len(s) => r[1] = s[i + 1])
          <6>1. r = <<>> <=> ~(i < Len(s))
            BY <1>14, <4>3
          <6>2. i < Len(s) => k <= 1 /\ 1 <= Len(r)
            BY <1>14, <4>3
          <6>3. i < Len(s) => r[1] = s[1 + 1]
            BY <1>14, <6>2
          <6> QED
            BY <4>3, <6>1, <6>3
        <5> QED
          BY <1>2, <1>4, <1>7, <4>3, <5>1
      <4>4. CASE i = k /\ k # 1
        <5>1. k - 1 \in 1..Len(r) /\ (k - 1 < Len(r) <=> i < Len(s)) /\ (i < Len(s) => r[(k - 1) + 1] = s[i + 1])
          BY <1>14, <4>4
        <5> QED
          BY <1>2, <1>4, <1>7, <4>4, <5>1
      <4>5. CASE i > k
        <5>1. i - 1 \in 1..Len(r) /\ s[i] = r[i - 1] /\ (i < Len(s) <=> i - 1 < Len(r))
              /\ (i < Len(s) => s[i + 1] = r[(i - 1) + 1]) /\ (k # 1 => k - 1 \in 1..Len(r) /\ k - 1 # i - 1)
          BY <1>14, <4>5
        <5>2. r[i - 1] # x /\ (k # 1 => r[i - 1] # r[k - 1])
          BY <1>6, <1>8, <5>1
        <5>3. n2[r[i - 1]] = next[r[i - 1]]
          BY <1>1, <1>7, <5>1, <5>2
        <5> QED
          BY <1>4, <5>1, <5>3
      <4> QED
        BY <1>1, <1>2, <4>1, <4>2, <4>3, <4>4, <4>5
    <3> QED
      BY <1>3, <2>2, <3>1, <3>2 DEF Linked
  <2> QED
    BY <2>1, <2>2
<1>11. ASSUME NEW y \in Instances, NoRow(S, y) PROVE n2[y] = Nil
  <2>1. \A i \in 1..Len(s) : s[i] # y
    BY <1>3, <1>11 DEF NoRow
  <2>2. y # x
    BY <1>2, <2>1
  <2>3. ASSUME NEW i \in 1..Len(r) PROVE r[i] # y
    BY <1>1, <1>2, <2>1
  <2>4. NoRow(R, y)
    <3> SUFFICES ASSUME NEW q \in Instances, NEW m \in Names, NEW i \in 1..Len(R[q][m]) PROVE R[q][m][i] # y
      BY DEF NoRow
    <3>1. CASE q = p /\ m = n
      BY <2>3, <3>1 DEF r
    <3>2. CASE q # p \/ m # n
      <4>1. S[q][m] = R[q][m]
        BY <1>3, <3>2
      <4>2. i \in 1..Len(S[q][m])
        BY <4>1
      <4>3. S[q][m][i] # y
        BY <1>11, <4>2 DEF NoRow
      <4> QED
        BY <4>1, <4>3
    <3> QED
      BY <3>1, <3>2
  <2>5. next[y] = Nil
    BY <2>4 DEF Indexed
  <2>6. k # 1 => y # r[k - 1]
    BY <1>1, <1>2, <2>3
  <2> QED
    BY <1>7, <2>2, <2>5, <2>6
<1> QED
  BY <1>10, <1>11 DEF Indexed

-----------------------------------------------------------------------------
(* Lists without one of their elements *)

Once(s) == \A i, j \in 1..Len(s) : s[i] = s[j] => i = j
Others(x) == Instances \ {x}

\* What is kept of a list stands in it, all of it, and as often.
LEMMA OnlyKeeps ==
    ASSUME NEW s \in Seq(Instances), NEW T
    PROVE  /\ \A n \in 1..Len(Only(s, T)) : \E i \in 1..Len(s) : Only(s, T)[n] = s[i] /\ s[i] \in T
           /\ \A i \in 1..Len(s) : s[i] \in T => \E n \in 1..Len(Only(s, T)) : Only(s, T)[n] = s[i]
           /\ Once(s) => Once(Only(s, T))
<1> DEFINE K == {i \in DOMAIN s : s[i] \in T}
           o == Sublist(s, K)
<1>1. o = Only(s, T)
  BY OnlyIsSublist DEF OnlyPlaces
<1>2. K \in SUBSET (1..Len(s)) /\ (\A i \in K : s[i] \in T) /\ (\A i \in 1..Len(s) : s[i] \in T => i \in K)
  OBVIOUS
<1> HIDE DEF K
<1>3. /\ Cardinality(K) \in Nat /\ Len(o) = Cardinality(K)
      /\ \A n \in 1..Cardinality(K) : Place(K, n) \in K /\ o[n] = s[Place(K, n)]
      /\ \A n, k \in 1..Cardinality(K) : n < k => Place(K, n) < Place(K, k)
      /\ \A i \in K : \E n \in 1..Cardinality(K) : Place(K, n) = i
  BY <1>2, SublistIsExact
<1> HIDE DEF o
<1>4. \A n \in 1..Len(o) : \E i \in 1..Len(s) : o[n] = s[i] /\ s[i] \in T
  BY <1>2, <1>3
<1>5. \A i \in 1..Len(s) : s[i] \in T => \E n \in 1..Len(o) : o[n] = s[i]
  BY <1>2, <1>3
<1>6. ASSUME Once(s) PROVE Once(o)
  <2> SUFFICES ASSUME NEW n \in 1..Len(o), NEW k \in 1..Len(o), o[n] = o[k], n # k PROVE FALSE
    BY DEF Once
  <2>1. Place(K, n) \in 1..Len(s) /\ Place(K, k) \in 1..Len(s) /\ s[Place(K, n)] = s[Place(K, k)]
    BY <1>2, <1>3
  <2>2. Place(K, n) = Place(K, k)
    BY <1>6, <2>1 DEF Once
  <2>3. n < k \/ k < n
    BY <1>3
  <2>4. Place(K, n) < Place(K, k) \/ Place(K, k) < Place(K, n)
    BY <1>3, <2>3
  <2> QED
    BY <2>1, <2>2, <2>4
<1> QED
  BY <1>1, <1>4, <1>5, <1>6

LEMMA JoinedAt ==
    ASSUME NEW a \in Seq(Instances), NEW b \in Seq(Instances), NEW x \in Instances
    PROVE  /\ Append(a, x) \o b \in Seq(Instances) /\ a \o b \in Seq(Instances)
           /\ Len(a) \in Nat /\ Len(b) \in Nat
           /\ Len(Append(a, x) \o b) = Len(a) + Len(b) + 1 /\ Len(a \o b) = Len(a) + Len(b)
           /\ (Append(a, x) \o b)[Len(a) + 1] = x
           /\ \A i \in Int : 1 <= i /\ i <= Len(a) => (Append(a, x) \o b)[i] = a[i] /\ (a \o b)[i] = a[i]
           /\ \A i \in Int : 1 <= i /\ i <= Len(b) => (Append(a, x) \o b)[Len(a) + 1 + i] = b[i]
                                                     /\ (a \o b)[Len(a) + i] = b[i]
OBVIOUS

LEMMA LessSplit ==
    ASSUME NEW a \in Seq(Instances), NEW b \in Seq(Instances), NEW x \in Instances
    PROVE  Less(Append(a, x) \o b, Len(a) + 1, x, a \o b)
<1> DEFINE r == Append(a, x) \o b
           s == a \o b
<1>1. /\ Len(a) \in Nat /\ Len(b) \in Nat /\ Len(r) = Len(a) + Len(b) + 1 /\ Len(s) = Len(a) + Len(b)
      /\ r[Len(a) + 1] = x
      /\ \A i \in Int : 1 <= i /\ i <= Len(a) => r[i] = a[i] /\ s[i] = a[i]
      /\ \A i \in Int : 1 <= i /\ i <= Len(b) => r[Len(a) + 1 + i] = b[i] /\ s[Len(a) + i] = b[i]
  BY JoinedAt
<1> HIDE DEF r, s
<1>2. Len(a) + 1 \in 1..Len(r) /\ Len(s) = Len(r) - 1
  BY <1>1
<1>3. ASSUME NEW i \in 1..Len(s) PROVE s[i] = IF i < Len(a) + 1 THEN r[i] ELSE r[i + 1]
  <2>1. CASE i < Len(a) + 1
    BY <1>1, <2>1
  <2>2. CASE ~(i < Len(a) + 1)
    <3> DEFINE j == i - Len(a)
    <3>1. j \in Int /\ 1 <= j /\ j <= Len(b) /\ Len(a) + j = i /\ Len(a) + 1 + j = i + 1
      BY <1>1, <2>2
    <3> HIDE DEF j
    <3>2. r[Len(a) + 1 + j] = b[j] /\ s[Len(a) + j] = b[j]
      BY <1>1, <3>1
    <3> QED
      BY <2>2, <3>1, <3>2
  <2> QED
    BY <2>1, <2>2
<1> QED
  BY <1>1, <1>2, <1>3 DEF Less, r, s

Splits(T, a, b) ==
    /\ Only(a, T) \in Seq(Instances) /\ Only(b, T) \in Seq(Instances)
    /\ Only(a \o b, T) = Only(a, T) \o Only(b, T)
    /\ \A x \in Instances :
         Only(Append(a, x) \o b, T)
           = IF x \in T THEN Append(Only(a, T), x) \o Only(b, T) ELSE Only(a, T) \o Only(b, T)

LEMMA SplitAt ==
    ASSUME NEW T, NEW a \in Seq(Instances), NEW b \in Seq(Instances)
    PROVE  Splits(T, a, b)
<1>1. Only(a, T) \in Seq(Instances) /\ Only(b, T) \in Seq(Instances)
  BY OnlyType
<1>2. Only(a \o b, T) = Only(a, T) \o Only(b, T)
  BY OnlyConcat
<1>3. ASSUME NEW x \in Instances
      PROVE  Only(Append(a, x) \o b, T)
               = IF x \in T THEN Append(Only(a, T), x) \o Only(b, T) ELSE Only(a, T) \o Only(b, T)
  <2> DEFINE c == Append(a, x)
  <2>1. Only(c, T) = IF x \in T THEN Append(Only(a, T), x) ELSE Only(a, T)
    BY OnlyAppend
  <2>2. c \in Seq(Instances)
    OBVIOUS
  <2> HIDE DEF c
  <2>3. Only(c \o b, T) = Only(c, T) \o Only(b, T)
    BY <2>2, OnlyConcat
  <2> QED
    BY <2>1, <2>3 DEF c
<1> QED
  BY <1>1, <1>2, <1>3 DEF Splits

\* A list of different elements, at one of them.
LEMMA ListAt ==
    ASSUME NEW s \in Seq(Instances), Once(s), NEW i \in 1..Len(s), NEW x, x = s[i]
    PROVE  \E a, b \in Seq(Instances) :
              /\ s = Append(a, x) \o b /\ Only(s, Others(x)) = a \o b /\ a = SubSeq(s, 1, i - 1)
              /\ (i = Len(s) => b = <<>>)
<1> DEFINE a == SubSeq(s, 1, i - 1)
           b == SubSeq(s, i + 1, Len(s))
<1>1. x \in Instances /\ Len(s) \in Nat
  OBVIOUS
<1>2. a \in Seq(Instances) /\ Len(a) = i - 1 /\ \A j \in 1..Len(a) : a[j] = s[j]
  BY <1>1
<1>3. b \in Seq(Instances) /\ Len(b) = Len(s) - i /\ \A j \in 1..Len(b) : b[j] = s[i + j]
  BY <1>1
<1> HIDE DEF a, b
<1>0. a \in Seq(Instances) /\ b \in Seq(Instances) /\ x \in Instances
  BY <1>1, <1>2, <1>3
<1> DEFINE r == Append(a, x) \o b
<1>4. /\ Len(r) = Len(a) + Len(b) + 1 /\ r[Len(a) + 1] = x /\ r \in Seq(Instances)
      /\ \A j \in Int : 1 <= j /\ j <= Len(a) => r[j] = a[j]
      /\ \A j \in Int : 1 <= j /\ j <= Len(b) => r[Len(a) + 1 + j] = b[j]
  BY <1>0, JoinedAt
<1> HIDE DEF r
<1>5. ASSUME NEW j \in 1..Len(s) PROVE r[j] = s[j]
  <2>1. CASE j < i
    <3>1. 1 <= j /\ j <= Len(a) /\ j \in 1..Len(a)
      BY <1>1, <1>2, <2>1
    <3> QED
      BY <1>2, <1>4, <3>1
  <2>2. CASE j = i
    <3>1. Len(a) + 1 = j
      BY <1>2, <2>2
    <3> QED
      BY <1>4, <2>2, <3>1
  <2>3. CASE j > i
    <3> DEFINE k == j - i
    <3>1. k \in Int /\ 1 <= k /\ k <= Len(b) /\ k \in 1..Len(b) /\ Len(a) + 1 + k = j /\ i + k = j
      BY <1>1, <1>2, <1>3, <2>3
    <3> HIDE DEF k
    <3>2. r[Len(a) + 1 + k] = b[k] /\ b[k] = s[i + k]
      BY <1>3, <1>4, <3>1
    <3> QED
      BY <3>1, <3>2
  <2> QED
    BY <1>1, <2>1, <2>2, <2>3
<1>6. r = s
  <2>1. Len(r) = Len(s)
    BY <1>1, <1>2, <1>3, <1>4
  <2> QED
    BY <1>4, <1>5, <2>1, SeqEqual
<1>7. ASSUME NEW j \in 1..Len(a) PROVE a[j] # x /\ a[j] \in Instances
  <2>1. j \in 1..Len(s) /\ j # i
    BY <1>1, <1>2
  <2> QED
    BY <1>2, <2>1 DEF Once
<1>8. ASSUME NEW j \in 1..Len(b) PROVE b[j] # x /\ b[j] \in Instances
  <2>1. i + j \in 1..Len(s) /\ i + j # i
    BY <1>1, <1>3
  <2> QED
    BY <1>3, <2>1 DEF Once
<1>9. Only(a, Others(x)) = a /\ Only(b, Others(x)) = b
  BY <1>2, <1>3, <1>7, <1>8, OnlyAll DEF Others
<1>10. Only(Append(a, x) \o b, Others(x)) = a \o b
  <2>1. x \notin Others(x)
    BY DEF Others
  <2> DEFINE U == Others(x)
  <2>2. x \notin U
    BY <2>1
  <2> HIDE DEF U
  <2>3. Only(Append(a, x) \o b, U) = Only(a, U) \o Only(b, U)
    <3>1. Splits(U, a, b)
      BY <1>0, SplitAt
    <3> QED
      BY <1>0, <2>2, <3>1 DEF Splits
  <2> QED
    BY <1>9, <2>3 DEF U
<1>11. s = Append(a, x) \o b
  BY <1>6 DEF r
<1> QED
  <2>1. i = Len(s) => b = <<>>
    BY <1>1, <1>3
  <2> QED
    BY <1>2, <1>3, <1>10, <1>11, <2>1 DEF a

LEMMA ListsAt ==
    \A u \in Seq(Instances) : Once(u) => \A i \in 1..Len(u) : \E c, d \in Seq(Instances) :
        u = Append(c, u[i]) \o d /\ Only(u, Others(u[i])) = c \o d /\ c = SubSeq(u, 1, i - 1)
<1> SUFFICES ASSUME NEW u \in Seq(Instances), Once(u), NEW i \in 1..Len(u), NEW y, y = u[i]
             PROVE  \E c, d \in Seq(Instances) :
                        u = Append(c, y) \o d /\ Only(u, Others(y)) = c \o d /\ c = SubSeq(u, 1, i - 1)
  OBVIOUS
<1>1. PICK c, d \in Seq(Instances) :
         /\ u = Append(c, y) \o d /\ Only(u, Others(y)) = c \o d /\ c = SubSeq(u, 1, i - 1)
         /\ (i = Len(u) => d = <<>>)
  BY ListAt
<1> QED
  BY <1>1

\* The rows of a list and of the list without one of its elements.
LEMMA RowLess ==
    ASSUME NEW s \in Seq(Instances), Once(s), NEW i \in 1..Len(s), NEW x, x = s[i], NEW T
    PROVE  /\ x \in T => Less(Only(s, T), Len(Only(SubSeq(s, 1, i - 1), T)) + 1, x, Only(Only(s, Others(x)), T))
           /\ x \notin T => Only(Only(s, Others(x)), T) = Only(s, T)
           /\ \A j \in 1..Len(Only(SubSeq(s, 1, i - 1), T)) :
                  Only(Only(s, Others(x)), T)[j] = Only(SubSeq(s, 1, i - 1), T)[j]
           /\ i = Len(s) => Only(Only(s, Others(x)), T) = Only(SubSeq(s, 1, i - 1), T)
<1>1. PICK a, b \in Seq(Instances) :
              /\ s = Append(a, x) \o b /\ Only(s, Others(x)) = a \o b /\ a = SubSeq(s, 1, i - 1)
              /\ (i = Len(s) => b = <<>>)
  BY ListAt
<1>2. x \in Instances
  OBVIOUS
<1> DEFINE c == Only(a, T)
           d == Only(b, T)
<1>3. /\ c \in Seq(Instances) /\ d \in Seq(Instances)
      /\ x \in T => Only(s, T) = Append(c, x) \o d
      /\ x \notin T => Only(s, T) = c \o d
      /\ Only(Only(s, Others(x)), T) = c \o d
  <2>1. /\ c \in Seq(Instances) /\ d \in Seq(Instances)
        /\ x \in T => Only(Append(a, x) \o b, T) = Append(c, x) \o d
        /\ x \notin T => Only(Append(a, x) \o b, T) = c \o d
        /\ Only(a \o b, T) = c \o d
    <3>1. /\ Only(a, T) \in Seq(Instances) /\ Only(b, T) \in Seq(Instances)
          /\ Only(a \o b, T) = Only(a, T) \o Only(b, T)
          /\ \A y \in Instances :
               Only(Append(a, y) \o b, T)
                 = IF y \in T THEN Append(Only(a, T), y) \o Only(b, T) ELSE Only(a, T) \o Only(b, T)
      <4>1. Splits(T, a, b)
        BY SplitAt
      <4> QED
        BY <4>1 DEF Splits
    <3> HIDE DEF c, d
    <3>2. c = Only(a, T) /\ d = Only(b, T)
      BY DEF c, d
    <3> QED
      BY <1>2, <3>1, <3>2
  <2> HIDE DEF c, d
  <2> QED
    BY <1>1, <2>1
<1> HIDE DEF c, d
<1>4. Less(Append(c, x) \o d, Len(c) + 1, x, c \o d)
  BY <1>2, <1>3, LessSplit
<1>5. \A j \in 1..Len(c) : (c \o d)[j] = c[j]
  BY <1>3
<1>6. i = Len(s) => c \o d = c
  <2>1. b = <<>> => d = <<>>
    BY OnlyOfNone DEF d
  <2>2. c \o <<>> = c
    BY <1>3
  <2> QED
    BY <1>1, <2>1, <2>2
<1> QED
  BY <1>1, <1>3, <1>4, <1>5, <1>6 DEF c

\* A list with one more.
LEMMA InsertedIs ==
    ASSUME NEW s \in Seq(Instances), Once(s), NEW x \in Instances, \A i \in 1..Len(s) : s[i] # x,
           NEW place \in 1..(Len(s) + 1)
    PROVE  LET w == InsertAt(s, place, x) IN
           /\ w \in Seq(Instances) /\ Len(w) = Len(s) + 1 /\ w[place] = x /\ Once(w) /\ Only(w, Others(x)) = s
           /\ \A i \in 1..Len(s) : \E j \in 1..Len(w) : w[j] = s[i]
           /\ \A j \in 1..Len(w) : w[j] # x => \E i \in 1..Len(s) : w[j] = s[i]
<1> DEFINE a == SubSeq(s, 1, place - 1)
           b == SubSeq(s, place, Len(s))
           w == InsertAt(s, place, x)
<1>1. Len(s) \in Nat
  OBVIOUS
<1>2. a \in Seq(Instances) /\ Len(a) = place - 1 /\ \A j \in 1..Len(a) : a[j] = s[j]
  BY <1>1
<1>3. b \in Seq(Instances) /\ Len(b) = Len(s) - place + 1 /\ \A j \in 1..Len(b) : b[j] = s[place - 1 + j]
  BY <1>1
<1>4. w = Append(a, x) \o b
  <2>1. \A c \in Seq(Instances) : c \o <<x>> = Append(c, x)
    OBVIOUS
  <2>2. w = a \o <<x>> \o b
    BY DEF InsertAt
  <2> HIDE DEF a, b, w
  <2> QED
    BY <1>2, <2>1, <2>2
<1> HIDE DEF a, b, w
<1>5. /\ w \in Seq(Instances) /\ Len(w) = Len(a) + Len(b) + 1 /\ w[Len(a) + 1] = x
      /\ \A j \in Int : 1 <= j /\ j <= Len(a) => w[j] = a[j]
      /\ \A j \in Int : 1 <= j /\ j <= Len(b) => w[Len(a) + 1 + j] = b[j]
  BY <1>2, <1>3, <1>4, JoinedAt
<1>6. Len(w) = Len(s) + 1 /\ w[place] = x
  <2>1. Len(a) + 1 = place
    BY <1>2
  <2> QED
    BY <1>1, <1>2, <1>3, <1>5, <2>1
<1>7. ASSUME NEW j \in 1..Len(w), j < place PROVE w[j] = s[j] /\ j \in 1..Len(s)
  <2>1. 1 <= j /\ j <= Len(a) /\ j \in 1..Len(a) /\ j \in 1..Len(s)
    BY <1>1, <1>2, <1>7
  <2> QED
    BY <1>2, <1>5, <2>1
<1>8. ASSUME NEW j \in 1..Len(w), j > place PROVE w[j] = s[j - 1] /\ j - 1 \in 1..Len(s)
  <2> DEFINE k == j - place
  <2>1. k \in Int /\ 1 <= k /\ k <= Len(b) /\ k \in 1..Len(b) /\ Len(a) + 1 + k = j /\ place - 1 + k = j - 1
        /\ j - 1 \in 1..Len(s)
    BY <1>1, <1>2, <1>3, <1>6, <1>8
  <2> HIDE DEF k
  <2>2. w[Len(a) + 1 + k] = b[k] /\ b[k] = s[place - 1 + k]
    BY <1>3, <1>5, <2>1
  <2> QED
    BY <2>1, <2>2
<1>9. ASSUME NEW j \in 1..Len(w), w[j] # x PROVE \E i \in 1..Len(s) : w[j] = s[i]
  <2>1. j < place \/ j > place
    BY <1>6, <1>9
  <2> QED
    BY <1>7, <1>8, <2>1
<1>10. ASSUME NEW i \in 1..Len(s) PROVE \E j \in 1..Len(w) : w[j] = s[i]
  <2>1. CASE i < place
    <3>1. i \in 1..Len(w)
      BY <1>1, <1>6
    <3> QED
      BY <1>7, <2>1, <3>1
  <2>2. CASE i >= place
    <3>1. i + 1 \in 1..Len(w) /\ i + 1 > place /\ (i + 1) - 1 = i
      BY <1>1, <1>6, <2>2
    <3>2. w[i + 1] = s[i]
      BY <1>8, <3>1
    <3> QED
      BY <3>1, <3>2
  <2> QED
    BY <1>1, <2>1, <2>2
<1>11. ASSUME NEW j \in 1..Len(w), NEW k \in 1..Len(w), w[j] = w[k], j < k PROVE FALSE
  <2>1. CASE k < place
    <3>1. s[j] = s[k] /\ j \in 1..Len(s) /\ k \in 1..Len(s)
      BY <1>7, <1>11, <2>1
    <3> QED
      BY <1>11, <3>1 DEF Once
  <2>2. CASE k = place
    <3>1. s[j] = x /\ j \in 1..Len(s)
      BY <1>6, <1>7, <1>11, <2>2
    <3> QED
      BY <3>1
  <2>3. CASE k > place /\ j < place
    <3>1. s[j] = s[k - 1] /\ j \in 1..Len(s) /\ k - 1 \in 1..Len(s)
      BY <1>7, <1>8, <1>11, <2>3
    <3>2. j = k - 1
      BY <3>1 DEF Once
    <3> QED
      BY <2>3, <3>2
  <2>4. CASE k > place /\ j = place
    <3>1. s[k - 1] = x /\ k - 1 \in 1..Len(s)
      BY <1>6, <1>8, <1>11, <2>4
    <3> QED
      BY <3>1
  <2>5. CASE k > place /\ j > place
    <3>1. s[j - 1] = s[k - 1] /\ j - 1 \in 1..Len(s) /\ k - 1 \in 1..Len(s)
      BY <1>8, <1>11, <2>5
    <3>2. j - 1 = k - 1
      BY <3>1 DEF Once
    <3> QED
      BY <1>11, <3>2
  <2> QED
    BY <2>1, <2>2, <2>3, <2>4, <2>5
<1>12. Once(w)
  <2> SUFFICES ASSUME NEW j \in 1..Len(w), NEW k \in 1..Len(w), w[j] = w[k], j # k PROVE FALSE
    BY DEF Once
  <2>1. j < k \/ k < j
    OBVIOUS
  <2> QED
    BY <1>11, <2>1
<1>13. Only(w, Others(x)) = s
  <2>1. place \in 1..Len(w)
    BY <1>1, <1>6
  <2>2. PICK c, d \in Seq(Instances) :
           w = Append(c, x) \o d /\ Only(w, Others(x)) = c \o d /\ Len(c) = place - 1
    <3>1. w \in Seq(Instances) /\ x = w[place]
      BY <1>5, <1>6
    <3>2. \A u \in Seq(Instances) : Once(u) => \A i \in 1..Len(u) : \E c, d \in Seq(Instances) :
              u = Append(c, u[i]) \o d /\ Only(u, Others(u[i])) = c \o d /\ c = SubSeq(u, 1, i - 1)
      BY ListsAt
    <3> QED
      <4>1. \E c, d \in Seq(Instances) :
              w = Append(c, w[place]) \o d /\ Only(w, Others(w[place])) = c \o d /\ c = SubSeq(w, 1, place - 1)
        BY <1>12, <2>1, <3>1, <3>2
      <4>2. Len(SubSeq(w, 1, place - 1)) = place - 1
        BY <2>1, <3>1
      <4> QED
        BY <3>1, <4>1, <4>2
  <2> DEFINE o == c \o d
  <2>3. Less(w, Len(c) + 1, x, o)
    BY <2>2, LessSplit
  <2>4. o \in Seq(Instances)
    BY <2>2
  <2> HIDE DEF o
  <2>5. /\ Len(w) = Len(o) + 1 /\ Len(o) \in Nat
        /\ \A i \in Int : 1 <= i /\ i < Len(c) + 1 => o[i] = w[i]
        /\ \A i \in Int : Len(c) + 1 <= i /\ i <= Len(o) => o[i] = w[i + 1]
    <3> DEFINE k == Len(c) + 1
    <3>1. w \in Seq(Instances) /\ Less(w, k, x, o)
      BY <1>5, <2>3
    <3> HIDE DEF k
    <3>2. /\ Len(w) = Len(o) + 1 /\ Len(o) \in Nat
          /\ \A i \in Int : 1 <= i /\ i < k => o[i] = w[i]
          /\ \A i \in Int : k <= i /\ i <= Len(o) => o[i] = w[i + 1]
      BY <2>4, <3>1, LessAt
    <3> QED
      BY <3>2 DEF k
  <2>6. ASSUME NEW i \in 1..Len(s) PROVE o[i] = s[i]
    <3>1. CASE i < place
      <4>1. i \in 1..Len(w) /\ i \in Int /\ 1 <= i /\ i < Len(c) + 1
        BY <1>1, <1>6, <2>2, <3>1
      <4>2. w[i] = s[i]
        BY <1>7, <3>1, <4>1
      <4> QED
        BY <2>5, <4>1, <4>2
    <3>2. CASE i >= place
      <4>1. i + 1 \in 1..Len(w) /\ i + 1 > place /\ (i + 1) - 1 = i /\ i \in Int /\ Len(c) + 1 <= i /\ i <= Len(o)
        BY <1>1, <1>6, <2>2, <2>5, <3>2
      <4>2. w[i + 1] = s[i]
        BY <1>8, <4>1
      <4> QED
        BY <2>5, <4>1, <4>2
    <3> QED
      BY <1>1, <3>1, <3>2
  <2>7. o = s
    <3>1. Len(o) = Len(s)
      BY <1>1, <1>6, <2>5
    <3> QED
      BY <2>4, <2>6, <3>1, SeqEqual
  <2> QED
    BY <2>2, <2>7 DEF o
<1> QED
  BY <1>5, <1>6, <1>9, <1>10, <1>12, <1>13 DEF w

-----------------------------------------------------------------------------
(* The rows of the index *)

NamedBy(name, n) == {y \in Instances : name[y] = n}
RowsOf(kids, name) == [p \in Instances |-> [n \in Names |-> Only(kids[p], NamedBy(name, n))]]
Lacking(kids, p, x) == [kids EXCEPT ![p] = Only(@, Others(x))]

KidsType == [Instances -> Seq(Instances)]

\* No one is in two lists, or twice in one.
Alone(kids) ==
    \A p, q \in Instances : \A i \in 1..Len(kids[p]), j \in 1..Len(kids[q]) :
        kids[p][i] = kids[q][j] => p = q /\ i = j

LEMMA MatchedAlone ==
    ASSUME NEW kids \in KidsType, NEW parent, Matched(kids, parent)
    PROVE  Alone(kids) /\ \A p \in Instances : Once(kids[p])
<1>1. ASSUME NEW p \in Instances PROVE Once(kids[p])
  BY DEF Matched, Once
<1>2. ASSUME NEW p \in Instances, NEW q \in Instances, NEW i \in 1..Len(kids[p]), NEW j \in 1..Len(kids[q]),
             kids[p][i] = kids[q][j]
      PROVE  p = q /\ i = j
  <2>1. p = q
    BY <1>2 DEF Matched
  <2> QED
    BY <1>1, <1>2, <2>1 DEF Once
<1> QED
  BY <1>1, <1>2 DEF Alone

LEMMA LackingIs ==
    ASSUME NEW kids \in KidsType, NEW p \in Instances, NEW x \in Instances
    PROVE  /\ Lacking(kids, p, x) \in KidsType
           /\ Lacking(kids, p, x)[p] = Only(kids[p], Others(x))
           /\ \A q \in Instances : q # p => Lacking(kids, p, x)[q] = kids[q]
<1>1. Only(kids[p], Others(x)) \in Seq(Instances)
  <2>1. kids[p] \in Seq(Instances)
    BY DEF KidsType
  <2> QED
    BY <2>1, OnlyType
<1> QED
  BY <1>1 DEF Lacking, KidsType

Lacks(kids, p, x, l) ==
    l \in KidsType /\ l[p] = Only(kids[p], Others(x)) /\ \A q \in Instances : q # p => l[q] = kids[q]

LEMMA LackingAt ==
    ASSUME NEW kids \in KidsType, NEW p \in Instances, NEW x \in Instances
    PROVE  Lacks(kids, p, x, Lacking(kids, p, x))
<1>1. Lacking(kids, p, x) \in KidsType /\ Lacking(kids, p, x)[p] = Only(kids[p], Others(x))
  BY LackingIs
<1>2. \A q \in Instances : q # p => Lacking(kids, p, x)[q] = kids[q]
  BY LackingIs
<1> QED
  BY <1>1, <1>2 DEF Lacks

LEMMA AloneOnce == ASSUME NEW kids, Alone(kids), NEW p \in Instances PROVE Once(kids[p])
BY DEF Alone, Once

LEMMA LackingAlone ==
    ASSUME NEW kids \in KidsType, Alone(kids), NEW p \in Instances, NEW x \in Instances
    PROVE  Alone(Lacking(kids, p, x))
<1> DEFINE l == Lacking(kids, p, x)
<1>1. /\ l[p] = Only(kids[p], Others(x)) /\ \A q \in Instances : q # p => l[q] = kids[q]
  <2>1. Lacks(kids, p, x, l)
    BY LackingAt
  <2> HIDE DEF l
  <2> QED
    BY <2>1 DEF Lacks
<1>2. kids[p] \in Seq(Instances) /\ Once(kids[p])
  BY AloneOnce DEF KidsType
<1>3. /\ \A n \in 1..Len(l[p]) : \E i \in 1..Len(kids[p]) : l[p][n] = kids[p][i]
      /\ Once(l[p])
  BY <1>1, <1>2, OnlyKeeps
<1> HIDE DEF l
<1>4. ASSUME NEW q \in Instances, NEW i \in 1..Len(l[q]) PROVE \E j \in 1..Len(kids[q]) : l[q][i] = kids[q][j]
  <2>1. CASE q = p
    BY <1>3, <2>1
  <2>2. CASE q # p
    BY <1>1, <2>2
  <2> QED
    BY <2>1, <2>2
<1>5. ASSUME NEW q \in Instances, NEW o \in Instances, NEW i \in 1..Len(l[q]), NEW j \in 1..Len(l[o]), l[q][i] = l[o][j]
      PROVE  q = o /\ i = j
  <2>1. PICK m \in 1..Len(kids[q]) : l[q][i] = kids[q][m]
    BY <1>4
  <2>2. PICK n \in 1..Len(kids[o]) : l[o][j] = kids[o][n]
    BY <1>4
  <2>5. kids[q][m] = kids[o][n]
    BY <1>5, <2>1, <2>2
  <2>3. q = o
    BY <2>5 DEF Alone
  <2>4. Once(l[q])
    <3>1. CASE q = p
      BY <1>3, <3>1
    <3>2. CASE q # p
      BY <1>1, <3>2, AloneOnce
    <3> QED
      BY <3>1, <3>2
  <2> QED
    BY <1>5, <2>3, <2>4 DEF Once
<1> QED
  BY <1>5 DEF Alone, l

LEMMA RowsAre ==
    ASSUME NEW kids \in KidsType, NEW name
    PROVE  /\ RowsOf(kids, name) \in RowsType
           /\ \A p \in Instances, n \in Names : RowsOf(kids, name)[p][n] = Only(kids[p], NamedBy(name, n))
<1>1. ASSUME NEW p \in Instances, NEW n \in Names PROVE Only(kids[p], NamedBy(name, n)) \in Seq(Instances)
  <2>1. kids[p] \in Seq(Instances)
    BY DEF KidsType
  <2> QED
    BY <2>1, OnlyType
<1> QED
  BY <1>1 DEF RowsOf, RowsType

LEMMA RowHas ==
    ASSUME NEW kids \in KidsType, NEW name \in [Instances -> Names], NEW p \in Instances, NEW n \in Names
    PROVE  /\ \A i \in 1..Len(RowsOf(kids, name)[p][n]) : \E j \in 1..Len(kids[p]) :
                  RowsOf(kids, name)[p][n][i] = kids[p][j] /\ name[kids[p][j]] = n
           /\ \A j \in 1..Len(kids[p]) : name[kids[p][j]] = n =>
                  \E i \in 1..Len(RowsOf(kids, name)[p][n]) : RowsOf(kids, name)[p][n][i] = kids[p][j]
           /\ Once(kids[p]) => Once(RowsOf(kids, name)[p][n])
<1> DEFINE T == NamedBy(name, n)
           s == kids[p]
<1>1. s \in Seq(Instances) /\ RowsOf(kids, name)[p][n] = Only(s, T)
  BY RowsAre DEF KidsType
<1>2. \A y \in Instances : y \in T <=> name[y] = n
  BY DEF NamedBy
<1>3. \A j \in 1..Len(s) : s[j] \in Instances
  BY <1>1
<1> HIDE DEF T, s
<1>4. /\ \A i \in 1..Len(Only(s, T)) : \E j \in 1..Len(s) : Only(s, T)[i] = s[j] /\ s[j] \in T
      /\ \A j \in 1..Len(s) : s[j] \in T => \E i \in 1..Len(Only(s, T)) : Only(s, T)[i] = s[j]
      /\ Once(s) => Once(Only(s, T))
  BY <1>1, OnlyKeeps
<1> DEFINE o == Only(s, T)
<1>5. o = RowsOf(kids, name)[p][n]
  BY <1>1
<1> HIDE DEF o
<1>6. /\ \A i \in 1..Len(o) : \E j \in 1..Len(s) : o[i] = s[j] /\ name[s[j]] = n
      /\ \A j \in 1..Len(s) : name[s[j]] = n => \E i \in 1..Len(o) : o[i] = s[j]
      /\ Once(s) => Once(o)
  <2>1. \A i \in 1..Len(o) : \E j \in 1..Len(s) : o[i] = s[j] /\ s[j] \in T
    BY <1>4 DEF o
  <2>2. \A j \in 1..Len(s) : s[j] \in T => \E i \in 1..Len(o) : o[i] = s[j]
    BY <1>4 DEF o
  <2>3. Once(s) => Once(o)
    BY <1>4 DEF o
  <2>4. \A j \in 1..Len(s) : s[j] \in T <=> name[s[j]] = n
    BY <1>2, <1>3
  <2>5. ASSUME NEW i \in 1..Len(o) PROVE \E j \in 1..Len(s) : o[i] = s[j] /\ name[s[j]] = n
    BY <2>1, <2>4
  <2>6. ASSUME NEW j \in 1..Len(s), name[s[j]] = n PROVE \E i \in 1..Len(o) : o[i] = s[j]
    BY <2>2, <2>4, <2>6
  <2> QED
    BY <2>3, <2>5, <2>6
<1> QED
  BY <1>5, <1>6 DEF s

LEMMA RowsApart ==
    ASSUME NEW kids \in KidsType, NEW name \in [Instances -> Names], Alone(kids)
    PROVE  Apart(RowsOf(kids, name))
<1> DEFINE R == RowsOf(kids, name)
<1>1. ASSUME NEW p \in Instances, NEW n \in Names
      PROVE  /\ \A i \in 1..Len(R[p][n]) : \E j \in 1..Len(kids[p]) :
                    R[p][n][i] = kids[p][j] /\ name[kids[p][j]] = n
             /\ Once(R[p][n])
  BY RowHas, AloneOnce
<1> HIDE DEF R
<1>2. ASSUME NEW p \in Instances, NEW q \in Instances, NEW n \in Names, NEW m \in Names,
             NEW i \in 1..Len(R[p][n]), NEW j \in 1..Len(R[q][m]), R[p][n][i] = R[q][m][j]
      PROVE  p = q /\ n = m /\ i = j
  <2>1. PICK k \in 1..Len(kids[p]) : R[p][n][i] = kids[p][k] /\ name[kids[p][k]] = n
    BY <1>1
  <2>2. PICK l \in 1..Len(kids[q]) : R[q][m][j] = kids[q][l] /\ name[kids[q][l]] = m
    BY <1>1
  <2>6. kids[p][k] = kids[q][l]
    BY <1>2, <2>1, <2>2
  <2>3. p = q
    BY <2>6 DEF Alone
  <2>4. n = m
    BY <1>2, <2>1, <2>2
  <2>5. i = j
    BY <1>1, <1>2, <2>3, <2>4 DEF Once
  <2> QED
    BY <2>3, <2>4, <2>5
<1> QED
  BY <1>2 DEF Apart, R

RowOf(kids, name, R, p, n) ==
    /\ \A i \in 1..Len(R[p][n]) : \E j \in 1..Len(kids[p]) : R[p][n][i] = kids[p][j] /\ name[kids[p][j]] = n
    /\ \A j \in 1..Len(kids[p]) : name[kids[p][j]] = n => \E i \in 1..Len(R[p][n]) : R[p][n][i] = kids[p][j]

LEMMA RowAt ==
    ASSUME NEW kids \in KidsType, NEW name \in [Instances -> Names], NEW p \in Instances, NEW n \in Names
    PROVE  RowOf(kids, name, RowsOf(kids, name), p, n)
<1>1. \A i \in 1..Len(RowsOf(kids, name)[p][n]) : \E j \in 1..Len(kids[p]) :
          RowsOf(kids, name)[p][n][i] = kids[p][j] /\ name[kids[p][j]] = n
  BY RowHas
<1>2. \A j \in 1..Len(kids[p]) : name[kids[p][j]] = n =>
          \E i \in 1..Len(RowsOf(kids, name)[p][n]) : RowsOf(kids, name)[p][n][i] = kids[p][j]
  BY RowHas
<1> QED
  BY <1>1, <1>2 DEF RowOf

LEMMA RowsNone ==
    ASSUME NEW kids \in KidsType, NEW name \in [Instances -> Names], NEW x \in Instances
    PROVE  NoRow(RowsOf(kids, name), x) <=> \A p \in Instances : \A i \in 1..Len(kids[p]) : kids[p][i] # x
<1> DEFINE R == RowsOf(kids, name)
<1>1. ASSUME NEW p \in Instances, NEW n \in Names
      PROVE  /\ \A i \in 1..Len(R[p][n]) : \E j \in 1..Len(kids[p]) :
                    R[p][n][i] = kids[p][j] /\ name[kids[p][j]] = n
             /\ \A j \in 1..Len(kids[p]) : name[kids[p][j]] = n =>
                    \E i \in 1..Len(R[p][n]) : R[p][n][i] = kids[p][j]
  <2>1. RowOf(kids, name, R, p, n)
    BY <1>1, RowAt
  <2> HIDE DEF R
  <2> QED
    BY <2>1 DEF RowOf
<1> HIDE DEF R
<1>2. ASSUME NoRow(R, x), NEW p \in Instances, NEW i \in 1..Len(kids[p]), kids[p][i] = x PROVE FALSE
  <2>1. name[x] \in Names
    OBVIOUS
  <2>2. PICK k \in 1..Len(R[p][name[x]]) : R[p][name[x]][k] = x
    BY <1>1, <1>2, <2>1
  <2> QED
    BY <1>2, <2>1, <2>2 DEF NoRow
<1>3. ASSUME \A p \in Instances : \A i \in 1..Len(kids[p]) : kids[p][i] # x PROVE NoRow(R, x)
  <2> SUFFICES ASSUME NEW p \in Instances, NEW n \in Names, NEW i \in 1..Len(R[p][n]), R[p][n][i] = x PROVE FALSE
    BY DEF NoRow
  <2>1. PICK j \in 1..Len(kids[p]) : R[p][n][i] = kids[p][j]
    BY <1>1
  <2> QED
    BY <1>3, <2>1
<1> QED
  BY <1>2, <1>3 DEF R

LeftOf(kids, x, l) ==
    \A q \in Instances : \A j \in 1..Len(l[q]) : l[q][j] # x /\ \E k \in 1..Len(kids[q]) : kids[q][k] = l[q][j]

LEMMA LackingHas ==
    ASSUME NEW kids \in KidsType, Alone(kids), NEW p \in Instances, NEW i \in 1..Len(kids[p]), NEW x, x = kids[p][i]
    PROVE  LeftOf(kids, x, Lacking(kids, p, x))
<1> DEFINE l == Lacking(kids, p, x)
<1>0. x \in Instances /\ kids[p] \in Seq(Instances)
  BY DEF KidsType
<1>1. l[p] = Only(kids[p], Others(x)) /\ \A q \in Instances : q # p => l[q] = kids[q]
  <2>1. Lacks(kids, p, x, l)
    BY <1>0, LackingAt
  <2> HIDE DEF l
  <2> QED
    BY <2>1 DEF Lacks
<1>2. \A n \in 1..Len(l[p]) : \E j \in 1..Len(kids[p]) : l[p][n] = kids[p][j] /\ kids[p][j] \in Others(x)
  <2> DEFINE s == kids[p]
             T == Others(x)
  <2>1. s \in Seq(Instances)
    BY <1>0
  <2> HIDE DEF s, T, l
  <2>2. \A n \in 1..Len(Only(s, T)) : \E j \in 1..Len(s) : Only(s, T)[n] = s[j] /\ s[j] \in T
    BY <2>1, OnlyKeeps
  <2> QED
    BY <1>1, <2>2 DEF s, T
<1> HIDE DEF l
<1>3. ASSUME NEW q \in Instances, NEW j \in 1..Len(l[q]) PROVE l[q][j] # x /\ \E k \in 1..Len(kids[q]) : kids[q][k] = l[q][j]
  <2>1. CASE q = p
    BY <1>2, <2>1 DEF Others
  <2>2. CASE q # p
    <3>1. kids[q][j] # x
      BY <1>1, <2>2 DEF Alone
    <3> QED
      BY <1>1, <2>2, <3>1
  <2> QED
    BY <2>1, <2>2
<1> QED
  BY <1>3 DEF l, LeftOf

\* The rows without one of the children.
LEMMA RowsLacking ==
    ASSUME NEW kids \in KidsType, Alone(kids), NEW name \in [Instances -> Names],
           NEW p \in Instances, NEW i \in 1..Len(kids[p]), NEW x, x = kids[p][i]
    PROVE  \A q \in Instances, n \in Names : (q # p \/ n # name[x]) =>
               RowsOf(Lacking(kids, p, x), name)[q][n] = RowsOf(kids, name)[q][n]
<1> DEFINE l == Lacking(kids, p, x)
           R == RowsOf(kids, name)
           S == RowsOf(l, name)
<1>1. x \in Instances /\ name[x] \in Names /\ kids[p] \in Seq(Instances) /\ Once(kids[p])
  BY AloneOnce DEF KidsType
<1>2. l \in KidsType /\ l[p] = Only(kids[p], Others(x)) /\ \A q \in Instances : q # p => l[q] = kids[q]
  <2>1. Lacks(kids, p, x, l)
    BY <1>1, LackingAt
  <2> HIDE DEF l
  <2> QED
    BY <2>1 DEF Lacks
<1>3. R \in RowsType /\ \A q \in Instances, n \in Names : R[q][n] = Only(kids[q], NamedBy(name, n))
  BY RowsAre
<1> HIDE DEF l
<1>4. S \in RowsType /\ \A q \in Instances, n \in Names : S[q][n] = Only(l[q], NamedBy(name, n))
  BY <1>2, RowsAre
<1>5. ASSUME NEW n \in Names, n # name[x] PROVE S[p][n] = R[p][n]
  <2> DEFINE T == NamedBy(name, n)
             s == kids[p]
  <2>1. x \notin T
    BY <1>5 DEF NamedBy
  <2> HIDE DEF T
  <2>2. Only(Only(s, Others(x)), T) = Only(s, T)
    BY <1>1, <2>1, RowLess
  <2> QED
    BY <1>2, <1>3, <1>4, <2>2 DEF T
<1>6. \A q \in Instances, n \in Names : (q # p \/ n # name[x]) => S[q][n] = R[q][n]
  BY <1>2, <1>3, <1>4, <1>5
<1> QED
  BY <1>6 DEF l

-----------------------------------------------------------------------------
(* The operators of the index *)

Trees == [parent : [Instances -> Spots], kids : KidsType, name : [Instances -> Names],
          first : [Instances -> [Names -> Spots]], next : [Instances -> Spots],
          heard : [Instances \X Instances -> Int]]

\* All but the index is the same.
SameBut(t, u) == u.parent = t.parent /\ u.kids = t.kids /\ u.name = t.name /\ u.heard = t.heard

Threaded(t, kids) == Indexed(t.first, t.next, RowsOf(kids, t.name))

\* A tree whose parents and lists agree, and whose index is of those lists.
Woven(t) == t \in Trees /\ Matched(t.kids, t.parent) /\ Threaded(t, t.kids)

LEMMA UnindexIs ==
    ASSUME NEW t, Woven(t), NEW x \in Instances, NEW p \in Instances, p = t.parent[x]
    PROVE  LET u == UnindexName(t, p, x) IN
           u \in Trees /\ SameBut(t, u) /\ Threaded(u, Lacking(t.kids, p, x))
<1> DEFINE n == t.name[x]
           R == RowsOf(t.kids, t.name)
           row == R[p][n]
           head == t.first[p][n]
           u == UnindexName(t, p, x)
<1>1. t \in Trees /\ Matched(t.kids, t.parent) /\ Indexed(t.first, t.next, R)
  BY DEF Woven, Threaded
<1>2. /\ t.parent \in [Instances -> Spots] /\ t.kids \in KidsType /\ t.name \in [Instances -> Names]
      /\ t.first \in [Instances -> [Names -> Spots]] /\ t.next \in [Instances -> Spots]
  BY <1>1 DEF Trees
<1>3. n \in Names /\ Alone(t.kids) /\ Once(t.kids[p]) /\ t.kids[p] \in Seq(Instances)
  BY <1>1, <1>2, MatchedAlone DEF KidsType
<1>4. PICK i \in 1..Len(t.kids[p]) : t.kids[p][i] = x
  BY <1>1, NilIs DEF Matched
<1> DEFINE S == RowsOf(Lacking(t.kids, p, x), t.name)
           s == S[p][n]
           k == Len(Only(SubSeq(t.kids[p], 1, i - 1), NamedBy(t.name, n))) + 1
<1>5. R \in RowsType /\ row = Only(t.kids[p], NamedBy(t.name, n)) /\ Apart(R)
  BY <1>2, <1>3, RowsAre, RowsApart
<1>6. \A q \in Instances, m \in Names : (q # p \/ m # n) => S[q][m] = R[q][m]
  <2> DEFINE K == t.kids
             N == t.name
  <2>1. K \in KidsType /\ Alone(K) /\ N \in [Instances -> Names] /\ i \in 1..Len(K[p]) /\ x = K[p][i]
    BY <1>2, <1>3, <1>4
  <2> HIDE DEF K, N
  <2>2. \A q \in Instances, m \in Names : (q # p \/ m # N[x]) =>
               RowsOf(Lacking(K, p, x), N)[q][m] = RowsOf(K, N)[q][m]
    BY <2>1, RowsLacking
  <2> QED
    BY <2>2 DEF K, N
<1>7. Lacking(t.kids, p, x) \in KidsType /\ Lacking(t.kids, p, x)[p] = Only(t.kids[p], Others(x))
  <2>1. Lacks(t.kids, p, x, Lacking(t.kids, p, x))
    BY <1>2, LackingAt
  <2> QED
    BY <2>1 DEF Lacks
<1>8. S \in RowsType /\ s \in Seq(Instances) /\ s = Only(Only(t.kids[p], Others(x)), NamedBy(t.name, n))
  BY <1>3, <1>7, RowsAre DEF RowsType
<1>9. Less(row, k, x, s)
  <2> DEFINE T == NamedBy(t.name, n)
             q == t.kids[p]
  <2>1. x \in T /\ q \in Seq(Instances) /\ Once(q) /\ i \in 1..Len(q) /\ x = q[i]
    BY <1>3, <1>4 DEF NamedBy
  <2> HIDE DEF T, q
  <2>2. Less(Only(q, T), Len(Only(SubSeq(q, 1, i - 1), T)) + 1, x, Only(Only(q, Others(x)), T))
    BY <2>1, RowLess
  <2> QED
    BY <1>5, <1>8, <2>2 DEF T, q
<1>10. row \in Seq(Instances) /\ Once(row)
  <2>1. row \in Seq(Instances)
    BY <1>3, <1>5 DEF RowsType
  <2>2. Once(row)
    BY <1>3, <1>5 DEF Apart, Once
  <2> QED
    BY <2>1, <2>2
<1>11. Linked(head, t.next, row)
  BY <1>1, <1>3 DEF Indexed
<1>12. SameName(t, head) = row
  <2>1. Rooted(t.next)
    BY <1>1, <1>2, <1>5, NextRooted
  <2>2. Follow(t.next, head) = row
    BY <1>2, <1>10, <1>11, <2>1, FollowRow
  <2> QED
    BY <2>2, SameNameIs
<1> DEFINE before == {y \in ToSet(SameName(t, head)) : t.next[y] = x}
<1> HIDE DEF R, S, s, k, row
<1>13. k \in 1..Len(row) /\ row[k] = x /\ Len(row) \in Nat
  BY <1>9, <1>10 DEF Less
<1>14. /\ head = row[1] /\ head # Nil
       /\ \A j \in 1..Len(row) : t.next[row[j]] = IF j < Len(row) THEN row[j + 1] ELSE Nil
  <2>1. row # <<>> /\ 1 \in 1..Len(row)
    BY <1>10, <1>13
  <2>2. row[1] \in Instances
    BY <1>10, <2>1
  <2> QED
    BY <1>11, <2>1, <2>2, NilIs DEF Linked
<1>15. head = x <=> k = 1
  <2>1. 1 \in 1..Len(row)
    BY <1>13
  <2> QED
    BY <1>10, <1>13, <1>14, <2>1 DEF Once
<1>16. k # 1 => before = {row[k - 1]} /\ row[k - 1] \in Instances
  <2> SUFFICES ASSUME k # 1 PROVE before = {row[k - 1]} /\ row[k - 1] \in Instances
    OBVIOUS
  <2>1. k - 1 \in 1..Len(row) /\ k - 1 < Len(row) /\ (k - 1) + 1 = k
    BY <1>13
  <2>2. t.next[row[k - 1]] = x
    BY <1>13, <1>14, <2>1
  <2>3. ToSet(SameName(t, head)) = {row[j] : j \in 1..Len(row)}
    BY <1>10, <1>12 DEF ToSet
  <2>4. ASSUME NEW j \in 1..Len(row), t.next[row[j]] = x PROVE j = k - 1
    <3>1. j < Len(row) /\ row[j + 1] = x
      BY <1>14, <2>4, NilIs
    <3>2. j + 1 \in 1..Len(row)
      BY <1>13, <3>1
    <3>3. j + 1 = k
      BY <1>10, <1>13, <3>1, <3>2 DEF Once
    <3> QED
      BY <3>3
  <2>5. \A y \in before : y = row[k - 1]
    BY <2>3, <2>4
  <2>6. row[k - 1] \in before
    BY <2>1, <2>2, <2>3
  <2> QED
    BY <1>10, <2>1, <2>5, <2>6
<1>21. k = 1 => before = {}
  <2> SUFFICES ASSUME k = 1, NEW y \in before PROVE FALSE
    OBVIOUS
  <2>1. ToSet(SameName(t, head)) = {row[j] : j \in 1..Len(row)}
    BY <1>10, <1>12 DEF ToSet
  <2>2. PICK j \in 1..Len(row) : row[j] = y /\ t.next[y] = x
    BY <2>1
  <2>3. j < Len(row) /\ row[j + 1] = x
    BY <1>14, <2>2, NilIs
  <2>4. j + 1 \in 1..Len(row)
    BY <1>13, <2>3
  <2>5. j + 1 = k
    BY <1>10, <1>13, <2>3, <2>4 DEF Once
  <2> QED
    BY <2>5
<1> DEFINE f2 == IF k = 1 THEN [t.first EXCEPT ![p][n] = t.next[x]] ELSE t.first
           n2 == IF k = 1 THEN [t.next EXCEPT ![x] = Nil]
                 ELSE [[t.next EXCEPT ![row[k - 1]] = t.next[x]] EXCEPT ![x] = Nil]
<1>17. u = [t EXCEPT !.first = f2, !.next = n2]
  <2>1. CASE k = 1
    <3>1. u = [[t EXCEPT !.first[p][n] = t.next[x]] EXCEPT !.next[x] = Nil]
      BY <1>14, <1>15, <1>21, <2>1 DEF UnindexName
    <3> QED
      BY <1>1, <2>1, <3>1 DEF Trees
  <2>2. CASE k # 1
    <3>1. before # {} /\ (CHOOSE y \in before : TRUE) = row[k - 1] /\ head # x
      BY <1>15, <1>16, <2>2
    <3>2. u = [[t EXCEPT !.next[row[k - 1]] = t.next[x]] EXCEPT !.next[x] = Nil]
      BY <1>14, <3>1 DEF UnindexName
    <3> QED
      BY <1>1, <2>2, <3>2 DEF Trees
  <2> QED
    BY <2>1, <2>2
<1>18. f2 \in [Instances -> [Names -> Spots]] /\ n2 \in [Instances -> Spots]
  BY <1>2, <1>3, <1>16 DEF Spots
<1>19. Indexed(f2, n2, S)
  <2>1. OneRow(t.first, R, p, n, f2, S)
    <3>1. \A q \in Instances, m \in Names : (q # p \/ m # n) => f2[q][m] = t.first[q][m]
      BY <1>2, <1>3
    <3> QED
      BY <1>6, <1>8, <3>1 DEF OneRow
  <2>2. f2[p][n] = (IF k = 1 THEN t.next[x] ELSE t.first[p][n])
    BY <1>2, <1>3
  <2>3. /\ n2[x] = Nil /\ (k # 1 => n2[R[p][n][k - 1]] = t.next[x])
        /\ \A y \in Instances : y # x /\ (k = 1 \/ y # R[p][n][k - 1]) => n2[y] = t.next[y]
    <3>1. k # 1 => row[k - 1] # x
      <4>1. k # 1 => k - 1 \in 1..Len(row) /\ k - 1 # k
        BY <1>13
      <4> QED
        BY <1>10, <1>13, <4>1 DEF Once
    <3> QED
      BY <1>2, <1>16, <3>1 DEF row
  <2>4. Less(R[p][n], k, x, S[p][n])
    BY <1>9 DEF row, s
  <2> DEFINE F == t.first
             N == t.next
  <2> HIDE DEF F, N, n, f2, n2
  <2>5. Unlinks(F, N, R, p, n, k, x, f2, n2, S)
    BY <2>1, <2>2, <2>3, <2>4 DEF Unlinks, F, N
  <2>6. /\ F \in [Instances -> [Names -> Spots]] /\ N \in [Instances -> Spots] /\ R \in RowsType
        /\ Indexed(F, N, R) /\ Apart(R) /\ n \in Names
    BY <1>1, <1>2, <1>3, <1>5 DEF F, N
  <2> QED
    BY <2>5, <2>6, ChainUnlinked
<1> HIDE DEF f2, n2, u
<1>20. u \in Trees /\ u.first = f2 /\ u.next = n2 /\ SameBut(t, u)
  BY <1>1, <1>17, <1>18 DEF Trees, SameBut
<1> QED
  BY <1>19, <1>20 DEF Threaded, S, SameBut, u

LEMMA ListLen == \A s \in Seq(Instances) : Len(s) \in Nat /\ (s = <<>> <=> Len(s) = 0)
OBVIOUS

\* The children of one name before one of them.
Elder(u, p, x, i) == Only(SubSeq(u.kids[p], 1, i - 1), NamedBy(u.name, u.name[x]))

\* The rows with x and without it, and those before it.
Around(u, p, x, i) ==
    LET R == RowsOf(Lacking(u.kids, p, x), u.name)
        S == RowsOf(u.kids, u.name)
        n == u.name[x]
        b == Elder(u, p, x, i)
    IN  /\ R \in RowsType /\ S \in RowsType /\ Apart(R) /\ NoRow(R, x) /\ x \in Instances /\ n \in Names
        /\ b \in Seq(Instances) /\ Less(S[p][n], Len(b) + 1, x, R[p][n])
        /\ \A j \in 1..Len(b) : R[p][n][j] = b[j] /\ b[j] # x
        /\ \A q \in Instances, m \in Names : (q # p \/ m # n) => S[q][m] = R[q][m]
        /\ i = Len(u.kids[p]) => R[p][n] = b

LEMMA BeforeIs ==
    ASSUME NEW u \in Trees, Alone(u.kids), NEW p \in Instances, NEW i \in 1..Len(u.kids[p]), NEW x, x = u.kids[p][i]
    PROVE  Around(u, p, x, i)
<1> DEFINE l == Lacking(u.kids, p, x)
           R == RowsOf(l, u.name)
           S == RowsOf(u.kids, u.name)
           n == u.name[x]
           b == Elder(u, p, x, i)
<1>1. u.kids \in KidsType /\ u.name \in [Instances -> Names]
  BY DEF Trees
<1>2. u.kids[p] \in Seq(Instances) /\ x \in Instances /\ n \in Names /\ Once(u.kids[p])
  BY <1>1, AloneOnce DEF KidsType
<1>3. l \in KidsType /\ l[p] = Only(u.kids[p], Others(x)) /\ Alone(l)
  <2>1. Lacks(u.kids, p, x, l)
    BY <1>1, <1>2, LackingAt
  <2>2. Alone(l)
    BY <1>1, <1>2, LackingAlone
  <2> HIDE DEF l
  <2> QED
    BY <2>1, <2>2 DEF Lacks
<1>4. R \in RowsType /\ S \in RowsType /\ Apart(R) /\ S[p][n] = Only(u.kids[p], NamedBy(u.name, n))
  BY <1>1, <1>2, <1>3, RowsAre, RowsApart
<1>5. R[p][n] = Only(l[p], NamedBy(u.name, n))
  BY <1>2, <1>3, RowsAre
<1>6. NoRow(R, x)
  <2> DEFINE K == u.kids
  <2>1. K \in KidsType /\ Alone(K) /\ i \in 1..Len(K[p]) /\ x = K[p][i]
    BY <1>1
  <2> HIDE DEF K
  <2>4. LeftOf(K, x, Lacking(K, p, x))
    BY <2>1, LackingHas
  <2>2. \A q \in Instances : \A j \in 1..Len(Lacking(K, p, x)[q]) : Lacking(K, p, x)[q][j] # x
    BY <2>4 DEF LeftOf
  <2>3. \A q \in Instances : \A j \in 1..Len(l[q]) : l[q][j] # x
    BY <2>2 DEF K
  <2> HIDE DEF l
  <2> QED
    BY <1>1, <1>2, <1>3, <2>3, RowsNone
<1>7. \A q \in Instances, m \in Names : (q # p \/ m # n) => S[q][m] = R[q][m]
  <2> DEFINE K == u.kids
             N == u.name
  <2>1. K \in KidsType /\ Alone(K) /\ N \in [Instances -> Names] /\ i \in 1..Len(K[p]) /\ x = K[p][i]
    BY <1>1
  <2> HIDE DEF K, N
  <2>2. \A q \in Instances, m \in Names : (q # p \/ m # N[x]) =>
               RowsOf(Lacking(K, p, x), N)[q][m] = RowsOf(K, N)[q][m]
    BY <2>1, RowsLacking
  <2> QED
    BY <2>2 DEF K, N
<1>8. /\ Less(S[p][n], Len(b) + 1, x, R[p][n])
      /\ \A j \in 1..Len(b) : R[p][n][j] = b[j]
      /\ i = Len(u.kids[p]) => R[p][n] = b
  <2> DEFINE T == NamedBy(u.name, n)
             s == u.kids[p]
  <2>1. x \in T /\ s \in Seq(Instances) /\ Once(s) /\ i \in 1..Len(s) /\ x = s[i]
    BY <1>2 DEF NamedBy
  <2>2. b = Only(SubSeq(s, 1, i - 1), T) /\ S[p][n] = Only(s, T) /\ R[p][n] = Only(Only(s, Others(x)), T)
    BY <1>3, <1>4, <1>5 DEF Elder
  <2> HIDE DEF T, s, b, R, S
  <2> DEFINE h == Only(SubSeq(s, 1, i - 1), T)
             o == Only(Only(s, Others(x)), T)
  <2>3. Less(Only(s, T), Len(h) + 1, x, o)
    BY <2>1, RowLess
  <2>4. \A j \in 1..Len(h) : o[j] = h[j]
    BY <2>1, RowLess
  <2>5. i = Len(s) => o = h
    BY <2>1, RowLess
  <2> QED
    BY <2>2, <2>3, <2>4, <2>5 DEF s
<1>9. b \in Seq(Instances)
  <2> DEFINE h == SubSeq(u.kids[p], 1, i - 1)
  <2>1. h \in Seq(Instances)
    BY <1>2
  <2> HIDE DEF h
  <2>2. Only(h, NamedBy(u.name, n)) \in Seq(Instances)
    BY <2>1, OnlyType
  <2> QED
    BY <2>2 DEF Elder, h
<1>10. ASSUME NEW j \in 1..Len(b) PROVE b[j] # x
  <2>1. R[p][n] \in Seq(Instances)
    BY <1>2, <1>4 DEF RowsType
  <2>2. Len(b) + 1 \in 1..Len(S[p][n]) /\ Len(R[p][n]) = Len(S[p][n]) - 1
    BY <1>8 DEF Less
  <2>3. S[p][n] \in Seq(Instances)
    BY <1>2, <1>4 DEF RowsType
  <2> HIDE DEF R, S, b
  <2>4. j \in 1..Len(R[p][n])
    <3>1. Len(b) \in Nat /\ Len(R[p][n]) \in Nat /\ Len(S[p][n]) \in Nat
      BY <1>9, <2>1, <2>3, ListLen
    <3> QED
      BY <2>2, <3>1
  <2>5. R[p][n][j] # x
    BY <1>2, <1>6, <2>4 DEF NoRow
  <2> QED
    BY <1>8, <2>5
<1> HIDE DEF R, S, b, n
<1> QED
  BY <1>2, <1>4, <1>6, <1>7, <1>8, <1>9, <1>10 DEF Around, R, S, b, n, l

\* x is linked after the last of them.
PutAfter(u, p, x, n, b, f2, n2) ==
    /\ \A q \in Instances, m \in Names : (q # p \/ m # n) => f2[q][m] = u.first[q][m]
    /\ b = <<>> => /\ f2[p][n] = x /\ n2[x] = u.first[p][n]
                   /\ \A y \in Instances : y # x => n2[y] = u.next[y]
    /\ b # <<>> => /\ f2[p][n] = u.first[p][n] /\ n2[x] = u.next[Last(b)] /\ n2[Last(b)] = x
                   /\ \A y \in Instances : y # x /\ y # Last(b) => n2[y] = u.next[y]

LEMMA Rethreaded ==
    ASSUME NEW u \in Trees, Alone(u.kids), NEW p \in Instances, NEW i \in 1..Len(u.kids[p]), NEW x, x = u.kids[p][i],
           Threaded(u, Lacking(u.kids, p, x)),
           NEW f2, NEW n2, PutAfter(u, p, x, u.name[x], Elder(u, p, x, i), f2, n2)
    PROVE  Indexed(f2, n2, RowsOf(u.kids, u.name))
<1> DEFINE n == u.name[x]
           b == Elder(u, p, x, i)
<1>20. /\ \A q \in Instances, m \in Names : (q # p \/ m # n) => f2[q][m] = u.first[q][m]
       /\ b = <<>> => /\ f2[p][n] = x /\ n2[x] = u.first[p][n]
                      /\ \A y \in Instances : y # x => n2[y] = u.next[y]
       /\ b # <<>> => /\ f2[p][n] = u.first[p][n] /\ n2[x] = u.next[Last(b)] /\ n2[Last(b)] = x
                      /\ \A y \in Instances : y # x /\ y # Last(b) => n2[y] = u.next[y]
  BY DEF PutAfter
<1> DEFINE R == RowsOf(Lacking(u.kids, p, x), u.name)
           S == RowsOf(u.kids, u.name)
           k == Len(b) + 1
           F == u.first
           N == u.next
<1>1. /\ R \in RowsType /\ S \in RowsType /\ Apart(R) /\ NoRow(R, x) /\ x \in Instances /\ n \in Names
      /\ b \in Seq(Instances) /\ Less(S[p][n], Len(b) + 1, x, R[p][n])
      /\ \A j \in 1..Len(b) : R[p][n][j] = b[j] /\ b[j] # x
      /\ \A q \in Instances, m \in Names : (q # p \/ m # n) => S[q][m] = R[q][m]
  <2>1. Around(u, p, x, i)
    BY BeforeIs
  <2> QED
    BY <2>1 DEF Around
<1>2. Indexed(F, N, R) /\ F \in [Instances -> [Names -> Spots]] /\ N \in [Instances -> Spots]
  BY DEF Threaded, Trees
<1> HIDE DEF R, S, F, N, n, b
<1>3. (k = 1 <=> b = <<>>) /\ (k # 1 => k - 1 = Len(b) /\ Len(b) \in 1..Len(b))
  <2>1. Len(b) \in Nat /\ (b = <<>> <=> Len(b) = 0)
    BY <1>1, ListLen
  <2> QED
    BY <2>1
<1>4. k # 1 => R[p][n][k - 1] = Last(b)
  <2> SUFFICES ASSUME k # 1 PROVE R[p][n][k - 1] = Last(b)
    OBVIOUS
  <2>1. \A j \in 1..Len(b) : R[p][n][j] = b[j]
    BY <1>1
  <2> HIDE DEF k
  <2> QED
    BY <1>3, <2>1 DEF Last
<1>5. OneRow(F, R, p, n, f2, S)
  BY <1>1, <1>20 DEF OneRow, F
<1>6. /\ f2[p][n] = (IF k = 1 THEN x ELSE F[p][n])
      /\ k = 1 => n2[x] = F[p][n]
      /\ k # 1 => n2[x] = N[R[p][n][k - 1]] /\ n2[R[p][n][k - 1]] = x
      /\ \A y \in Instances : y # x /\ (k = 1 \/ y # R[p][n][k - 1]) => n2[y] = N[y]
  <2>1. CASE k = 1
    <3>1. b = <<>>
      BY <1>3, <2>1
    <3> QED
      BY <1>20, <2>1, <3>1 DEF F, N
  <2>2. CASE k # 1
    <3>1. b # <<>> /\ R[p][n][k - 1] = Last(b)
      BY <1>3, <1>4, <2>2
    <3> HIDE DEF k
    <3> QED
      BY <1>20, <2>2, <3>1 DEF F, N
  <2> QED
    BY <2>1, <2>2
<1>7. Less(S[p][n], k, x, R[p][n])
  BY <1>1
<1> HIDE DEF k
<1>8. Links(F, N, R, p, n, k, x, f2, n2, S)
  BY <1>5, <1>6, <1>7 DEF Links
<1>9. Indexed(f2, n2, S)
  BY <1>1, <1>2, <1>8, ChainLinked
<1> QED
  BY <1>9 DEF S

-----------------------------------------------------------------------------
LEMMA IndexInOrderIs ==
    ASSUME NEW u \in Trees, Alone(u.kids), NEW p \in Instances, NEW i \in 1..Len(u.kids[p]), NEW x, x = u.kids[p][i],
           Threaded(u, Lacking(u.kids, p, x))
    PROVE  LET w == IndexNameInChildOrder(u, p, x) IN w \in Trees /\ SameBut(u, w) /\ Threaded(w, w.kids)
<1> DEFINE n == u.name[x]
           b == Elder(u, p, x, i)
           w == IndexNameInChildOrder(u, p, x)
           place == CHOOSE j \in DOMAIN u.kids[p] : u.kids[p][j] = x
           before == Only(SubSeq(u.kids[p], 1, place - 1), Named(u, n))
<1>1. /\ u.parent \in [Instances -> Spots] /\ u.kids \in KidsType /\ u.name \in [Instances -> Names]
      /\ u.first \in [Instances -> [Names -> Spots]] /\ u.next \in [Instances -> Spots]
  BY DEF Trees
<1>2. x \in Instances /\ n \in Names /\ b \in Seq(Instances) /\ \A j \in 1..Len(b) : b[j] # x
  <2>1. Around(u, p, x, i)
    BY BeforeIs
  <2> QED
    BY <2>1 DEF Around
<1>3. Once(u.kids[p]) /\ u.kids[p] \in Seq(Instances)
  BY <1>1, AloneOnce DEF KidsType
<1>4. place = i
  <2>1. DOMAIN u.kids[p] = 1..Len(u.kids[p])
    BY <1>3
  <2>2. place \in 1..Len(u.kids[p]) /\ u.kids[p][place] = x
    BY <2>1
  <2> QED
    BY <1>3, <2>2 DEF Once
<1>5. before = b
  BY <1>4 DEF Elder, Named, NamedBy
<1> DEFINE f2 == IF b = <<>> THEN [u.first EXCEPT ![p][n] = x] ELSE u.first
           n2 == IF b = <<>> THEN [u.next EXCEPT ![x] = u.first[p][n]]
                 ELSE [[u.next EXCEPT ![x] = u.next[Last(b)]] EXCEPT ![Last(b)] = x]
<1>6. b # <<>> => Last(b) \in Instances /\ Last(b) # x
  <2>1. b # <<>> => Len(b) \in 1..Len(b)
    BY <1>2, ListLen
  <2> HIDE DEF b
  <2> QED
    BY <1>2, <2>1 DEF Last
<1> HIDE DEF b
<1>7. w = [u EXCEPT !.first = f2, !.next = n2]
  <2>1. CASE b = <<>>
    <3>1. w = [u EXCEPT !.next[x] = u.first[p][n], !.first[p][n] = x]
      BY <1>5, <2>1 DEF IndexNameInChildOrder
    <3> QED
      BY <2>1, <3>1 DEF Trees
  <2>2. CASE b # <<>>
    <3>1. w = [u EXCEPT !.next[x] = u.next[Last(b)], !.next[Last(b)] = x]
      BY <1>5, <2>2 DEF IndexNameInChildOrder
    <3> QED
      BY <2>2, <3>1 DEF Trees
  <2> QED
    BY <2>1, <2>2
<1>8. f2 \in [Instances -> [Names -> Spots]] /\ n2 \in [Instances -> Spots]
  BY <1>1, <1>2, <1>6 DEF Spots
<1>9. \A q \in Instances, m \in Names : (q # p \/ m # n) => f2[q][m] = u.first[q][m]
  BY <1>1, <1>2
<1>10. b = <<>> => /\ f2[p][n] = x /\ n2[x] = u.first[p][n]
                   /\ \A y \in Instances : y # x => n2[y] = u.next[y]
  BY <1>1, <1>2
<1>11. b # <<>> => /\ f2[p][n] = u.first[p][n] /\ n2[x] = u.next[Last(b)] /\ n2[Last(b)] = x
                   /\ \A y \in Instances : y # x /\ y # Last(b) => n2[y] = u.next[y]
  BY <1>1, <1>2, <1>6
<1> HIDE DEF f2, n2, w
<1>12. w \in Trees /\ w.first = f2 /\ w.next = n2 /\ SameBut(u, w)
  BY <1>7, <1>8 DEF Trees, SameBut
<1>13. Indexed(f2, n2, RowsOf(u.kids, u.name))
  <2>1. PutAfter(u, p, x, n, b, f2, n2)
    BY <1>9, <1>10, <1>11 DEF PutAfter
  <2> QED
    BY <2>1, Rethreaded DEF b
<1> QED
  BY <1>12, <1>13 DEF Threaded, SameBut, w

LEMMA IndexIs ==
    ASSUME NEW u \in Trees, Alone(u.kids), NEW p \in Instances, NEW i \in 1..Len(u.kids[p]), NEW x, x = u.kids[p][i],
           Threaded(u, Lacking(u.kids, p, x)), i = Len(u.kids[p])
    PROVE  LET w == IndexName(u, p, x) IN w \in Trees /\ SameBut(u, w) /\ Threaded(w, w.kids)
<1> DEFINE n == u.name[x]
           b == Elder(u, p, x, i)
           w == IndexName(u, p, x)
           R == RowsOf(Lacking(u.kids, p, x), u.name)
           head == u.first[p][n]
<1>1. /\ u.parent \in [Instances -> Spots] /\ u.kids \in KidsType /\ u.name \in [Instances -> Names]
      /\ u.first \in [Instances -> [Names -> Spots]] /\ u.next \in [Instances -> Spots]
  BY DEF Trees
<1>2. x \in Instances /\ n \in Names /\ b \in Seq(Instances) /\ (\A j \in 1..Len(b) : b[j] # x)
      /\ R[p][n] = b /\ R \in RowsType /\ NoRow(R, x)
  <2>1. Around(u, p, x, i)
    BY BeforeIs
  <2> QED
    BY <2>1 DEF Around
<1>3. Indexed(u.first, u.next, R)
  BY DEF Threaded
<1>4. Linked(head, u.next, b)
  BY <1>2, <1>3 DEF Indexed
<1>5. SameName(u, head) = b
  <2>1. Rooted(u.next)
    BY <1>1, <1>2, <1>3, NextRooted
  <2>2. Follow(u.next, head) = b
    BY <1>1, <1>2, <1>4, <2>1, FollowRow
  <2> QED
    BY <2>2, SameNameIs
<1>6. u.next[x] = Nil
  BY <1>2, <1>3 DEF Indexed
<1> HIDE DEF R
<1>7. b # <<>> => Last(b) \in Instances /\ Last(b) # x /\ u.next[Last(b)] = Nil /\ head # Nil
  <2>1. b # <<>> => Len(b) \in 1..Len(b) /\ 1 \in 1..Len(b)
    BY <1>2, ListLen
  <2> HIDE DEF b
  <2>2. b # <<>> => u.next[b[Len(b)]] = Nil /\ head = b[1]
    BY <1>4, <2>1 DEF Linked
  <2>3. b # <<>> => b[Len(b)] \in Instances /\ b[1] \in Instances
    BY <1>2, <2>1
  <2> QED
    BY <1>2, <2>1, <2>2, <2>3, NilIs DEF Last
<1>8. b = <<>> => head = Nil
  BY <1>4 DEF Linked
<1> DEFINE f2 == IF b = <<>> THEN [u.first EXCEPT ![p][n] = x] ELSE u.first
           n2 == IF b = <<>> THEN u.next ELSE [u.next EXCEPT ![Last(b)] = x]
<1> HIDE DEF b
<1>9. w = [u EXCEPT !.first = f2, !.next = n2]
  <2>1. CASE b = <<>>
    <3>1. w = [u EXCEPT !.first[p][n] = x]
      BY <1>8, <2>1 DEF IndexName
    <3> QED
      BY <2>1, <3>1 DEF Trees
  <2>2. CASE b # <<>>
    <3>1. w = [u EXCEPT !.next[Last(b)] = x]
      BY <1>5, <1>7, <2>2 DEF IndexName
    <3> QED
      BY <2>2, <3>1 DEF Trees
  <2> QED
    BY <2>1, <2>2
<1>10. f2 \in [Instances -> [Names -> Spots]] /\ n2 \in [Instances -> Spots]
  BY <1>1, <1>2, <1>7 DEF Spots
<1>11. \A q \in Instances, m \in Names : (q # p \/ m # n) => f2[q][m] = u.first[q][m]
  BY <1>1, <1>2
<1>12. b = <<>> => /\ f2[p][n] = x /\ n2[x] = u.first[p][n]
                   /\ \A y \in Instances : y # x => n2[y] = u.next[y]
  BY <1>1, <1>2, <1>6, <1>8
<1>13. b # <<>> => /\ f2[p][n] = u.first[p][n] /\ n2[x] = u.next[Last(b)] /\ n2[Last(b)] = x
                   /\ \A y \in Instances : y # x /\ y # Last(b) => n2[y] = u.next[y]
  BY <1>1, <1>2, <1>6, <1>7
<1> HIDE DEF f2, n2, w
<1>14. w \in Trees /\ w.first = f2 /\ w.next = n2 /\ SameBut(u, w)
  BY <1>9, <1>10 DEF Trees, SameBut
<1>15. Indexed(f2, n2, RowsOf(u.kids, u.name))
  <2>1. PutAfter(u, p, x, n, b, f2, n2)
    BY <1>11, <1>12, <1>13 DEF PutAfter
  <2> QED
    BY <2>1, Rethreaded DEF b
<1> QED
  BY <1>14, <1>15 DEF Threaded, SameBut, w

-----------------------------------------------------------------------------
(* Out of a list, and into one *)

LEMMA RowsSame ==
    ASSUME NEW kids \in KidsType, NEW name \in [Instances -> Names], NEW to \in [Instances -> Names],
           \A q \in Instances : \A j \in 1..Len(kids[q]) : to[kids[q][j]] = name[kids[q][j]]
    PROVE  RowsOf(kids, to) = RowsOf(kids, name)
<1>1. ASSUME NEW q \in Instances, NEW n \in Names
      PROVE  Only(kids[q], NamedBy(to, n)) = Only(kids[q], NamedBy(name, n))
  <2> DEFINE s == kids[q]
             T == NamedBy(to, n)
             U == NamedBy(name, n)
  <2>1. s \in Seq(Instances)
    BY DEF KidsType
  <2>2. \A j \in 1..Len(s) : s[j] \in T <=> s[j] \in U
    BY <2>1 DEF NamedBy
  <2> HIDE DEF s, T, U
  <2>3. Only(s, T) = Only(s, U)
    BY <2>1, <2>2, OnlySame
  <2> QED
    BY <2>3 DEF s, T, U
<1> QED
  BY <1>1 DEF RowsOf

LEMMA LackingMatched ==
    ASSUME NEW kids \in KidsType, NEW parent \in [Instances -> Spots], Matched(kids, parent),
           NEW x \in Instances, NEW p \in Instances, p = parent[x],
           NEW to, to = [parent EXCEPT ![x] = Nil]
    PROVE  Lacking(kids, p, x) \in KidsType /\ Matched(Lacking(kids, p, x), to)
<1> DEFINE l == Lacking(kids, p, x)
<1>1. Alone(kids) /\ Once(kids[p]) /\ kids[p] \in Seq(Instances)
  BY MatchedAlone DEF KidsType
<1>2. PICK i \in 1..Len(kids[p]) : kids[p][i] = x
  BY NilIs DEF Matched
<1>3. l \in KidsType /\ l[p] = Only(kids[p], Others(x)) /\ (\A q \in Instances : q # p => l[q] = kids[q]) /\ Alone(l)
  <2>1. Lacks(kids, p, x, l)
    BY <1>1, LackingAt
  <2>2. Alone(l)
    BY <1>1, LackingAlone
  <2> HIDE DEF l
  <2> QED
    BY <2>1, <2>2 DEF Lacks
<1>4. \A q \in Instances : \A j \in 1..Len(l[q]) : l[q][j] # x /\ \E k \in 1..Len(kids[q]) : kids[q][k] = l[q][j]
  <2>1. LeftOf(kids, x, Lacking(kids, p, x))
    BY <1>1, <1>2, LackingHas
  <2> QED
    BY <2>1 DEF LeftOf
<1>5. \A j \in 1..Len(kids[p]) : kids[p][j] \in Others(x) => \E k \in 1..Len(l[p]) : l[p][k] = kids[p][j]
  BY <1>1, <1>3, OnlyKeeps
<1>6. to \in [Instances -> Spots] /\ to[x] = Nil /\ \A y \in Instances : y # x => to[y] = parent[y]
  BY DEF Spots
<1> HIDE DEF l
<1>7. ASSUME NEW q \in Instances, NEW j \in 1..Len(l[q]) PROVE to[l[q][j]] = q
  <2>1. l[q][j] \in Instances /\ l[q][j] # x
    <3>1. l[q] \in Seq(Instances)
      BY <1>3 DEF KidsType
    <3> QED
      BY <1>4, <3>1
  <2>2. PICK k \in 1..Len(kids[q]) : kids[q][k] = l[q][j]
    BY <1>4
  <2>3. parent[kids[q][k]] = q
    BY DEF Matched
  <2> QED
    BY <1>6, <2>1, <2>2, <2>3
<1>8. ASSUME NEW q \in Instances PROVE \A j, k \in 1..Len(l[q]) : l[q][j] = l[q][k] => j = k
  BY <1>3 DEF Alone
<1>9. ASSUME NEW y \in Instances, to[y] # Nil PROVE \E j \in 1..Len(l[to[y]]) : l[to[y]][j] = y
  <2>1. y # x /\ to[y] = parent[y] /\ parent[y] \in Instances
    BY <1>6, <1>9 DEF Spots
  <2>2. PICK j \in 1..Len(kids[parent[y]]) : kids[parent[y]][j] = y
    BY <1>9, <2>1 DEF Matched
  <2>3. CASE parent[y] = p
    <3>1. y \in Others(x)
      BY <2>1 DEF Others
    <3> QED
      BY <1>5, <2>1, <2>2, <2>3, <3>1
  <2>4. CASE parent[y] # p
    BY <1>3, <2>1, <2>2, <2>4
  <2> QED
    BY <2>3, <2>4
<1>10. Matched(l, to)
  BY <1>7, <1>8, <1>9 DEF Matched
<1> QED
  BY <1>3, <1>10 DEF l

LEMMA OutIs ==
    ASSUME NEW t, Woven(t), NEW x \in Instances, NEW p \in Instances, p = t.parent[x], p \notin retired
    PROVE  LET v == UnlinkChild(UnindexName(t, p, x), x) IN
           /\ Woven(v) /\ v.parent = [t.parent EXCEPT ![x] = Nil] /\ v.name = t.name /\ v.heard = t.heard
           /\ v.kids = Lacking(t.kids, p, x)
<1> DEFINE u == UnindexName(t, p, x)
           v == UnlinkChild(u, x)
           l == Lacking(t.kids, p, x)
           to == [t.parent EXCEPT ![x] = Nil]
<1>1. u \in Trees /\ SameBut(t, u) /\ Threaded(u, l)
  BY UnindexIs
<1>2. t.kids \in KidsType /\ t.parent \in [Instances -> Spots] /\ Matched(t.kids, t.parent)
  BY DEF Woven, Trees
<1>3. l \in KidsType /\ Matched(l, to)
  BY <1>2, LackingMatched
<1> HIDE DEF u
<1>4. v = [u EXCEPT !.parent = to, !.kids = l]
  <2>1. u.parent = t.parent /\ u.kids = t.kids
    BY <1>1 DEF SameBut
  <2>2. v = [u EXCEPT !.parent[x] = Nil, !.kids[p] = Only(@, Instances \ {x})]
    BY <2>1 DEF UnlinkChild
  <2> QED
    BY <1>1, <2>1, <2>2 DEF Trees, Lacking, Others
<1>5. to \in [Instances -> Spots]
  BY <1>2 DEF Spots
<1> HIDE DEF l, to, v
<1>6. v \in Trees /\ v.parent = to /\ v.kids = l /\ v.name = u.name /\ v.heard = u.heard /\ v.first = u.first /\ v.next = u.next
  BY <1>1, <1>3, <1>4, <1>5 DEF Trees
<1>7. Woven(v)
  BY <1>1, <1>3, <1>6 DEF Woven, Threaded
<1> QED
  BY <1>1, <1>6, <1>7 DEF SameBut, u, v, l, to

LEMMA LinkIs ==
    ASSUME NEW t, Woven(t), NEW x \in Instances, t.parent[x] = Nil, NEW p \in Instances,
           NEW place \in 1..(Len(t.kids[p]) + 1)
    PROVE  LET u == LinkAt(t, p, x, place) IN
           /\ u \in Trees /\ u.parent = [t.parent EXCEPT ![x] = p] /\ u.name = t.name /\ u.heard = t.heard
           /\ Matched(u.kids, u.parent) /\ place \in 1..Len(u.kids[p]) /\ u.kids[p][place] = x
           /\ Len(u.kids[p]) = Len(t.kids[p]) + 1 /\ Threaded(u, Lacking(u.kids, p, x))
<1> DEFINE s == t.kids[p]
           w == InsertAt(s, place, x)
           u == LinkAt(t, p, x, place)
           K == [t.kids EXCEPT ![p] = w]
           to == [t.parent EXCEPT ![x] = p]
<1>1. t \in Trees /\ t.kids \in KidsType /\ t.parent \in [Instances -> Spots] /\ Matched(t.kids, t.parent)
      /\ Threaded(t, t.kids)
  BY DEF Woven, Trees
<1>2. s \in Seq(Instances) /\ Once(s) /\ Alone(t.kids)
  BY <1>1, MatchedAlone DEF KidsType
<1>3. \A q \in Instances : \A i \in 1..Len(t.kids[q]) : t.kids[q][i] # x
  BY <1>1, NilIs DEF Matched
<1>4. /\ w \in Seq(Instances) /\ Len(w) = Len(s) + 1 /\ w[place] = x /\ Once(w) /\ Only(w, Others(x)) = s
      /\ \A i \in 1..Len(s) : \E j \in 1..Len(w) : w[j] = s[i]
      /\ \A j \in 1..Len(w) : w[j] # x => \E i \in 1..Len(s) : w[j] = s[i]
  BY <1>2, <1>3, InsertedIs
<1> HIDE DEF w
<1>5. K \in KidsType /\ K[p] = w /\ \A q \in Instances : q # p => K[q] = t.kids[q]
  BY <1>1, <1>4 DEF KidsType
<1>6. to \in [Instances -> Spots] /\ to[x] = p /\ \A y \in Instances : y # x => to[y] = t.parent[y]
  BY <1>1 DEF Spots
<1>7. u = [t EXCEPT !.parent = to, !.kids = K]
  BY <1>1 DEF LinkAt, Trees, w
<1>8. Lacking(K, p, x) = t.kids
  <2>1. /\ Lacking(K, p, x) \in KidsType /\ Lacking(K, p, x)[p] = Only(K[p], Others(x))
        /\ \A q \in Instances : q # p => Lacking(K, p, x)[q] = K[q]
    <3>1. K \in KidsType
      BY <1>5
    <3> HIDE DEF K
    <3>2. Lacks(K, p, x, Lacking(K, p, x))
      BY <3>1, LackingAt
    <3> QED
      BY <3>2 DEF Lacks
  <2> DEFINE L == Lacking(K, p, x)
  <2>2. \A q \in Instances : L[q] = t.kids[q]
    BY <1>4, <1>5, <2>1
  <2>3. L \in KidsType
    BY <2>1
  <2> HIDE DEF L
  <2>4. L = t.kids
    BY <1>1, <2>2, <2>3 DEF KidsType
  <2> QED
    BY <2>4 DEF L
<1> HIDE DEF K, to, u
<1>9. Matched(K, to)
  <2>1. ASSUME NEW q \in Instances, NEW j \in 1..Len(K[q]) PROVE to[K[q][j]] = q
    <3>1. CASE q # p
      <4>1. K[q] = t.kids[q] /\ t.parent[t.kids[q][j]] = q /\ t.kids[q][j] # x /\ t.kids[q][j] \in Instances
        BY <1>1, <1>3, <1>5, <3>1 DEF Matched, KidsType
      <4> QED
        BY <1>6, <4>1
    <3>2. CASE q = p /\ w[j] = x
      BY <1>5, <1>6, <3>2
    <3>3. CASE q = p /\ w[j] # x
      <4>1. PICK i \in 1..Len(s) : w[j] = s[i]
        BY <1>4, <1>5, <3>3
      <4>2. t.parent[s[i]] = p /\ s[i] \in Instances
        BY <1>1, <1>2 DEF Matched
      <4> QED
        BY <1>5, <1>6, <3>3, <4>1, <4>2
    <3> QED
      BY <3>1, <3>2, <3>3
  <2>2. ASSUME NEW q \in Instances PROVE \A i, j \in 1..Len(K[q]) : K[q][i] = K[q][j] => i = j
    <3>1. CASE q = p
      BY <1>4, <1>5, <3>1 DEF Once
    <3>2. CASE q # p
      BY <1>1, <1>5, <3>2 DEF Matched
    <3> QED
      BY <3>1, <3>2
  <2>3. ASSUME NEW y \in Instances, to[y] # Nil PROVE \E i \in 1..Len(K[to[y]]) : K[to[y]][i] = y
    <3>1. CASE y = x
      <4>1. place \in 1..Len(w)
        BY <1>2, <1>4
      <4> QED
        BY <1>4, <1>5, <1>6, <3>1, <4>1
    <3>2. CASE y # x
      <4>1. to[y] = t.parent[y] /\ to[y] \in Instances
        BY <1>6, <2>3, <3>2 DEF Spots
      <4>2. PICK i \in 1..Len(t.kids[to[y]]) : t.kids[to[y]][i] = y
        BY <1>1, <2>3, <4>1 DEF Matched
      <4>3. CASE to[y] = p
        <5>1. \E j \in 1..Len(w) : w[j] = s[i]
          BY <1>4, <4>2, <4>3
        <5> QED
          BY <1>5, <4>2, <4>3, <5>1
      <4>4. CASE to[y] # p
        BY <1>5, <4>1, <4>2, <4>4
      <4> QED
        BY <4>3, <4>4
    <3> QED
      BY <3>1, <3>2
  <2> QED
    BY <2>1, <2>2, <2>3 DEF Matched
<1>10. /\ u \in Trees /\ u.parent = to /\ u.kids = K /\ u.name = t.name /\ u.heard = t.heard /\ u.first = t.first
       /\ u.next = t.next
  BY <1>1, <1>5, <1>6, <1>7 DEF Trees
<1>11. Threaded(u, Lacking(u.kids, p, x))
  BY <1>1, <1>8, <1>10 DEF Threaded
<1>12. place \in 1..Len(w)
  BY <1>2, <1>4
<1> QED
  BY <1>4, <1>5, <1>9, <1>10, <1>11, <1>12 DEF u, to

LEMMA AppendedIs ==
    ASSUME NEW t, Woven(t), NEW x \in Instances, t.parent[x] = Nil, NEW p \in Instances
    PROVE  LET w == IndexName(LinkAt(t, p, x, Len(t.kids[p]) + 1), p, x) IN
           Woven(w) /\ w.parent = [t.parent EXCEPT ![x] = p] /\ w.name = t.name /\ w.heard = t.heard
<1> DEFINE i == Len(t.kids[p]) + 1
           u == LinkAt(t, p, x, i)
           w == IndexName(u, p, x)
<1>1. i \in 1..(Len(t.kids[p]) + 1)
  <2>1. t.kids[p] \in Seq(Instances)
    BY DEF Woven, Trees, KidsType
  <2> QED
    BY <2>1
<1>2. i = Len(t.kids[p]) + 1
  OBVIOUS
<1> HIDE DEF i
<1>3. /\ u \in Trees /\ u.parent = [t.parent EXCEPT ![x] = p] /\ u.name = t.name /\ u.heard = t.heard
      /\ Matched(u.kids, u.parent) /\ i \in 1..Len(u.kids[p]) /\ u.kids[p][i] = x
      /\ Len(u.kids[p]) = Len(t.kids[p]) + 1 /\ Threaded(u, Lacking(u.kids, p, x))
  BY <1>1, LinkIs
<1> HIDE DEF u
<1>4. Alone(u.kids)
  <2>1. u.kids \in KidsType
    BY <1>3 DEF Trees
  <2> QED
    BY <1>3, <2>1, MatchedAlone
<1>5. w \in Trees /\ SameBut(u, w) /\ Threaded(w, w.kids)
  BY <1>2, <1>3, <1>4, IndexIs
<1> HIDE DEF w
<1>6. Woven(w) /\ w.parent = u.parent /\ w.name = u.name /\ w.heard = u.heard
  BY <1>3, <1>5 DEF Woven, SameBut
<1> QED
  BY <1>3, <1>6 DEF w, u, i

LEMMA PlacedIs ==
    ASSUME NEW t, Woven(t), NEW x \in Instances, t.parent[x] = Nil, NEW p \in Instances,
           NEW i \in 1..(Len(t.kids[p]) + 1)
    PROVE  LET w == IndexNameInChildOrder(LinkAt(t, p, x, i), p, x) IN
           Woven(w) /\ w.parent = [t.parent EXCEPT ![x] = p] /\ w.name = t.name /\ w.heard = t.heard
<1> DEFINE u == LinkAt(t, p, x, i)
           w == IndexNameInChildOrder(u, p, x)
<1>3. /\ u \in Trees /\ u.parent = [t.parent EXCEPT ![x] = p] /\ u.name = t.name /\ u.heard = t.heard
      /\ Matched(u.kids, u.parent) /\ i \in 1..Len(u.kids[p]) /\ u.kids[p][i] = x
      /\ Len(u.kids[p]) = Len(t.kids[p]) + 1 /\ Threaded(u, Lacking(u.kids, p, x))
  BY LinkIs
<1> HIDE DEF u
<1>4. Alone(u.kids)
  <2>1. u.kids \in KidsType
    BY <1>3 DEF Trees
  <2> QED
    BY <1>3, <2>1, MatchedAlone
<1>5. w \in Trees /\ SameBut(u, w) /\ Threaded(w, w.kids)
  BY <1>3, <1>4, IndexInOrderIs
<1> HIDE DEF w
<1>6. Woven(w) /\ w.parent = u.parent /\ w.name = u.name /\ w.heard = u.heard
  BY <1>3, <1>5 DEF Woven, SameBut
<1> QED
  BY <1>3, <1>6 DEF w, u

LEMMA RenamedIs ==
    ASSUME NEW t, Woven(t), NEW x \in Instances, NEW p \in Instances, p = t.parent[x], NEW n \in Names
    PROVE  LET w == IndexNameInChildOrder([UnindexName(t, p, x) EXCEPT !.name[x] = n], p, x) IN
           Woven(w) /\ w.parent = t.parent /\ w.kids = t.kids /\ w.heard = t.heard
<1> DEFINE u == UnindexName(t, p, x)
           v == [u EXCEPT !.name[x] = n]
           w == IndexNameInChildOrder(v, p, x)
           l == Lacking(t.kids, p, x)
<1>1. u \in Trees /\ SameBut(t, u) /\ Threaded(u, l)
  BY UnindexIs
<1>2. /\ t.kids \in KidsType /\ t.name \in [Instances -> Names] /\ Matched(t.kids, t.parent) /\ t.parent \in [Instances -> Spots]
  BY DEF Woven, Trees
<1>3. Alone(t.kids)
  BY <1>2, MatchedAlone
<1>4. PICK i \in 1..Len(t.kids[p]) : x = t.kids[p][i]
  BY <1>2, NilIs DEF Matched
<1>5. l \in KidsType /\ \A q \in Instances : \A j \in 1..Len(l[q]) : l[q][j] # x
  <2> DEFINE K == t.kids
  <2>1. K \in KidsType /\ Alone(K) /\ i \in 1..Len(K[p]) /\ x = K[p][i]
    BY <1>2, <1>3, <1>4
  <2> HIDE DEF K
  <2>4. LeftOf(K, x, Lacking(K, p, x))
    BY <2>1, LackingHas
  <2>2. \A q \in Instances : \A j \in 1..Len(Lacking(K, p, x)[q]) : Lacking(K, p, x)[q][j] # x
    BY <2>4 DEF LeftOf
  <2>3. Lacking(K, p, x) \in KidsType
    <3>1. Lacks(K, p, x, Lacking(K, p, x))
      BY <2>1, LackingAt
    <3> QED
      BY <3>1 DEF Lacks
  <2> QED
    BY <2>2, <2>3 DEF K
<1> HIDE DEF u, l
<1> DEFINE N == [t.name EXCEPT ![x] = n]
<1>6. N \in [Instances -> Names] /\ \A y \in Instances : y # x => N[y] = t.name[y]
  BY <1>2
<1>7. v = [u EXCEPT !.name = N]
  BY <1>1 DEF Trees, SameBut
<1> HIDE DEF N, v
<1>8. /\ v \in Trees /\ v.parent = t.parent /\ v.kids = t.kids /\ v.name = N /\ v.heard = t.heard /\ v.first = u.first
      /\ v.next = u.next
  BY <1>1, <1>6, <1>7 DEF Trees, SameBut
<1>9. RowsOf(l, N) = RowsOf(l, t.name)
  <2>1. \A q \in Instances : \A j \in 1..Len(l[q]) : l[q][j] \in Instances
    BY <1>5 DEF KidsType
  <2>2. \A q \in Instances : \A j \in 1..Len(l[q]) : N[l[q][j]] = t.name[l[q][j]]
    BY <1>5, <1>6, <2>1
  <2> QED
    BY <1>2, <1>5, <1>6, <2>2, RowsSame
<1>10. Threaded(v, Lacking(v.kids, p, x))
  BY <1>1, <1>8, <1>9 DEF Threaded, SameBut, l
<1>11. w \in Trees /\ SameBut(v, w) /\ Threaded(w, w.kids)
  <2>1. Alone(v.kids) /\ i \in 1..Len(v.kids[p]) /\ x = v.kids[p][i]
    BY <1>3, <1>4, <1>8
  <2> QED
    BY <1>8, <1>10, <2>1, IndexInOrderIs
<1> HIDE DEF w
<1>12. Woven(w) /\ w.parent = t.parent /\ w.kids = t.kids /\ w.heard = t.heard
  BY <1>2, <1>8, <1>11 DEF Woven, SameBut
<1> QED
  BY <1>12 DEF w, v, u

-----------------------------------------------------------------------------
(* Who has been told *)

Heard(t) ==
    \A a, d \in Instances : t.heard[<<a, d>>] = IF a \in Above(t.parent, d) \ {d} THEN 1 ELSE 0

\* Everything of a tree is right.
Fine(t) == Woven(t) /\ Rooted(t.parent) /\ Heard(t)

Counts(who, members, a, d) == IF a \in who /\ d \in members THEN 1 ELSE 0

LEMMA TellIs ==
    ASSUME NEW t, Woven(t), NEW who, NEW members, NEW count \in Int
    PROVE  LET w == Tell(t, who, members, count) IN
           /\ Woven(w) /\ w.parent = t.parent /\ w.kids = t.kids /\ w.name = t.name
           /\ \A a, d \in Instances :
                 w.heard[<<a, d>>] = IF a \in who /\ d \in members THEN t.heard[<<a, d>>] + count ELSE t.heard[<<a, d>>]
<1> DEFINE H == [e \in DOMAIN t.heard |-> IF e[1] \in who /\ e[2] \in members THEN t.heard[e] + count ELSE t.heard[e]]
           w == Tell(t, who, members, count)
<1>1. t \in Trees /\ t.heard \in [Instances \X Instances -> Int] /\ DOMAIN t.heard = Instances \X Instances
  BY DEF Woven, Trees
<1>2. \A e \in Instances \X Instances :
          H[e] = IF e[1] \in who /\ e[2] \in members THEN t.heard[e] + count ELSE t.heard[e]
  BY <1>1
<1>3. H \in [Instances \X Instances -> Int]
  BY <1>1
<1>4. w = [t EXCEPT !.heard = H]
  BY DEF Tell
<1> HIDE DEF H, w
<1>5. /\ w \in Trees /\ w.heard = H /\ w.parent = t.parent /\ w.kids = t.kids /\ w.name = t.name /\ w.first = t.first
      /\ w.next = t.next
  BY <1>1, <1>3, <1>4 DEF Trees
<1>6. Woven(w)
  BY <1>5 DEF Woven, Threaded
<1>7. ASSUME NEW a \in Instances, NEW d \in Instances
      PROVE  H[<<a, d>>] = IF a \in who /\ d \in members THEN t.heard[<<a, d>>] + count ELSE t.heard[<<a, d>>]
  <2>1. <<a, d>> \in Instances \X Instances /\ <<a, d>>[1] = a /\ <<a, d>>[2] = d
    OBVIOUS
  <2> DEFINE e == <<a, d>>
  <2>2. e \in Instances \X Instances /\ e[1] = a /\ e[2] = d
    BY <2>1
  <2> HIDE DEF e
  <2>3. H[e] = IF a \in who /\ d \in members THEN t.heard[e] + count ELSE t.heard[e]
    BY <1>2, <2>2
  <2> QED
    BY <2>3 DEF e
<1> QED
  BY <1>5, <1>6, <1>7 DEF w

\* What the subtree was under and is under, and what it takes with it.
Shifted(parent, x, p, to) ==
    /\ \A a \in Instances : \A d \in Under(parent, x) :
           /\ a \in Above(parent, d) <=> \/ a \in Above(parent, d) /\ a \in Under(parent, x)
                                         \/ a \in Above(parent, parent[x])
           /\ a \in Above(to, d) <=> \/ a \in Above(parent, d) /\ a \in Under(parent, x)
                                     \/ a \in Above(parent, p)
           /\ d \notin Above(parent, parent[x]) /\ d \notin Above(parent, p)
           /\ a \in Under(parent, x) => a \notin Above(parent, parent[x]) /\ a \notin Above(parent, p)
    /\ \A a \in Instances : \A d \in Instances \ Under(parent, x) : a \in Above(to, d) <=> a \in Above(parent, d)

LEMMA UnderMoved ==
    ASSUME NEW parent, NEW x, NEW p, NEW to, Moves(parent, x, p, to)
    PROVE  /\ to \in [Instances -> Spots] /\ Rooted(to) /\ Above(to, p) = Above(parent, p)
           /\ Shifted(parent, x, p, to)
<1>0. /\ parent \in [Instances -> Spots] /\ Rooted(parent) /\ x \in Instances /\ p \in Spots
      /\ x \notin Above(parent, p) /\ to = [parent EXCEPT ![x] = p]
  BY DEF Moves
<1> USE <1>0
<1> DEFINE old == parent[x]
<1>1. to \in [Instances -> Spots] /\ Rooted(to)
  BY MovedRooted
<1>2. /\ Above(to, Nil) = {}
      /\ \A d \in Instances : x \notin Above(parent, d) => Above(to, d) = Above(parent, d)
      /\ \A d \in Under(parent, x) : Above(to, d) = (Above(parent, d) \cap Under(parent, x)) \cup Above(parent, p)
  <2>1. MovedTo(parent, x, p, to)
    BY MovedAbove
  <2> QED
    BY <2>1 DEF MovedTo
<1>3. Above(to, p) = Above(parent, p)
  BY <1>2, AboveIs DEF Spots
<1>4. old \in Spots /\ x \notin Above(parent, old) /\ parent = [parent EXCEPT ![x] = old]
  BY NotAboveItself
<1>5. \A d \in Under(parent, x) : Above(parent, d) = (Above(parent, d) \cap Under(parent, x)) \cup Above(parent, old)
  <2>1. Moves(parent, x, old, parent)
    BY <1>4 DEF Moves
  <2>2. MovedTo(parent, x, old, parent)
    BY <2>1, MovedAbove
  <2> QED
    BY <2>2 DEF MovedTo
<1>6. ASSUME NEW q \in Spots, x \notin Above(parent, q), NEW a \in Under(parent, x) PROVE a \notin Above(parent, q)
  <2> SUFFICES ASSUME a \in Above(parent, q) PROVE FALSE
    OBVIOUS
  <2>1. Above(parent, a) \subseteq Above(parent, q)
    BY <1>6, AboveAbove
  <2> QED
    BY <1>6, <2>1 DEF Under
<1>7. \A a \in Under(parent, x) : a \notin Above(parent, old) /\ a \notin Above(parent, p)
  BY <1>4, <1>6
<1>8. \A d \in Instances \ Under(parent, x) : Above(to, d) = Above(parent, d)
  BY <1>2 DEF Under
<1> QED
  BY <1>1, <1>2, <1>3, <1>5, <1>7, <1>8 DEF Shifted

LEMMA MovedIs ==
    ASSUME NEW t, Woven(t), Rooted(t.parent), NEW x \in Instances
    PROVE  /\ Walk(Subtree(t, x), t.parent, x) /\ Subtree(t, x) \in Seq(Instances)
           /\ ToSet(Subtree(t, x)) = Under(t.parent, x)
<1> DEFINE K == t.kids
           Q == t.parent
           b == Below(K, x)
<1>1. K \in [Instances -> Seq(Instances)] /\ Q \in [Instances -> Spots] /\ Rooted(Q) /\ Matched(K, Q)
  BY DEF Woven, Trees, KidsType
<1>2. Subtree(t, x) = b
  BY SubtreeIs
<1> HIDE DEF K, Q
<1>3. Walk(b, Q, x) /\ b \in Seq(Instances)
  BY <1>1, BelowMembers, BelowType
<1> HIDE DEF b
<1>4. ToSet(b) = Under(Q, x)
  BY <1>3 DEF ToSet, Walk
<1> QED
  BY <1>2, <1>3, <1>4 DEF Q

LEMMA ReparentIs ==
    ASSUME NEW t, Fine(t), NEW x \in Instances, NEW p \in Spots, x \notin Above(t.parent, p), t.parent[x] \notin retired
    PROVE  LET w == Reparent(t, x, p) IN Fine(w) /\ w.parent = [t.parent EXCEPT ![x] = p] /\ w.name = t.name
<1> DEFINE old == t.parent[x]
           moved == ToSet(Subtree(t, x))
           U == Under(t.parent, x)
           out == IF old = Nil THEN t
                  ELSE Tell(UnlinkChild(UnindexName(t, old, x), x), Chain(t, old), moved, -1)
           in == IF p = Nil THEN [out EXCEPT !.parent[x] = Nil]
                 ELSE IndexName(LinkAt(out, p, x, Len(out.kids[p]) + 1), p, x)
           w == Tell(in, Chain(in, p), moved, 1)
           to == [t.parent EXCEPT ![x] = p]
<1>1. /\ Woven(t) /\ Rooted(t.parent) /\ Heard(t) /\ t \in Trees /\ Matched(t.kids, t.parent)
      /\ t.parent \in [Instances -> Spots] /\ t.kids \in [Instances -> Seq(Instances)]
      /\ t.heard \in [Instances \X Instances -> Int]
  BY DEF Fine, Woven, Trees, KidsType
<1>2. moved = U
  BY <1>1, MovedIs
<1>3. old \in Spots
  BY <1>1
<1>4. \A y \in Spots : Chain(t, y) = Above(t.parent, y)
  BY ChainIs
<1> HIDE DEF moved
<1>5. /\ Woven(out) /\ out.parent = [t.parent EXCEPT ![x] = Nil] /\ out.name = t.name
      /\ \A a, d \in Instances :
            out.heard[<<a, d>>] = t.heard[<<a, d>>] - Counts(Above(t.parent, old), U, a, d)
  <2>1. CASE old = Nil
    <3>1. out = t /\ Above(t.parent, old) = {}
      BY <1>1, <2>1, AboveIs
    <3>2. [t.parent EXCEPT ![x] = Nil] = t.parent
      BY <1>1, <2>1
    <3>3. \A a, d \in Instances : <<a, d>> \in Instances \X Instances /\ t.heard[<<a, d>>] \in Int
      BY <1>1
    <3>5. \A a, d : Counts(Above(t.parent, old), U, a, d) = 0
      BY <3>1 DEF Counts
    <3> HIDE DEF U
    <3>4. ASSUME NEW a \in Instances, NEW d \in Instances
          PROVE  t.heard[<<a, d>>] = t.heard[<<a, d>>] - Counts(Above(t.parent, old), U, a, d)
      <4> DEFINE h == t.heard[<<a, d>>]
      <4>1. h \in Int
        BY <3>3
      <4> HIDE DEF h
      <4>2. h = h - Counts(Above(t.parent, old), U, a, d)
        BY <3>5, <4>1
      <4> QED
        BY <4>2 DEF h
    <3> QED
      BY <1>1, <3>1, <3>2, <3>4
  <2>2. CASE old # Nil
    <3> DEFINE v == UnlinkChild(UnindexName(t, old, x), x)
    <3>1. old \in Instances
      BY <1>3, <2>2 DEF Spots
    <3>2. Woven(v) /\ v.parent = [t.parent EXCEPT ![x] = Nil] /\ v.name = t.name /\ v.heard = t.heard
      BY <1>1, <3>1, OutIs
    <3>3. out = Tell(v, Above(t.parent, old), U, -1)
      BY <1>2, <1>3, <1>4, <2>2
    <3> HIDE DEF v, out
    <3>4. /\ Woven(out) /\ out.parent = v.parent /\ out.kids = v.kids /\ out.name = v.name
          /\ \A a, d \in Instances :
                out.heard[<<a, d>>] = IF a \in Above(t.parent, old) /\ d \in U THEN v.heard[<<a, d>>] + (-1)
                                      ELSE v.heard[<<a, d>>]
      BY <3>2, <3>3, TellIs
    <3>5. \A a, d \in Instances : t.heard[<<a, d>>] \in Int
      BY <1>1
    <3> HIDE DEF U
    <3>6. ASSUME NEW a \in Instances, NEW d \in Instances
          PROVE  out.heard[<<a, d>>] = t.heard[<<a, d>>] - Counts(Above(t.parent, old), U, a, d)
      <4> DEFINE h == t.heard[<<a, d>>]
                 g == out.heard[<<a, d>>]
      <4>1. h \in Int /\ g = IF a \in Above(t.parent, old) /\ d \in U THEN h + (-1) ELSE h
        BY <3>2, <3>4, <3>5
      <4> HIDE DEF h, g
      <4>2. g = h - Counts(Above(t.parent, old), U, a, d)
        BY <4>1 DEF Counts
      <4> QED
        BY <4>2 DEF h, g
    <3> QED
      BY <3>2, <3>4, <3>6
  <2> QED
    BY <2>1, <2>2
<1> HIDE DEF out
<1>6. out.parent[x] = Nil
  BY <1>1, <1>5
<1>7. /\ Woven(in) /\ in.parent = to /\ in.name = t.name /\ in.heard = out.heard
  <2>1. CASE p = Nil
    <3>1. in = [out EXCEPT !.parent[x] = Nil]
      BY <2>1
    <3>2. out \in Trees
      BY <1>5 DEF Woven
    <3>3. [out.parent EXCEPT ![x] = Nil] = out.parent
      BY <1>6, <3>2 DEF Trees
    <3>4. in = out
      BY <3>1, <3>2, <3>3 DEF Trees
    <3> QED
      BY <1>5, <2>1, <3>4
  <2>2. CASE p # Nil
    <3>1. p \in Instances
      BY <2>2 DEF Spots
    <3>2. in = IndexName(LinkAt(out, p, x, Len(out.kids[p]) + 1), p, x)
      BY <2>2
    <3> HIDE DEF in
    <3>5. Woven(out) /\ out.parent[x] = Nil
      BY <1>5, <1>6
    <3>6. LET v == IndexName(LinkAt(out, p, x, Len(out.kids[p]) + 1), p, x) IN
          Woven(v) /\ v.parent = [out.parent EXCEPT ![x] = p] /\ v.name = out.name /\ v.heard = out.heard
      BY <3>5, <3>1, AppendedIs
    <3>3. Woven(in) /\ in.parent = [out.parent EXCEPT ![x] = p] /\ in.name = out.name /\ in.heard = out.heard
      BY <3>6, <3>2
    <3>4. [out.parent EXCEPT ![x] = p] = to
      BY <1>1, <1>5
    <3> QED
      BY <1>5, <3>3, <3>4
  <2> QED
    BY <2>1, <2>2
<1> HIDE DEF in, to, old
<1>8. to = [t.parent EXCEPT ![x] = p] /\ old = t.parent[x]
  BY DEF to, old
<1>9a. Moves(t.parent, x, p, to)
  BY <1>1, <1>8 DEF Moves
<1>9b. to \in [Instances -> Spots] /\ Rooted(to) /\ Above(to, p) = Above(t.parent, p) /\ Shifted(t.parent, x, p, to)
  BY <1>9a, UnderMoved
<1>9. /\ to \in [Instances -> Spots] /\ Rooted(to) /\ Above(to, p) = Above(t.parent, p)
      /\ \A a \in Instances : \A d \in U :
             /\ a \in Above(t.parent, d) <=> \/ a \in Above(t.parent, d) /\ a \in U
                                             \/ a \in Above(t.parent, old)
             /\ a \in Above(to, d) <=> \/ a \in Above(t.parent, d) /\ a \in U
                                       \/ a \in Above(t.parent, p)
             /\ d \notin Above(t.parent, old) /\ d \notin Above(t.parent, p)
             /\ a \in U => a \notin Above(t.parent, old) /\ a \notin Above(t.parent, p)
      /\ \A a \in Instances : \A d \in Instances \ U : a \in Above(to, d) <=> a \in Above(t.parent, d)
  BY <1>9b, <1>8 DEF Shifted
<1> HIDE DEF U
<1>10. /\ Woven(w) /\ w.parent = to /\ w.name = t.name
       /\ \A a, d \in Instances :
             w.heard[<<a, d>>] = IF a \in Above(t.parent, p) /\ d \in U THEN in.heard[<<a, d>>] + 1 ELSE in.heard[<<a, d>>]
  <2>1. w = Tell(in, Above(t.parent, p), U, 1)
    BY <1>2, <1>7, <1>9, ChainIs
  <2> HIDE DEF w
  <2> QED
    BY <1>7, <2>1, TellIs
<1> HIDE DEF w
<1>11. Heard(w)
  <2> SUFFICES ASSUME NEW a \in Instances, NEW d \in Instances
               PROVE  w.heard[<<a, d>>] = IF a \in Above(to, d) \ {d} THEN 1 ELSE 0
    BY <1>10 DEF Heard
  <2> DEFINE h == t.heard[<<a, d>>]
             g == w.heard[<<a, d>>]
  <2>1. h = IF a \in Above(t.parent, d) \ {d} THEN 1 ELSE 0
    BY <1>1 DEF Heard
  <2>2. in.heard[<<a, d>>] = h - Counts(Above(t.parent, old), U, a, d)
    BY <1>5, <1>7 DEF old
  <2>3. g = (IF a \in Above(t.parent, p) /\ d \in U THEN (h - Counts(Above(t.parent, old), U, a, d)) + 1
             ELSE h - Counts(Above(t.parent, old), U, a, d))
    BY <1>10, <2>2
  <2> HIDE DEF h, g
  <2>4. g = IF a \in Above(to, d) \ {d} THEN 1 ELSE 0
    <3>1. CASE d \notin U
      <4>1. g = h
        BY <2>1, <2>3, <3>1 DEF Counts
      <4>2. a \in Above(to, d) <=> a \in Above(t.parent, d)
        BY <1>9, <3>1
      <4> QED
        BY <2>1, <4>1, <4>2
    <3>2. CASE d \in U
      <4>1. /\ a \in Above(t.parent, d) <=> \/ a \in Above(t.parent, d) /\ a \in U
                                            \/ a \in Above(t.parent, old)
            /\ a \in Above(to, d) <=> \/ a \in Above(t.parent, d) /\ a \in U
                                      \/ a \in Above(t.parent, p)
            /\ d \notin Above(t.parent, old) /\ d \notin Above(t.parent, p)
            /\ a \in U => a \notin Above(t.parent, old) /\ a \notin Above(t.parent, p)
        BY <1>9, <3>2
      <4> QED
        BY <2>1, <2>3, <3>2, <4>1 DEF Counts
    <3> QED
      BY <3>1, <3>2
  <2> QED
    BY <2>4 DEF g
<1>12. Fine(w)
  BY <1>9, <1>10, <1>11 DEF Fine
<1>13. CASE old = p
  <2>1. Reparent(t, x, p) = t
    BY <1>13 DEF Reparent, old
  <2>2. [t.parent EXCEPT ![x] = p] = t.parent
    BY <1>1, <1>8, <1>13
  <2> QED
    BY <2>1, <2>2
<1>14. CASE old # p
  <2>1. Reparent(t, x, p) = w
    BY <1>14 DEF Reparent, w, in, out, old, moved
  <2> QED
    BY <1>8, <1>10, <1>12, <2>1
<1> QED
  BY <1>13, <1>14

-----------------------------------------------------------------------------
\* An instance that has no parent is in no list: its name may change.
LEMMA NamedAgain ==
    ASSUME NEW t, Fine(t), NEW name \in [Instances -> Names], \A y \in Instances : name[y] # t.name[y] => t.parent[y] = Nil
    PROVE  LET w == [t EXCEPT !.name = name] IN Fine(w) /\ w.parent = t.parent
<1> DEFINE w == [t EXCEPT !.name = name]
<1>1. /\ Woven(t) /\ Rooted(t.parent) /\ Heard(t) /\ t \in Trees /\ Matched(t.kids, t.parent) /\ t.kids \in KidsType
      /\ t.name \in [Instances -> Names] /\ Threaded(t, t.kids) /\ t.kids \in [Instances -> Seq(Instances)]
  BY DEF Fine, Woven, Trees, KidsType
<1>2. /\ w \in Trees /\ w.name = name /\ w.parent = t.parent /\ w.kids = t.kids /\ w.heard = t.heard
      /\ w.first = t.first /\ w.next = t.next
  BY <1>1 DEF Trees
<1> HIDE DEF w
<1>3. ASSUME NEW q \in Instances, NEW j \in 1..Len(t.kids[q]) PROVE name[t.kids[q][j]] = t.name[t.kids[q][j]]
  <2>1. t.kids[q] \in Seq(Instances)
    BY <1>1
  <2>2. t.kids[q][j] \in Instances
    BY <2>1
  <2>3. t.parent[t.kids[q][j]] = q
    BY <1>1 DEF Matched
  <2> QED
    BY <2>2, <2>3, NilIs
<1>4. RowsOf(t.kids, name) = RowsOf(t.kids, t.name)
  BY <1>1, <1>3, RowsSame
<1>5. Threaded(w, w.kids)
  BY <1>1, <1>2, <1>4 DEF Threaded
<1>6. Woven(w) /\ Heard(w)
  BY <1>1, <1>2, <1>5 DEF Woven, Heard
<1> QED
  BY <1>1, <1>2, <1>6 DEF Fine, w

-----------------------------------------------------------------------------
(* One after the other is detached *)

Detaches(t, members, n, f) == f = [i \in 0..n |-> IF i = 0 THEN t ELSE Reparent(f[i - 1], members[i], Nil)]

LEMMA DetachExists ==
    ASSUME NEW t, NEW members
    PROVE  \A n \in Nat : \E f : Detaches(t, members, n, f)
<1> DEFINE Q == {n \in Nat : \E f : Detaches(t, members, n, f)}
<1>1. 0 \in Q
  <2>1. Detaches(t, members, 0, [i \in 0..0 |-> t])
    BY DEF Detaches
  <2> QED
    BY <2>1
<1>2. ASSUME NEW n \in Nat, n \in Q PROVE n + 1 \in Q
  <2>1. PICK f : Detaches(t, members, n, f)
    BY <1>2
  <2> DEFINE g == [i \in 0..(n + 1) |-> IF i = n + 1 THEN Reparent(f[n], members[n + 1], Nil) ELSE f[i]]
             h == [i \in 0..(n + 1) |-> IF i = 0 THEN t ELSE Reparent(g[i - 1], members[i], Nil)]
  <2>2. ASSUME NEW i \in 0..(n + 1) PROVE g[i] = h[i]
    <3>1. CASE i = 0
      <4>1. f[0] = t
        BY <2>1 DEF Detaches
      <4> QED
        BY <3>1, <4>1
    <3>2. CASE i = n + 1
      <4>1. (n + 1) - 1 = n /\ n \in 0..(n + 1) /\ n # n + 1 /\ n + 1 \in 0..(n + 1) /\ n + 1 # 0
        OBVIOUS
      <4>2. g[n] = f[n] /\ g[n + 1] = Reparent(f[n], members[n + 1], Nil)
        BY <4>1
      <4>3. h[n + 1] = Reparent(g[n], members[n + 1], Nil)
        BY <4>1
      <4> QED
        BY <3>2, <4>2, <4>3
    <3>3. CASE i # 0 /\ i # n + 1
      <4>1. i \in 0..n /\ i - 1 \in 0..(n + 1) /\ i - 1 # n + 1
        BY <3>3
      <4>2. f[i] = Reparent(f[i - 1], members[i], Nil)
        BY <2>1, <3>3, <4>1 DEF Detaches
      <4>3. g[i] = f[i] /\ g[i - 1] = f[i - 1]
        BY <3>3, <4>1
      <4>4. h[i] = Reparent(g[i - 1], members[i], Nil)
        BY <3>3
      <4> QED
        BY <4>2, <4>3, <4>4
    <3> QED
      BY <3>1, <3>2, <3>3
  <2>3. g = h
    BY <2>2
  <2>4. Detaches(t, members, n + 1, g)
    BY <2>3 DEF Detaches
  <2> QED
    BY <2>4
<1> HIDE DEF Q
<1>3. \A n \in Nat : n \in Q
  BY <1>1, <1>2, AllNumbers
<1> QED
  BY <1>3 DEF Q

Detached(parent, gone) == [y \in Instances |-> IF y \in gone THEN Nil ELSE parent[y]]

LEMMA DetachAllIs ==
    ASSUME NEW t, Fine(t), NEW members \in Seq(Instances), \A y \in Instances : t.parent[y] \notin retired,
           Nil \notin retired
    PROVE  LET w == DetachAll(t, members) IN Fine(w) /\ w.parent = Detached(t.parent, ToSet(members))
<1> DEFINE L == Len(members)
           f == CHOOSE f : Detaches(t, members, L, f)
           First(i) == {members[k] : k \in 1..i}
<1>1. L \in Nat /\ DOMAIN members = 1..L /\ \A i \in 1..L : members[i] \in Instances
  OBVIOUS
<1>2. Detaches(t, members, L, f)
  BY <1>1, DetachExists
<1>3. DetachAll(t, members) = f[L]
  BY DEF DetachAll, Detaches
<1> HIDE DEF L, f
<1>4. f[0] = t /\ \A i \in 1..L : f[i] = Reparent(f[i - 1], members[i], Nil)
  BY <1>1, <1>2 DEF Detaches
<1> DEFINE Q == {i \in Nat : i <= L => Fine(f[i]) /\ f[i].parent = Detached(t.parent, First(i))}
<1>5. 0 \in Q
  <2>1. First(0) = {}
    OBVIOUS
  <2>2. t.parent \in [Instances -> Spots]
    BY DEF Fine, Woven, Trees
  <2>3. Detached(t.parent, {}) = t.parent
    BY <2>2 DEF Detached
  <2> QED
    BY <1>4, <2>1, <2>3
<1>6. ASSUME NEW i \in Nat, i \in Q PROVE i + 1 \in Q
  <2> SUFFICES ASSUME i + 1 <= L
               PROVE  Fine(f[i + 1]) /\ f[i + 1].parent = Detached(t.parent, First(i + 1))
    OBVIOUS
  <2>1. i + 1 \in 1..L /\ (i + 1) - 1 = i /\ i <= L
    BY <1>1
  <2>2. Fine(f[i]) /\ f[i].parent = Detached(t.parent, First(i))
    BY <1>6, <2>1
  <2>3. First(i + 1) = First(i) \cup {members[i + 1]}
    <3>1. 1..(i + 1) = (1..i) \cup {i + 1}
      OBVIOUS
    <3> QED
      BY <3>1
  <2> DEFINE v == f[i]
             m == members[i + 1]
             D == First(i)
  <2>4. Fine(v) /\ v.parent = Detached(t.parent, D) /\ m \in Instances /\ First(i + 1) = D \cup {m}
        /\ f[i + 1] = Reparent(v, m, Nil)
    BY <1>1, <1>4, <2>1, <2>2, <2>3
  <2> HIDE DEF v, m, D, First
  <2>5. v.parent \in [Instances -> Spots]
    BY <2>4 DEF Fine, Woven, Trees
  <2>6. Nil \in Spots /\ m \notin Above(v.parent, Nil)
    BY <2>5, AboveIs DEF Spots
  <2>7. v.parent[m] \notin retired
    BY <2>4 DEF Detached
  <2>8. LET w == Reparent(v, m, Nil) IN Fine(w) /\ w.parent = [v.parent EXCEPT ![m] = Nil] /\ w.name = v.name
    BY <2>4, <2>6, <2>7, ReparentIs
  <2>9. [v.parent EXCEPT ![m] = Nil] = Detached(t.parent, D \cup {m})
    BY <2>4 DEF Detached
  <2> QED
    BY <2>4, <2>8, <2>9
<1> HIDE DEF Q
<1>7. L \in Q
  BY <1>1, <1>5, <1>6, AllNumbers
<1>8. First(L) = ToSet(members)
  BY <1>1 DEF ToSet
<1>9. Fine(f[L]) /\ f[L].parent = Detached(t.parent, First(L))
  BY <1>1, <1>7 DEF Q
<1> HIDE DEF First
<1> QED
  BY <1>3, <1>8, <1>9

-----------------------------------------------------------------------------
(* One after the other is put under the copy of its parent *)

Builds(members, n, f) ==
    f = [i \in 1..n |-> IF i = 1 THEN Born(members)
                        ELSE Reparent(f[i - 1], made + i, CopyOf(members, tree.parent[members[i]]))]

LEMMA BuildExists ==
    ASSUME NEW members
    PROVE  \A n \in Nat : \E f : Builds(members, n, f)
<1> DEFINE Q == {n \in Nat : \E f : Builds(members, n, f)}
           Added(v, i) == Reparent(v, made + i, CopyOf(members, tree.parent[members[i]]))
<1>1. 0 \in Q
  <2>1. Builds(members, 0, [i \in 1..0 |-> 0])
    BY DEF Builds
  <2> QED
    BY <2>1
<1>2. ASSUME NEW n \in Nat, n \in Q PROVE n + 1 \in Q
  <2>1. PICK f : Builds(members, n, f)
    BY <1>2
  <2> DEFINE B == Born(members)
  <2>5. f = [i \in 1..n |-> IF i = 1 THEN B ELSE Added(f[i - 1], i)]
    BY <2>1 DEF Builds
  <2> DEFINE g == [i \in 1..(n + 1) |-> IF i = 1 THEN B ELSE IF i = n + 1 THEN Added(f[n], i) ELSE f[i]]
             h == [i \in 1..(n + 1) |-> IF i = 1 THEN B ELSE Added(g[i - 1], i)]
  <2> HIDE DEF Added, B
  <2>2. ASSUME NEW i \in 1..(n + 1) PROVE g[i] = h[i]
    <3>1. CASE i = 1
      BY <3>1
    <3>2. CASE i = n + 1 /\ i # 1
      <4>1. (n + 1) - 1 = n /\ n \in 1..(n + 1) /\ n \in 1..n /\ n # n + 1 /\ n + 1 \in 1..(n + 1) /\ n + 1 # 1
        BY <3>2
      <4>2. g[n] = f[n]
        BY <2>5, <4>1
      <4>3. g[n + 1] = Added(f[n], n + 1)
        BY <4>1
      <4>4. h[n + 1] = Added(g[n], n + 1)
        BY <4>1
      <4> QED
        BY <3>2, <4>2, <4>3, <4>4
    <3>3. CASE i # 1 /\ i # n + 1
      <4>1. i \in 1..n /\ i - 1 \in 1..(n + 1) /\ i - 1 \in 1..n /\ i - 1 # n + 1
        BY <3>3
      <4>2. f[i] = Added(f[i - 1], i)
        BY <2>5, <3>3, <4>1
      <4>3. g[i] = f[i]
        BY <3>3, <4>1
      <4>4. g[i - 1] = f[i - 1]
        BY <2>5, <4>1
      <4>5. h[i] = Added(g[i - 1], i)
        BY <3>3
      <4> QED
        BY <4>2, <4>3, <4>4, <4>5
    <3> QED
      BY <3>1, <3>2, <3>3
  <2>3. g = h
    BY <2>2
  <2>4. Builds(members, n + 1, g)
    BY <2>3 DEF Builds, Added, B
  <2> QED
    BY <2>4
<1> HIDE DEF Q
<1>3. \A n \in Nat : n \in Q
  BY <1>1, <1>2, AllNumbers
<1> QED
  BY <1>3 DEF Q

-----------------------------------------------------------------------------
(* Copies *)

\* Who of the copies, numbered after m, has a parent, has the copy of the parent.
Mirrors(parent, members, m, to) ==
    /\ parent \in [Instances -> Spots] /\ to \in [Instances -> Spots] /\ Rooted(to)
    /\ m \in Nat /\ Len(members) \in Nat /\ m + Len(members) <= MaxInstances
    /\ \A k \in 1..Len(members) : members[k] \in Instances
    /\ \A k \in 1..Len(members) : to[m + k] # Nil =>
           \E j \in 1..Len(members) : to[m + k] = m + j /\ members[j] = parent[members[k]]

\* Above a copy are copies of who is above.
LEMMA MirrorAbove ==
    ASSUME NEW parent, NEW members, NEW m, NEW to, Mirrors(parent, members, m, to), NEW k \in 1..Len(members),
           NEW y \in Above(to, m + k)
    PROVE  \E j \in 1..Len(members) : y = m + j /\ members[j] \in Above(parent, members[k])
<1> DEFINE L == Len(members)
           Good(i) == \A z \in Above(to, m + i) : \E j \in 1..L : z = m + j /\ members[j] \in Above(parent, members[i])
           Odd == {x \in Instances : \E i \in 1..L : x = m + i /\ ~ Good(i)}
<1>1. /\ parent \in [Instances -> Spots] /\ to \in [Instances -> Spots] /\ Rooted(to)
      /\ m \in Nat /\ L \in Nat /\ m + L <= MaxInstances /\ MaxInstances \in Nat
      /\ \A i \in 1..L : members[i] \in Instances
      /\ \A i \in 1..L : to[m + i] # Nil => \E j \in 1..L : to[m + i] = m + j /\ members[j] = parent[members[i]]
  BY WorldAssumption DEF Mirrors
<1> HIDE DEF L
<1>2. \A i \in 1..L : m + i \in Instances
  BY <1>1 DEF Instances
<1> HIDE DEF Good, Odd
<1>3. Odd = {}
  <2> SUFFICES ASSUME Odd # {} PROVE FALSE
    OBVIOUS
  <2>1. Odd \in SUBSET Instances
    BY DEF Odd
  <2>2. PICK x \in Odd : to[x] \notin Odd
    BY <1>1, <2>1 DEF Rooted
  <2>3. PICK i \in 1..L : x = m + i /\ ~ Good(i)
    BY <2>2 DEF Odd
  <2>4. Above(to, x) = {x} \cup Above(to, to[x]) /\ Above(to, Nil) = {}
    BY <1>1, <2>1, <2>2, AboveIs
  <2>5. Above(parent, members[i]) = {members[i]} \cup Above(parent, parent[members[i]])
    BY <1>1, AboveIs
  <2>6. CASE to[x] = Nil
    <3>1. \A z \in Above(to, m + i) : z = m + i
      BY <2>3, <2>4, <2>6
    <3> QED
      BY <2>3, <2>5, <3>1 DEF Good
  <2>7. CASE to[x] # Nil
    <3>1. PICK j \in 1..L : to[x] = m + j /\ members[j] = parent[members[i]]
      BY <1>1, <2>3, <2>7
    <3>2. Good(j)
      BY <1>2, <2>2, <3>1 DEF Odd
    <3>3. ASSUME NEW z \in Above(to, m + i) PROVE \E q \in 1..L : z = m + q /\ members[q] \in Above(parent, members[i])
      <4>1. CASE z = m + i
        BY <2>5, <4>1
      <4>2. CASE z # m + i
        <5>1. z \in Above(to, m + j)
          BY <2>3, <2>4, <3>1, <4>2
        <5>2. PICK q \in 1..L : z = m + q /\ members[q] \in Above(parent, members[j])
          BY <3>2, <5>1 DEF Good
        <5> QED
          BY <2>5, <3>1, <5>2
      <4> QED
        BY <4>1, <4>2
    <3> QED
      BY <2>3, <3>3 DEF Good
  <2> QED
    BY <2>6, <2>7
<1>4. Good(k)
  BY <1>2, <1>3 DEF Odd, L
<1> QED
  BY <1>4 DEF Good, L

-----------------------------------------------------------------------------
\* What the copies are made from and where: the members are living, and each but
\* the first has its parent among them.
Cloning(members) ==
    /\ Fine(tree) /\ made \in Nat /\ members \in Seq(Instances)
    /\ Len(members) >= 1 /\ made + Len(members) <= MaxInstances
    /\ \A i \in 2..Len(members) : \E j \in 1..Len(members) : members[j] = tree.parent[members[i]]
    /\ \A y \in Instances : tree.parent[y] <= made /\ (tree.parent[y] # Nil => y <= made)
    /\ \A y \in Instances : tree.parent[y] \notin retired
    /\ retired \subseteq 1..made

\* The parents when i of them are placed.
Put(members, i) ==
    [y \in Instances |-> IF y \in (made + 2)..(made + i) THEN CopyOf(members, tree.parent[members[y - made]])
                         ELSE tree.parent[y]]

LEMMA CloningIs ==
    ASSUME NEW members, Cloning(members)
    PROVE  /\ made \in Nat /\ Len(members) \in Nat /\ MaxInstances \in Nat
           /\ Len(members) >= 1 /\ made + Len(members) <= MaxInstances
           /\ DOMAIN members = 1..Len(members)
           /\ \A i \in 1..Len(members) : members[i] \in Instances /\ made + i \in Instances
           /\ tree.parent \in [Instances -> Spots] /\ tree.name \in [Instances -> Names]
           /\ Rooted(tree.parent)
  BY WorldAssumption DEF Cloning, Fine, Woven, Trees, Instances

LEMMA CopyOfIs ==
    ASSUME NEW members, Cloning(members), NEW i \in 2..Len(members)
    PROVE  \E j \in 1..Len(members) :
              CopyOf(members, tree.parent[members[i]]) = made + j /\ members[j] = tree.parent[members[i]]
<1>1. \E j \in DOMAIN members : members[j] = tree.parent[members[i]]
  BY CloningIs DEF Cloning
<1> QED
  BY <1>1, CloningIs DEF CopyOf

LEMMA BornIs ==
    ASSUME NEW members, Cloning(members)
    PROVE  /\ Fine(Born(members)) /\ Born(members).parent = Put(members, 1)
           /\ \A y \in 1..made : y \in Instances => Born(members).name[y] = tree.name[y]
           /\ \A i \in 1..Len(members) : Born(members).name[made + i] = tree.name[members[i]]
<1> DEFINE N == [y \in Instances |-> IF y \in Copies(members) THEN tree.name[members[y - made]] ELSE tree.name[y]]
           L == Len(members)
<1>1. /\ made \in Nat /\ L \in Nat /\ DOMAIN members = 1..L
      /\ \A i \in 1..L : members[i] \in Instances /\ made + i \in Instances
      /\ tree.parent \in [Instances -> Spots] /\ tree.name \in [Instances -> Names]
  BY CloningIs
<1>2. \A y \in Copies(members) : y - made \in 1..L /\ members[y - made] \in Instances
  BY <1>1 DEF Copies
<1>3. N \in [Instances -> Names]
  BY <1>1, <1>2
<1>4. tree \in Trees /\ Fine(tree)
  BY DEF Cloning, Fine, Woven
<1>5. Born(members) = [tree EXCEPT !.name = N]
  BY <1>1, <1>4 DEF Born, Trees
<1>6. ASSUME NEW y \in Instances, N[y] # tree.name[y] PROVE tree.parent[y] = Nil
  <2>1. y \in Copies(members)
    BY <1>6
  <2>2. ~(y <= made)
    BY <1>1, <2>1 DEF Copies
  <2> QED
    BY <2>2 DEF Cloning
<1>7. Put(members, 1) = tree.parent
  <2>1. \A y \in Instances : y \notin (made + 2)..(made + 1)
    BY <1>1
  <2> QED
    BY <1>1, <2>1 DEF Put
<1>8. \A y \in 1..made : y \in Instances => N[y] = tree.name[y]
  BY <1>1 DEF Copies
<1>9. ASSUME NEW i \in 1..L PROVE N[made + i] = tree.name[members[i]]
  <2>1. made + i \in Copies(members) /\ made + i \in Instances /\ (made + i) - made = i
    BY <1>1 DEF Copies
  <2> QED
    BY <2>1
<1> HIDE DEF N, L
<1>10. LET w == [tree EXCEPT !.name = N] IN Fine(w) /\ w.parent = tree.parent
  BY <1>3, <1>4, <1>6, NamedAgain
<1>11. Born(members).name = N
  BY <1>4, <1>5 DEF Trees
<1> QED
  BY <1>5, <1>7, <1>8, <1>9, <1>10, <1>11 DEF L

\* Nobody is put under itself.
LEMMA PutAbove ==
    ASSUME NEW members, Cloning(members), NEW i \in 2..Len(members), Rooted(Put(members, i - 1))
    PROVE  made + i \notin Above(Put(members, i - 1), CopyOf(members, tree.parent[members[i]]))
<1> DEFINE L == Len(members)
           to == Put(members, i - 1)
           p == CopyOf(members, tree.parent[members[i]])
<1>1. /\ made \in Nat /\ L \in Nat /\ DOMAIN members = 1..L /\ made + L <= MaxInstances /\ MaxInstances \in Nat
      /\ \A k \in 1..L : members[k] \in Instances /\ made + k \in Instances
      /\ tree.parent \in [Instances -> Spots] /\ Rooted(tree.parent)
  BY CloningIs
<1>2. \A k \in 2..L : \E j \in 1..L :
          CopyOf(members, tree.parent[members[k]]) = made + j /\ members[j] = tree.parent[members[k]]
  BY CopyOfIs
<1>3. ASSUME NEW y \in Instances
      PROVE  to[y] \in Spots /\ (y > made /\ y \notin (made + 2)..(made + (i - 1)) => to[y] = Nil)
  <2>1. CASE y \in (made + 2)..(made + (i - 1))
    <3>1. y - made \in 2..L
      BY <1>1, <2>1
    <3>2. PICK j \in 1..L : CopyOf(members, tree.parent[members[y - made]]) = made + j
      BY <1>2, <3>1
    <3>3. to[y] = made + j
      BY <2>1, <3>2 DEF Put
    <3> QED
      BY <1>1, <2>1, <3>3 DEF Spots
  <2>2. CASE y \notin (made + 2)..(made + (i - 1))
    <3>1. to[y] = tree.parent[y]
      BY <2>2 DEF Put
    <3>2. y > made => tree.parent[y] = Nil
      BY <1>1 DEF Cloning, Instances
    <3> QED
      BY <1>1, <3>1, <3>2
  <2> QED
    BY <2>1, <2>2
<1>4. to \in [Instances -> Spots]
  BY <1>3 DEF Put
<1>5. ASSUME NEW k \in 1..L, to[made + k] # Nil
      PROVE  \E j \in 1..L : to[made + k] = made + j /\ members[j] = tree.parent[members[k]]
  <2>1. made + k \in Instances /\ made + k > made /\ (made + k) - made = k
    BY <1>1
  <2>2. made + k \in (made + 2)..(made + (i - 1))
    BY <1>3, <1>5, <2>1
  <2>3. k \in 2..L
    BY <1>1, <2>2
  <2>4. to[made + k] = CopyOf(members, tree.parent[members[k]])
    BY <2>1, <2>2 DEF Put
  <2> QED
    BY <1>2, <2>3, <2>4
<1> HIDE DEF to
<1>6. Mirrors(tree.parent, members, made, to)
  BY <1>1, <1>4, <1>5 DEF Mirrors, to
<1>7. PICK j \in 1..L : p = made + j /\ members[j] = tree.parent[members[i]]
  BY <1>2
<1> HIDE DEF p
<1>8. ASSUME made + i \in Above(to, p) PROVE FALSE
  <2>1. made + i \in Above(to, made + j)
    BY <1>7, <1>8
  <2>2. PICK k \in 1..L : made + i = made + k /\ members[k] \in Above(tree.parent, members[j])
    BY <1>6, <2>1, MirrorAbove
  <2>3. k = i
    BY <1>1, <2>2
  <2>4. members[i] \in Instances /\ members[i] \in Above(tree.parent, tree.parent[members[i]])
    BY <1>1, <1>7, <2>2, <2>3
  <2> QED
    BY <1>1, <2>4, NotAboveItself
<1> QED
  BY <1>8 DEF to, p

-----------------------------------------------------------------------------
\* Who had no parent ends at the end of the list.
Appends(s, x, w) ==
    /\ Len(s) \in Nat /\ Len(w) = Len(s) + 1 /\ w[Len(s) + 1] = x
    /\ \A i \in 1..Len(s) : w[i] = s[i]

AppendedTo(t, w, p, x) == Appends(t.kids[p], x, w.kids[p]) /\ \A q \in Instances : q # p => w.kids[q] = t.kids[q]

LEMMA ReparentAppends ==
    ASSUME NEW t, Fine(t), NEW x \in Instances, NEW p \in Instances, t.parent[x] = Nil
    PROVE  AppendedTo(t, Reparent(t, x, p), p, x)
<1> DEFINE s == t.kids[p]
           e == InsertAt(s, Len(s) + 1, x)
           u == LinkAt(t, p, x, Len(s) + 1)
           v == IndexName(u, p, x)
           w == Reparent(t, x, p)
<1>1. Woven(t) /\ t \in Trees /\ t.kids \in KidsType /\ s \in Seq(Instances)
  BY DEF Fine, Woven, Trees, KidsType
<1>2. p # Nil
  BY NilIs
<1>3. Appends(s, x, e)
  <2>1. SubSeq(s, 1, Len(s)) = s /\ SubSeq(s, Len(s) + 1, Len(s)) = <<>> /\ (Len(s) + 1) - 1 = Len(s) /\ Len(s) \in Nat
    BY <1>1
  <2>2. e = s \o <<x>> \o <<>>
    BY <2>1 DEF InsertAt
  <2> HIDE DEF s, e
  <2>3. s \in Seq(Instances) /\ <<x>> \in Seq(Instances)
    BY <1>1
  <2> QED
    BY <2>2, <2>3 DEF Appends
<1> HIDE DEF e
<1>4. u = [t EXCEPT !.parent[x] = p, !.kids[p] = e]
  BY DEF LinkAt, e
<1>5. u.kids[p] = e /\ \A q \in Instances : q # p => u.kids[q] = t.kids[q]
  BY <1>1, <1>4 DEF Trees, KidsType
<1>6. Len(s) + 1 \in 1..(Len(s) + 1)
  BY <1>1
<1>7. u \in Trees
  BY <1>1, <1>6, LinkIs
<1> HIDE DEF u
<1>8. v.kids = u.kids /\ \E h : v = [u EXCEPT !.first = h] \/ v = [u EXCEPT !.next = h]
  BY <1>7 DEF IndexName, Trees
<1> HIDE DEF v
<1>9. \A who, members, count : Tell(v, who, members, count).kids = v.kids
  <2>1. PICK h : v = [u EXCEPT !.first = h] \/ v = [u EXCEPT !.next = h]
    BY <1>8
  <2> QED
    BY <1>7, <2>1 DEF Tell, Trees
<1>10. w = Tell(v, Chain(v, p), ToSet(Subtree(t, x)), 1)
  BY <1>2 DEF Reparent, v, u
<1> HIDE DEF w
<1>11. w.kids = u.kids
  BY <1>8, <1>9, <1>10
<1> QED
  BY <1>3, <1>5, <1>11 DEF AppendedTo, w

-----------------------------------------------------------------------------

\* The lists of who was there are as they were, and those of the copies are in
\* the order the copies were made.
Rising(s) == \A i, j \in 1..Len(s) : i < j => s[i] < s[j]
Grown(v, i) ==
    /\ \A q \in Instances : q <= made => v.kids[q] = tree.kids[q]
    /\ \A q \in Instances : q > made => Rising(v.kids[q]) /\ \A k \in 1..Len(v.kids[q]) : v.kids[q][k] <= made + i

PlacedStep(members, v, i) ==
    Fine(v) /\ v.parent = Put(members, i) /\ v.name = Born(members).name /\ Grown(v, i)

LEMMA BornGrown == ASSUME NEW members, Cloning(members) PROVE Grown(Born(members), 1)
<1>1. Born(members).kids = tree.kids /\ tree.kids \in [Instances -> Seq(Instances)] /\ Matched(tree.kids, tree.parent)
  BY DEF Born, Cloning, Fine, Woven, Trees, KidsType
<1>2. ASSUME NEW q \in Instances, q > made PROVE Len(tree.kids[q]) = 0
  <2> DEFINE s == tree.kids[q]
  <2>1. s \in Seq(Instances) /\ \A i \in 1..Len(s) : s[i] \in Instances /\ tree.parent[s[i]] = q
    BY <1>1 DEF Matched
  <2>2. \A y \in Instances : tree.parent[y] <= made
    BY DEF Cloning
  <2> HIDE DEF s
  <2>3. made \in Nat /\ q \in Int
    BY CloningIs DEF Instances
  <2>4. \A i \in 1..Len(s) : FALSE
    <3> SUFFICES ASSUME NEW i \in 1..Len(s) PROVE FALSE
      OBVIOUS
    <3>1. q <= made
      BY <2>1, <2>2
    <3> QED
      BY <1>2, <2>3, <3>1
  <2>5. Len(s) = 0
    BY <2>1, <2>4
  <2> QED
    BY <2>5 DEF s
<1>3. ASSUME NEW q \in Instances, q > made
      PROVE  Rising(Born(members).kids[q]) /\ \A k \in 1..Len(Born(members).kids[q]) : Born(members).kids[q][k] <= made + 1
  <2>1. Len(Born(members).kids[q]) = 0
    BY <1>1, <1>2, <1>3
  <2> QED
    BY <2>1 DEF Rising
<1> QED
  BY <1>1, <1>3 DEF Grown

LEMMA RisingAppends ==
    ASSUME NEW s \in Seq(Instances), NEW w, NEW x \in Int, Appends(s, x, w), Rising(s), \A k \in 1..Len(s) : s[k] < x
    PROVE  Rising(w) /\ \A k \in 1..Len(w) : w[k] <= x
<1>1. /\ Len(s) \in Nat /\ Len(w) = Len(s) + 1 /\ w[Len(s) + 1] = x /\ \A i \in 1..Len(s) : w[i] = s[i]
      /\ \A i \in 1..Len(s) : s[i] \in Int
  <2>1. \A i \in 1..Len(s) : s[i] \in Instances
    OBVIOUS
  <2>2. \A y \in Instances : y \in Int
    BY DEF Instances
  <2> QED
    BY <2>1, <2>2 DEF Appends
<1>2. \A k \in 1..Len(w) : k \in 1..Len(s) \/ k = Len(s) + 1
  BY <1>1
<1>3. \A k \in 1..Len(w) : w[k] <= x
  BY <1>1, <1>2
<1>4. ASSUME NEW i \in 1..Len(w), NEW j \in 1..Len(w), i < j PROVE w[i] < w[j]
  <2>1. i \in 1..Len(s)
    BY <1>1, <1>4
  <2>2. CASE j \in 1..Len(s)
    BY <1>1, <1>4, <2>1, <2>2 DEF Rising
  <2>3. CASE j = Len(s) + 1
    BY <1>1, <2>1, <2>3
  <2> QED
    BY <1>2, <2>2, <2>3
<1> QED
  BY <1>3, <1>4 DEF Rising

\* A copy goes to the end of its parent's list, and no later one is there.
LEMMA GrownStep ==
    ASSUME NEW members, Cloning(members), NEW i \in 2..Len(members), NEW v, NEW w, NEW p \in Instances, p > made,
           Fine(v), Grown(v, i - 1), AppendedTo(v, w, p, made + i)
    PROVE  Grown(w, i)
<1>1. made \in Nat /\ i \in Nat /\ made + i \in Int /\ \A q \in Instances : q \in Int
  BY CloningIs DEF Instances
<1>2. v.kids \in [Instances -> Seq(Instances)]
  BY DEF Fine, Woven, Trees, KidsType
<1>3. ASSUME NEW q \in Instances, q <= made PROVE w.kids[q] = tree.kids[q]
  BY <1>1, <1>3 DEF Grown, AppendedTo
<1>4. ASSUME NEW q \in Instances, q > made
      PROVE  Rising(w.kids[q]) /\ \A k \in 1..Len(w.kids[q]) : w.kids[q][k] <= made + i
  <2> DEFINE s == v.kids[q]
  <2>1. s \in Seq(Instances) /\ Rising(s) /\ \A k \in 1..Len(s) : s[k] <= made + (i - 1)
    BY <1>2, <1>4 DEF Grown
  <2>2. q # p => w.kids[q] = s
    BY DEF AppendedTo
  <2>3. q = p => Appends(s, made + i, w.kids[q])
    BY DEF AppendedTo
  <2> HIDE DEF s
  <2>4. \A k \in 1..Len(s) : s[k] \in Int
    BY <1>1, <2>1
  <2>5. \A k \in 1..Len(s) : s[k] < made + i
    BY <1>1, <2>1, <2>4
  <2>6. CASE q = p
    BY <1>1, <2>1, <2>3, <2>5, <2>6, RisingAppends
  <2>7. CASE q # p
    BY <1>1, <2>1, <2>2, <2>4, <2>5, <2>7
  <2> QED
    BY <2>6, <2>7
<1> QED
  BY <1>3, <1>4 DEF Grown

LEMMA BuildStep ==
    ASSUME NEW members, Cloning(members), NEW i \in 2..Len(members), NEW v, PlacedStep(members, v, i - 1)
    PROVE  PlacedStep(members, Reparent(v, made + i, CopyOf(members, tree.parent[members[i]])), i)
<1> DEFINE L == Len(members)
           x == made + i
           p == CopyOf(members, tree.parent[members[i]])
           w == Reparent(v, x, p)
<1>1. /\ made \in Nat /\ L \in Nat /\ DOMAIN members = 1..L
      /\ \A k \in 1..L : members[k] \in Instances /\ made + k \in Instances
      /\ tree.parent \in [Instances -> Spots]
  BY CloningIs
<1>2. PICK j \in 1..L : p = made + j /\ members[j] = tree.parent[members[i]]
  BY CopyOfIs
<1>3. Fine(v) /\ v.parent = Put(members, i - 1) /\ v.name = Born(members).name /\ Rooted(v.parent)
  BY DEF PlacedStep, Fine
<1>4. x \in Instances /\ x > made /\ x - made = i /\ p \in Spots
  BY <1>1, <1>2 DEF Spots
<1>5. x \notin Above(v.parent, p)
  BY <1>3, PutAbove
<1>6. Put(members, i - 1)[x] = Nil
  <2>1. x \notin (made + 2)..(made + (i - 1))
    BY <1>1
  <2>2. tree.parent[x] = Nil
    <3>1. x \in Instances /\ ~(x <= made)
      BY <1>1, <1>4
    <3> HIDE DEF x
    <3> QED
      BY <3>1 DEF Cloning
  <2> QED
    BY <1>4, <2>1, <2>2 DEF Put
<1>7. Nil \notin retired
  BY <1>1 DEF Cloning, Nil
<1>8. v.parent[x] \notin retired
  BY <1>3, <1>6, <1>7
<1>8a. Grown(w, i)
  <2>1. p \in Instances /\ p > made
    BY <1>1, <1>2
  <2>2. v.parent[x] = Nil /\ Grown(v, i - 1)
    BY <1>3, <1>6 DEF PlacedStep
  <2> HIDE DEF p
  <2>3. AppendedTo(v, w, p, x)
    BY <1>3, <1>4, <2>1, <2>2, ReparentAppends
  <2> HIDE DEF w
  <2> QED
    BY <1>3, <2>1, <2>2, <2>3, GrownStep
<1> HIDE DEF x, p
<1>9. LET u == Reparent(v, x, p) IN Fine(u) /\ u.parent = [v.parent EXCEPT ![x] = p] /\ u.name = v.name
  BY <1>3, <1>4, <1>5, <1>8, ReparentIs
<1>10. [Put(members, i - 1) EXCEPT ![x] = p] = Put(members, i)
  <2> DEFINE F == [Put(members, i - 1) EXCEPT ![x] = p]
  <2>1. ASSUME NEW y \in Instances PROVE F[y] = Put(members, i)[y]
    <3>1. CASE y = x
      <4>1. x \in (made + 2)..(made + i)
        BY <1>1, <1>4 DEF x
      <4>2. Put(members, i)[x] = p
        BY <1>4, <4>1 DEF Put, p
      <4>3. F[x] = p
        BY <1>4 DEF Put
      <4> QED
        BY <3>1, <4>2, <4>3
    <3>2. CASE y # x
      <4>1. y \in (made + 2)..(made + i) <=> y \in (made + 2)..(made + (i - 1))
        BY <1>1, <3>2 DEF x, Instances
      <4>2. F[y] = Put(members, i - 1)[y]
        BY <3>2 DEF Put
      <4> QED
        BY <4>1, <4>2 DEF Put
    <3> QED
      BY <3>1, <3>2
  <2>2. F = [y \in Instances |-> F[y]] /\ Put(members, i) = [y \in Instances |-> Put(members, i)[y]]
    BY DEF Put
  <2> HIDE DEF F
  <2> QED
    BY <2>1, <2>2 DEF F
<1> QED
  BY <1>3, <1>8a, <1>9, <1>10 DEF PlacedStep, x, p

LEMMA BuiltIs ==
    ASSUME NEW members, Cloning(members)
    PROVE  PlacedStep(members, Built(members), Len(members))
<1> DEFINE L == Len(members)
           f == CHOOSE f : Builds(members, L, f)
<1>1. L \in Nat /\ L >= 1 /\ DOMAIN members = 1..L
  BY CloningIs
<1>2. Builds(members, L, f)
  BY <1>1, BuildExists
<1>3. Built(members) = f[L]
  <2>1. f = CHOOSE b : b = [i \in DOMAIN members |-> IF i = 1 THEN Born(members)
                              ELSE Reparent(b[i - 1], made + i, CopyOf(members, tree.parent[members[i]]))]
    BY <1>1 DEF Builds
  <2> HIDE DEF f
  <2> QED
    BY <2>1 DEF Built
<1> HIDE DEF L, f
<1>4. f[1] = Born(members)
  BY <1>1, <1>2 DEF Builds
<1>5. ASSUME NEW i \in 2..L PROVE f[i] = Reparent(f[i - 1], made + i, CopyOf(members, tree.parent[members[i]]))
  <2>1. i \in 1..L /\ i # 1
    BY <1>1
  <2> QED
    BY <1>2, <2>1 DEF Builds
<1> DEFINE Q == {i \in Nat : i + 1 <= L => PlacedStep(members, f[i + 1], i + 1)}
<1>6. 0 \in Q
  <2>1. PlacedStep(members, f[1], 1)
    BY <1>4, BornIs, BornGrown DEF PlacedStep
  <2> QED
    BY <2>1
<1>7. ASSUME NEW i \in Nat, i \in Q PROVE i + 1 \in Q
  <2> SUFFICES ASSUME (i + 1) + 1 <= L PROVE PlacedStep(members, f[(i + 1) + 1], (i + 1) + 1)
    OBVIOUS
  <2> DEFINE n == i + 2
  <2>1. n \in 2..L /\ n - 1 = i + 1 /\ (i + 1) + 1 = n /\ i + 1 <= L
    BY <1>1
  <2>2. PlacedStep(members, f[n - 1], n - 1)
    BY <1>7, <2>1
  <2> HIDE DEF n
  <2>3. n \in 2..Len(members)
    BY <2>1 DEF L
  <2>4. PlacedStep(members, Reparent(f[n - 1], made + n, CopyOf(members, tree.parent[members[n]])), n)
    BY <2>2, <2>3, BuildStep
  <2> QED
    BY <1>5, <2>1, <2>4
<1> HIDE DEF Q
<1>8. \A i \in Nat : i \in Q
  BY <1>6, <1>7, AllNumbers
<1>9. L - 1 \in Nat /\ (L - 1) + 1 = L
  BY <1>1
<1>10. L - 1 \in Q
  BY <1>8, <1>9
<1>11. PlacedStep(members, f[L], L)
  BY <1>1, <1>9, <1>10 DEF Q
<1> QED
  BY <1>3, <1>11 DEF L

-----------------------------------------------------------------------------
Living == (1..made) \ (destroyed \cup retired)

Numbered ==
    /\ made \in 0..MaxInstances
    /\ destroyed \subseteq 1..made /\ retired \subseteq 1..made /\ destroyed \cap retired = {}

\* Only the living have a parent, and it is living.
Lived(parent, L) == \A x \in Instances : parent[x] # Nil => x \in L /\ parent[x] \in L

\* Only the living carry tags, and both sides of the index say so.
Carried(tg, td, L) ==
    /\ tg \in [Instances -> SUBSET Tags] /\ td \in [Tags -> SUBSET Instances]
    /\ \A x \in Instances \ L : tg[x] = {}
    /\ \A g \in Tags : td[g] = {x \in L : g \in tg[x]}

WorldInv == Numbered /\ Fine(tree) /\ Lived(tree.parent, Living) /\ Carried(tags, tagged, Living)

LEMMA FineIs ==
    ASSUME NEW t, Fine(t)
    PROVE  /\ Woven(t) /\ Rooted(t.parent) /\ Heard(t) /\ t \in Trees /\ Matched(t.kids, t.parent) /\ Threaded(t, t.kids)
           /\ t.parent \in [Instances -> Spots] /\ t.kids \in KidsType /\ t.kids \in [Instances -> Seq(Instances)]
           /\ t.name \in [Instances -> Names] /\ t.first \in [Instances -> [Names -> Spots]]
           /\ t.next \in [Instances -> Spots] /\ t.heard \in [Instances \X Instances -> Int]
  BY DEF Fine, Woven, Trees, KidsType

LEMMA Childless ==
    ASSUME NEW kids \in KidsType, NEW parent, Matched(kids, parent), NEW p \in Instances,
           \A x \in Instances : parent[x] # p
    PROVE  kids[p] = <<>>
<1> DEFINE s == kids[p]
<1>1. s \in Seq(Instances)
  BY DEF KidsType
<1>2. \A i \in 1..Len(s) : parent[s[i]] = p
  BY DEF Matched
<1> HIDE DEF s
<1>3. \A i \in 1..Len(s) : s[i] \in Instances
  BY <1>1
<1>4. Len(s) = 0
  BY <1>1, <1>2, <1>3
<1> QED
  BY <1>1, <1>4 DEF s

LEMMA EmptyRow ==
    ASSUME NEW kids \in KidsType, NEW name \in [Instances -> Names], NEW p \in Instances, kids[p] = <<>>, NEW n \in Names
    PROVE  RowsOf(kids, name)[p][n] = <<>>
<1> DEFINE r == RowsOf(kids, name)[p][n]
<1>1. r \in Seq(Instances)
  BY RowsAre DEF RowsType
<1>2. \A i \in 1..Len(r) : \E j \in 1..Len(kids[p]) : r[i] = kids[p][j] /\ name[kids[p][j]] = n
  BY RowHas
<1>3. Len(kids[p]) = 0
  OBVIOUS
<1> HIDE DEF r
<1>4. \A i \in 1..Len(r) : FALSE
  BY <1>2, <1>3
<1>5. Len(r) = 0
  BY <1>1, <1>4
<1> QED
  BY <1>1, <1>5 DEF r

-----------------------------------------------------------------------------
(* At the beginning *)

LEMMA WorldBegins == WorldInit => WorldInv
<1> SUFFICES ASSUME WorldInit PROVE WorldInv
  OBVIOUS
<1>1. /\ made = 0 /\ destroyed = {} /\ retired = {} /\ MaxInstances \in Nat
      /\ tags = [x \in Instances |-> {}] /\ tagged = [g \in Tags |-> {}]
  BY WorldAssumption DEF WorldInit
<1>2. Living = {} /\ Numbered
  BY <1>1 DEF Living, Numbered
<1>3. Carried(tags, tagged, Living)
  BY <1>1, <1>2 DEF Carried
<1> DEFINE N == CHOOSE n \in Names : TRUE
<1>4. N \in Names
  BY WorldAssumption
<1> HIDE DEF N
<1>5. /\ tree.parent = [x \in Instances |-> Nil] /\ tree.kids = [x \in Instances |-> <<>>]
      /\ tree.name = [x \in Instances |-> N] /\ tree.first = [x \in Instances |-> [n \in Names |-> Nil]]
      /\ tree.next = [x \in Instances |-> Nil] /\ tree.heard = [e \in Instances \X Instances |-> 0]
  BY DEF WorldInit, N
<1>6. tree = [parent |-> tree.parent, kids |-> tree.kids, name |-> tree.name, first |-> tree.first, next |-> tree.next,
              heard |-> tree.heard]
  BY DEF WorldInit
<1>7. Nil \in Spots /\ <<>> \in Seq(Instances)
  BY DEF Spots
<1>8. /\ tree.parent \in [Instances -> Spots] /\ tree.kids \in KidsType /\ tree.name \in [Instances -> Names]
      /\ tree.first \in [Instances -> [Names -> Spots]] /\ tree.next \in [Instances -> Spots]
      /\ tree.heard \in [Instances \X Instances -> Int]
  BY <1>4, <1>5, <1>7 DEF KidsType
<1>9. tree \in Trees
  BY <1>6, <1>8 DEF Trees
<1>10. Matched(tree.kids, tree.parent)
  BY <1>5 DEF Matched
<1> DEFINE R == RowsOf(tree.kids, tree.name)
<1>11. ASSUME NEW p \in Instances, NEW n \in Names PROVE R[p][n] = <<>> /\ tree.first[p][n] = Nil
  <2>1. tree.kids[p] = <<>>
    BY <1>5
  <2> QED
    BY <1>5, <1>8, <2>1, EmptyRow
<1> HIDE DEF R
<1>12. Indexed(tree.first, tree.next, R)
  BY <1>5, <1>11 DEF Indexed, Linked
<1>13. Rooted(tree.parent)
  BY <1>5, NilIs DEF Rooted
<1>14. Heard(tree)
  <2>1. \A d \in Instances : Above(tree.parent, d) = {d}
    BY <1>5, <1>8, AboveIs
  <2>2. \A a, d \in Instances : tree.heard[<<a, d>>] = 0
    BY <1>5
  <2> QED
    BY <2>1, <2>2 DEF Heard
<1>15. Lived(tree.parent, Living)
  BY <1>5 DEF Lived
<1> QED
  BY <1>2, <1>3, <1>9, <1>10, <1>12, <1>13, <1>14, <1>15 DEF WorldInv, Fine, Woven, Threaded, R

-----------------------------------------------------------------------------
(* Steps *)

LEMMA WorldFacts ==
    ASSUME WorldInv
    PROVE  /\ made \in Nat /\ MaxInstances \in Nat /\ made <= MaxInstances
           /\ Living \subseteq Instances /\ Living \subseteq Alive /\ Alive \ destroyed = Living
           /\ Nil \notin retired /\ Nil \notin Living /\ Nil \notin destroyed
           /\ \A y \in Instances : tree.parent[y] \notin retired
           /\ \A y \in Living : y \notin destroyed /\ y \notin retired /\ y <= made
           /\ destroyed \subseteq Instances /\ retired \subseteq Instances
<1>1. made \in 0..MaxInstances /\ MaxInstances \in Nat /\ destroyed \subseteq 1..made /\ retired \subseteq 1..made
      /\ destroyed \cap retired = {}
  BY WorldAssumption DEF WorldInv, Numbered
<1>2. Nil \notin 1..made /\ 1..made \subseteq Instances
  BY <1>1 DEF Nil, Instances
<1>3. \A y \in Instances : tree.parent[y] \notin retired
  BY <1>1, <1>2 DEF WorldInv, Lived, Living
<1>4. made \in Nat /\ made <= MaxInstances /\ \A y \in 1..made : y <= made
  BY <1>1
<1>5. Living \subseteq 1..made /\ Living \subseteq Alive /\ Alive \ destroyed = Living
      /\ \A y \in Living : y \notin destroyed /\ y \notin retired
  BY DEF Living, Alive
<1>6. Nil \notin retired /\ Nil \notin Living /\ Nil \notin destroyed
      /\ Living \subseteq Instances /\ destroyed \subseteq Instances /\ retired \subseteq Instances
  BY <1>1, <1>2, <1>5
<1> QED
  BY <1>1, <1>3, <1>4, <1>5, <1>6

\* Who has a place in the tree is living.
LEMMA MemberLives ==
    ASSUME NEW parent \in [Instances -> Spots], NEW L, Lived(parent, L), NEW x \in L, NEW d \in Under(parent, x)
    PROVE  d \in L
  BY AboveIs DEF Under, Lived

LEMMA CreateStep == ASSUME WorldInv, NEW n \in Names, Create(n) PROVE WorldInv'
<1> DEFINE N == [tree.name EXCEPT ![made + 1] = n]
<1>1. /\ made \in Nat /\ MaxInstances \in Nat /\ made < MaxInstances /\ made' = made + 1
      /\ destroyed' = destroyed /\ retired' = retired /\ tags' = tags /\ tagged' = tagged
      /\ Fine(tree) /\ Lived(tree.parent, Living) /\ Carried(tags, tagged, Living) /\ Numbered
  BY WorldFacts DEF Create, WorldInv
<1>2. tree \in Trees /\ tree.name \in [Instances -> Names]
  BY <1>1, FineIs
<1>3. tree' = [tree EXCEPT !.name = N] /\ N \in [Instances -> Names]
  BY <1>1, <1>2 DEF Create, Trees, Instances
<1>4. Living' = Living \cup {made + 1} /\ made + 1 \notin Living /\ Numbered'
  BY <1>1 DEF Living, Numbered
<1>5. \A y \in Instances : N[y] # tree.name[y] => tree.parent[y] = Nil
  BY <1>1, <1>2, <1>4 DEF Lived
<1> HIDE DEF N
<1>6. LET w == [tree EXCEPT !.name = N] IN Fine(w) /\ w.parent = tree.parent
  BY <1>1, <1>3, <1>5, NamedAgain
<1>7. Fine(tree') /\ Lived(tree'.parent, Living')
  BY <1>1, <1>3, <1>4, <1>6 DEF Lived
<1>8. Carried(tags', tagged', Living')
  <2>1. made + 1 \in Instances
    BY <1>1 DEF Instances
  <2>2. tags[made + 1] = {}
    BY <1>1, <1>4, <2>1 DEF Carried
  <2> QED
    BY <1>1, <1>4, <2>2 DEF Carried
<1> QED
  BY <1>4, <1>7, <1>8 DEF WorldInv

LEMMA ReparentStep ==
    ASSUME WorldInv, NEW x \in Living, NEW p \in Living \cup {Nil}, x \notin Chain(tree, p)
    PROVE  LET w == Reparent(tree, x, p) IN Fine(w) /\ Lived(w.parent, Living)
<1>1. x \in Instances /\ p \in Spots /\ tree.parent[x] \notin retired /\ Fine(tree) /\ Lived(tree.parent, Living)
  BY WorldFacts DEF Spots, WorldInv
<1>2. x \notin Above(tree.parent, p)
  BY ChainIs
<1>3. tree.parent \in [Instances -> Spots]
  BY <1>1, FineIs
<1> DEFINE w == Reparent(tree, x, p)
<1>4. Fine(w) /\ w.parent = [tree.parent EXCEPT ![x] = p]
  BY <1>1, <1>2, ReparentIs
<1> HIDE DEF w
<1>5. Lived(w.parent, Living)
  BY <1>1, <1>3, <1>4 DEF Lived
<1> QED
  BY <1>4, <1>5 DEF w

\* What does not touch who is living, and the tags, keeps the rest.
LEMMA OnlyTree ==
    ASSUME WorldInv, UNCHANGED <<made, destroyed, retired, tags, tagged>>, Fine(tree'), Lived(tree'.parent, Living)
    PROVE  WorldInv'
  BY DEF WorldInv, Numbered, Living

LEMMA SetParentStep ==
    ASSUME CorpseUse = {}, WorldInv, NEW x \in Instances, NEW p \in Instances \cup {Nil}, SetParent(x, p)
    PROVE  WorldInv'
<1>1. x \in Alive /\ p \in Alive \cup {Nil} /\ (p # Nil => x \notin destroyed) /\ x \notin Chain(tree, p)
      /\ p \notin destroyed /\ tree' = Reparent(tree, x, p) /\ UNCHANGED <<made, destroyed, retired, tags, tagged>>
  BY DEF SetParent
<1>2. CASE x \in destroyed
  <2>1. p = Nil /\ x \notin Living
    BY <1>1, <1>2, WorldFacts
  <2>2. tree.parent[x] = Nil
    BY <2>1 DEF WorldInv, Lived
  <2>3. tree' = tree
    BY <1>1, <2>1, <2>2 DEF Reparent
  <2> QED
    BY <1>1, <2>3, OnlyTree DEF WorldInv
<1>3. CASE x \notin destroyed
  <2>1. x \in Living /\ p \in Living \cup {Nil}
    BY <1>1, <1>3, WorldFacts
  <2>2. Fine(tree') /\ Lived(tree'.parent, Living)
    BY <1>1, <2>1, ReparentStep
  <2> QED
    BY <1>1, <2>2, OnlyTree
<1> QED
  BY <1>2, <1>3

LEMMA SetNameStep ==
    ASSUME WorldInv, NEW x \in Instances, NEW n \in Names, SetName(x, n)
    PROVE  WorldInv'
<1> DEFINE p == tree.parent[x]
           N == [tree.name EXCEPT ![x] = n]
<1>1. UNCHANGED <<made, destroyed, retired, tags, tagged>> /\ Fine(tree) /\ Lived(tree.parent, Living)
  BY DEF SetName, WorldInv
<1>2. /\ Woven(tree) /\ Rooted(tree.parent) /\ Heard(tree) /\ tree \in Trees /\ tree.name \in [Instances -> Names]
      /\ tree.parent \in [Instances -> Spots]
  BY <1>1, FineIs
<1>3. CASE p = Nil
  <2>1. tree' = [tree EXCEPT !.name = N] /\ N \in [Instances -> Names]
    BY <1>2, <1>3 DEF SetName, Trees
  <2>2. \A y \in Instances : N[y] # tree.name[y] => tree.parent[y] = Nil
    BY <1>2, <1>3
  <2> HIDE DEF N
  <2>3. LET w == [tree EXCEPT !.name = N] IN Fine(w) /\ w.parent = tree.parent
    BY <1>1, <2>1, <2>2, NamedAgain
  <2> QED
    BY <1>1, <2>1, <2>3, OnlyTree
<1>4. CASE p # Nil
  <2>1. p \in Instances /\ p = tree.parent[x]
    BY <1>2, <1>4 DEF Spots
  <2>2. tree' = IndexNameInChildOrder([UnindexName(tree, p, x) EXCEPT !.name[x] = n], p, x)
    BY <1>4 DEF SetName
  <2> HIDE DEF p
  <2>3. LET w == IndexNameInChildOrder([UnindexName(tree, p, x) EXCEPT !.name[x] = n], p, x) IN
        Woven(w) /\ w.parent = tree.parent /\ w.kids = tree.kids /\ w.heard = tree.heard
    BY <1>2, <2>1, RenamedIs
  <2>4. Woven(tree') /\ tree'.parent = tree.parent /\ tree'.heard = tree.heard
    BY <2>2, <2>3
  <2>5. Fine(tree')
    BY <1>2, <2>4 DEF Fine, Heard
  <2> QED
    BY <1>1, <2>4, <2>5, OnlyTree
<1> QED
  BY <1>3, <1>4

-----------------------------------------------------------------------------
LEMMA MoveChildStep ==
    ASSUME WorldInv, NEW p \in Instances, NEW x \in Instances, NEW place \in Instances, MoveChild(p, x, place)
    PROVE  WorldInv'
<1>1. /\ UNCHANGED <<made, destroyed, retired, tags, tagged>> /\ Fine(tree) /\ Lived(tree.parent, Living)
      /\ tree.parent[x] = p /\ place <= Len(tree.kids[p])
  BY DEF MoveChild, WorldInv
<1>2. /\ Woven(tree) /\ Rooted(tree.parent) /\ Heard(tree) /\ tree.kids \in KidsType
      /\ tree.parent \in [Instances -> Spots] /\ Matched(tree.kids, tree.parent) /\ p \notin retired
  BY <1>1, FineIs, WorldFacts
<1> DEFINE v == UnlinkChild(UnindexName(tree, p, x), x)
           s == tree.kids[p]
           o == Only(s, Others(x))
<1>3. Woven(v) /\ v.parent = [tree.parent EXCEPT ![x] = Nil] /\ v.heard = tree.heard /\ v.kids = Lacking(tree.kids, p, x)
  BY <1>1, <1>2, OutIs
<1>4. v.kids[p] = o
  <2>1. Lacking(tree.kids, p, x)[p] = Only(tree.kids[p], Others(x))
    <3>1. Lacks(tree.kids, p, x, Lacking(tree.kids, p, x))
      BY <1>1, <1>2, LackingAt
    <3> QED
      BY <3>1 DEF Lacks
  <2> QED
    BY <1>3, <2>1
<1>5. tree' = IndexNameInChildOrder(LinkAt(v, p, x, place), p, x)
  BY DEF MoveChild
<1> HIDE DEF v
<1>6. Len(s) \in Nat /\ Len(o) = Len(s) - 1
  <2>1. s \in Seq(Instances) /\ Once(s)
    BY <1>2, MatchedAlone DEF KidsType
  <2>2. PICK i \in 1..Len(s) : s[i] = x
    BY <1>1, <1>2, NilIs DEF Matched
  <2> HIDE DEF s, o
  <2>3. PICK a, b \in Seq(Instances) : s = Append(a, x) \o b /\ Only(s, Others(x)) = a \o b
    <3>1. \E c, d \in Seq(Instances) :
             s = Append(c, s[i]) \o d /\ Only(s, Others(s[i])) = c \o d /\ c = SubSeq(s, 1, i - 1)
      BY <2>1, ListsAt
    <3> QED
      BY <2>2, <3>1
  <2>4. Len(a) \in Nat /\ Len(b) \in Nat /\ Len(s) = Len(a) + Len(b) + 1 /\ Len(o) = Len(a) + Len(b)
    BY <2>3, JoinedAt DEF o
  <2> QED
    BY <2>4
<1> HIDE DEF s, o
<1>7. place \in 1..(Len(v.kids[p]) + 1)
  BY <1>1, <1>4, <1>6, WorldAssumption DEF Instances, s
<1>8. v.parent[x] = Nil
  BY <1>2, <1>3
<1>12. Woven(v) /\ v.parent[x] = Nil /\ place \in 1..(Len(v.kids[p]) + 1)
  BY <1>3, <1>7, <1>8
<1>9. LET w == IndexNameInChildOrder(LinkAt(v, p, x, place), p, x) IN
      Woven(w) /\ w.parent = [v.parent EXCEPT ![x] = p] /\ w.name = v.name /\ w.heard = v.heard
  BY <1>12, PlacedIs
<1>10. Woven(tree') /\ tree'.parent = tree.parent /\ tree'.heard = tree.heard
  BY <1>1, <1>2, <1>3, <1>5, <1>9
<1>11. Fine(tree')
  BY <1>2, <1>10 DEF Fine, Heard
<1> QED
  BY <1>1, <1>10, <1>11, OnlyTree

-----------------------------------------------------------------------------

\* Who is under one that is destroyed goes with it, and has nobody left.
LEMMA DestroyStep ==
    ASSUME WorldInv, NEW x \in Instances, Destroy(x)
    PROVE  /\ WorldInv' /\ destroyed' = destroyed \cup Under(tree.parent, x)
           /\ tree'.parent = Detached(tree.parent, Under(tree.parent, x))
           /\ tags' = [y \in Instances |-> IF y \in Under(tree.parent, x) THEN {} ELSE tags[y]]
<1> DEFINE members == Subtree(tree, x)
           U == Under(tree.parent, x)
<1>1. /\ Numbered /\ Fine(tree) /\ Lived(tree.parent, Living) /\ Carried(tags, tagged, Living) /\ x \in Living
      /\ made' = made /\ retired' = retired
  BY WorldFacts DEF Destroy, WorldInv
<1>2. /\ tree' = DetachAll(tree, members) /\ destroyed' = destroyed \cup ToSet(members)
      /\ tags' = [y \in Instances |-> IF y \in ToSet(members) THEN {} ELSE tags[y]]
      /\ tagged' = [g \in Tags |-> tagged[g] \ ToSet(members)]
  BY DEF Destroy
<1>3. members \in Seq(Instances) /\ ToSet(members) = U /\ tree.parent \in [Instances -> Spots]
  BY <1>1, FineIs, MovedIs
<1> HIDE DEF members
<1>4. \A y \in Instances : tree.parent[y] \notin retired
  BY WorldFacts
<1>5. Nil \notin retired
  BY WorldFacts
<1>6. Fine(tree') /\ tree'.parent = Detached(tree.parent, ToSet(members))
  BY <1>1, <1>2, <1>3, <1>4, <1>5, DetachAllIs
<1>7. U \subseteq Living
  BY <1>1, <1>3, MemberLives
<1>8. Living' = Living \ U
  BY <1>1, <1>2, <1>3 DEF Living
<1>9. Numbered'
  BY <1>1, <1>2, <1>3, <1>7 DEF Numbered, Living
<1>10. Lived(tree'.parent, Living')
  <2> SUFFICES ASSUME NEW y \in Instances, tree'.parent[y] # Nil
               PROVE  y \in Living \ U /\ tree'.parent[y] \in Living \ U
    BY <1>8 DEF Lived
  <2>1. y \notin U /\ tree'.parent[y] = tree.parent[y]
    BY <1>3, <1>6 DEF Detached
  <2>2. y \in Living /\ tree.parent[y] \in Living
    BY <1>1, <2>1 DEF Lived
  <2>3. tree.parent[y] \notin U
    BY <1>3, <2>1, <2>2, WorldFacts, AboveIs DEF Under
  <2> QED
    BY <2>1, <2>2, <2>3
<1>11. Carried(tags', tagged', Living')
  <2>1. tags' = [y \in Instances |-> IF y \in U THEN {} ELSE tags[y]]
    BY <1>2, <1>3
  <2>2. tagged' = [g \in Tags |-> tagged[g] \ U]
    BY <1>2, <1>3
  <2> HIDE DEF U
  <2>3. tags' \in [Instances -> SUBSET Tags] /\ tagged' \in [Tags -> SUBSET Instances]
    BY <1>1, <2>1, <2>2 DEF Carried
  <2>4. \A y \in Instances \ (Living \ U) : tags'[y] = {}
    BY <1>1, <2>1 DEF Carried
  <2>5. ASSUME NEW g \in Tags PROVE tagged'[g] = {y \in Living \ U : g \in tags'[y]}
    <3>1. tagged[g] = {y \in Living : g \in tags[y]}
      BY <1>1 DEF Carried
    <3>2. \A y \in Living \ U : tags'[y] = tags[y]
      BY <2>1, WorldFacts
    <3>3. tagged'[g] = tagged[g] \ U
      BY <2>2
    <3> QED
      BY <3>1, <3>2, <3>3
  <2> QED
    BY <1>8, <2>3, <2>4, <2>5 DEF Carried
<1> QED
  BY <1>2, <1>3, <1>6, <1>9, <1>10, <1>11 DEF WorldInv

-----------------------------------------------------------------------------

\* A corpse has nothing of the tree any more: the end of the drain takes its name.
LEMMA RetireStep == ASSUME WorldInv, RetireDestroyed PROVE WorldInv'
<1> DEFINE N == [x \in Instances |-> IF x \in destroyed THEN CHOOSE n \in Names : TRUE ELSE tree.name[x]]
           dead == destroyed
<1>1. /\ made' = made /\ retired' = retired \cup destroyed /\ destroyed' = {} /\ tagged' = tagged
      /\ tags' = [x \in Instances |-> IF x \in destroyed THEN {} ELSE tags[x]]
      /\ Fine(tree) /\ Lived(tree.parent, Living) /\ Carried(tags, tagged, Living) /\ Numbered
  BY DEF RetireDestroyed, WorldInv
<1>2. Living' = Living /\ Numbered'
  BY <1>1 DEF Living, Numbered
<1>3. /\ tree \in Trees /\ Matched(tree.kids, tree.parent) /\ Threaded(tree, tree.kids)
      /\ tree.parent \in [Instances -> Spots] /\ tree.kids \in KidsType /\ tree.name \in [Instances -> Names]
      /\ tree.first \in [Instances -> [Names -> Spots]] /\ tree.next \in [Instances -> Spots]
  BY <1>1, FineIs
<1>4. \A x \in Instances : x \in destroyed => tree.parent[x] = Nil /\ \A y \in Instances : tree.parent[y] # x
  BY <1>1, WorldFacts DEF Lived
<1>5. \A x \in Instances : x \in destroyed => tree.kids[x] = <<>>
  BY <1>3, <1>4, Childless
<1>6. \A x \in Instances, n \in Names : x \in destroyed => tree.first[x][n] = Nil
  <2> SUFFICES ASSUME NEW x \in Instances, NEW n \in Names, x \in destroyed PROVE tree.first[x][n] = Nil
    OBVIOUS
  <2>1. RowsOf(tree.kids, tree.name)[x][n] = <<>>
    BY <1>3, <1>5, EmptyRow
  <2>2. Linked(tree.first[x][n], tree.next, RowsOf(tree.kids, tree.name)[x][n])
    BY <1>3 DEF Threaded, Indexed
  <2> QED
    BY <2>1, <2>2 DEF Linked
<1>7. \A x \in Instances : x \in destroyed => tree.next[x] = Nil
  <2> SUFFICES ASSUME NEW x \in Instances, x \in destroyed PROVE tree.next[x] = Nil
    OBVIOUS
  <2>1. \A p \in Instances : \A i \in 1..Len(tree.kids[p]) : tree.kids[p][i] # x
    BY <1>3, <1>4, NilIs DEF Matched
  <2>2. NoRow(RowsOf(tree.kids, tree.name), x)
    BY <1>3, <2>1, RowsNone
  <2> QED
    BY <1>3, <2>2 DEF Threaded, Indexed
<1>8. /\ [x \in Instances |-> IF x \in destroyed THEN Nil ELSE tree.parent[x]] = tree.parent
      /\ [x \in Instances |-> IF x \in destroyed THEN Nil ELSE tree.next[x]] = tree.next
  BY <1>3, <1>4, <1>7
<1>9. [x \in Instances |-> IF x \in destroyed THEN <<>> ELSE tree.kids[x]] = tree.kids
  BY <1>3, <1>5 DEF KidsType
<1>10. [x \in Instances |-> IF x \in destroyed THEN [n \in Names |-> Nil] ELSE tree.first[x]] = tree.first
  <2>1. \A x \in Instances : x \in destroyed => tree.first[x] = [n \in Names |-> Nil]
    BY <1>3, <1>6
  <2> QED
    BY <1>3, <2>1
<1>11. tree' = [tree EXCEPT !.name = N]
  BY <1>3, <1>8, <1>9, <1>10 DEF RetireDestroyed, Trees
<1>12. N \in [Instances -> Names]
  <2>1. (CHOOSE n \in Names : TRUE) \in Names
    BY WorldAssumption
  <2> QED
    BY <1>3, <2>1
<1>13. \A y \in Instances : N[y] # tree.name[y] => tree.parent[y] = Nil
  BY <1>4
<1> HIDE DEF N
<1>14. LET w == [tree EXCEPT !.name = N] IN Fine(w) /\ w.parent = tree.parent
  BY <1>1, <1>12, <1>13, NamedAgain
<1>15. Fine(tree') /\ Lived(tree'.parent, Living')
  BY <1>1, <1>2, <1>11, <1>14 DEF Lived
<1>16. tags' = tags
  <2>1. \A x \in Instances : x \in destroyed => tags[x] = {}
    BY <1>1, WorldFacts DEF Carried
  <2> QED
    BY <1>1, <2>1 DEF Carried
<1> QED
  BY <1>1, <1>2, <1>15, <1>16 DEF WorldInv

-----------------------------------------------------------------------------
\* Who is under one that can be cloned is, and each but the first has its parent there.
LEMMA CloneStarts ==
    ASSUME WorldInv, NEW x \in Instances, Clone(x)
    PROVE  LET members == Subtree(tree, x) IN
           /\ Cloning(members) /\ x \in Living /\ ToSet(members) = Under(tree.parent, x)
           /\ Walk(members, tree.parent, x) /\ \A i \in 1..Len(members) : members[i] \in Living
<1> DEFINE members == Subtree(tree, x)
           parent == tree.parent
<1>1. /\ Numbered /\ Fine(tree) /\ Lived(parent, Living) /\ x \in Living
      /\ made + Len(members) <= MaxInstances /\ made \in Nat
  BY WorldFacts DEF Clone, WorldInv
<1>2. /\ members \in Seq(Instances) /\ ToSet(members) = Under(parent, x) /\ Walk(members, parent, x)
      /\ parent \in [Instances -> Spots] /\ Rooted(parent)
  BY <1>1, FineIs, MovedIs
<1> HIDE DEF members
<1>3. \A i \in 1..Len(members) : members[i] \in Living
  BY <1>1, <1>2, MemberLives DEF Walk
<1>4. ASSUME NEW i \in 2..Len(members) PROVE \E j \in 1..Len(members) : members[j] = parent[members[i]]
  <2>1. i \in 1..Len(members) /\ members[i] # x
    BY <1>2 DEF Walk
  <2>2. members[i] \in Instances /\ x \in Above(parent, members[i])
    BY <1>2, <2>1 DEF Walk, Under
  <2>3. x \in Above(parent, parent[members[i]]) /\ parent[members[i]] \in Instances
    BY <1>2, <2>1, <2>2, AboveIs DEF Spots
  <2>4. parent[members[i]] \in Under(parent, x)
    BY <2>3 DEF Under
  <2> QED
    BY <1>2, <2>4 DEF Walk
<1>5. \A y \in Instances : parent[y] <= made /\ (parent[y] # Nil => y <= made)
  <2>1. \A y \in Instances : parent[y] # Nil => y <= made /\ parent[y] <= made
    BY <1>1, WorldFacts DEF Lived
  <2>2. \A y \in Instances : parent[y] = Nil => parent[y] <= made
    BY <1>1 DEF Nil
  <2> QED
    BY <2>1, <2>2
<1>6. (\A y \in Instances : parent[y] \notin retired) /\ retired \subseteq 1..made
  BY <1>1, WorldFacts DEF Numbered
<1>7. Len(members) >= 1
  BY <1>2 DEF Walk
<1>8. Cloning(members)
  BY <1>1, <1>2, <1>4, <1>5, <1>6, <1>7 DEF Cloning
<1> QED
  BY <1>1, <1>2, <1>3, <1>8 DEF members

LEMMA CloneStep == ASSUME WorldInv, NEW x \in Instances, Clone(x) PROVE WorldInv'
<1> DEFINE members == Subtree(tree, x)
           L == Len(members)
           copies == Copies(members)
           parent == tree.parent
<1>1. Cloning(members) /\ x \in Living /\ \A i \in 1..L : members[i] \in Living
  BY CloneStarts
<1>2. /\ Numbered /\ Fine(tree) /\ Lived(parent, Living) /\ Carried(tags, tagged, Living)
      /\ made' = made + L /\ destroyed' = destroyed /\ retired' = retired
      /\ tree' = Built(members)
      /\ tags' = [y \in Instances |-> IF y \in copies THEN tags[members[y - made]] ELSE tags[y]]
      /\ tagged' = [g \in Tags |-> tagged[g] \cup {y \in copies : g \in tags[members[y - made]]}]
  BY DEF Clone, WorldInv
<1> HIDE DEF members
<1>3. /\ made \in Nat /\ L \in Nat /\ L >= 1 /\ made + L <= MaxInstances /\ MaxInstances \in Nat
      /\ \A i \in 1..L : members[i] \in Instances /\ made + i \in Instances
  BY <1>1, CloningIs
<1>4. Fine(tree') /\ tree'.parent = Put(members, L)
  BY <1>1, <1>2, BuiltIs DEF PlacedStep
<1>5. /\ copies = (made + 1)..(made + L) /\ copies \subseteq Instances /\ copies \cap (1..made) = {}
      /\ \A y \in copies : y - made \in 1..L
      /\ 1..(made + L) = (1..made) \cup copies
  BY <1>3 DEF Copies, Instances
<1>6. Numbered'
  BY <1>2, <1>3, <1>5 DEF Numbered
<1>7. Living' = Living \cup copies /\ Living \cap copies = {} /\ Living \subseteq Instances
  <2>1. Living' = (1..(made + L)) \ (destroyed \cup retired)
    BY <1>2 DEF Living
  <2>2. copies \cap (destroyed \cup retired) = {}
    BY <1>2, <1>5 DEF Numbered
  <2> HIDE DEF copies
  <2>3. Living' = Living \cup copies
    BY <1>5, <2>1, <2>2 DEF Living
  <2> QED
    BY <1>5, <2>3, WorldFacts DEF Living
<1>8. Lived(tree'.parent, Living')
  <2> SUFFICES ASSUME NEW y \in Instances, Put(members, L)[y] # Nil
               PROVE  y \in Living \cup copies /\ Put(members, L)[y] \in Living \cup copies
    BY <1>4, <1>7 DEF Lived
  <2>1. CASE y \in (made + 2)..(made + L)
    <3>1. y \in copies /\ y - made \in 2..L
      BY <1>3, <1>5, <2>1
    <3>2. PICK j \in 1..L : CopyOf(members, tree.parent[members[y - made]]) = made + j
      BY <1>1, <3>1, CopyOfIs
    <3>3. Put(members, L)[y] = made + j /\ made + j \in copies
      BY <1>3, <1>5, <2>1, <3>2 DEF Put
    <3> QED
      BY <3>1, <3>3
  <2>2. CASE y \notin (made + 2)..(made + L)
    <3>1. Put(members, L)[y] = tree.parent[y]
      BY <2>2 DEF Put
    <3> QED
      BY <1>2, <3>1 DEF Lived
  <2> QED
    BY <2>1, <2>2
<1>9. Carried(tags', tagged', Living')
  <2> HIDE DEF copies
  <2>1. /\ tags \in [Instances -> SUBSET Tags] /\ tagged \in [Tags -> SUBSET Instances]
        /\ \A y \in Instances \ Living : tags[y] = {}
        /\ \A g \in Tags : tagged[g] = {y \in Living : g \in tags[y]}
    BY <1>2 DEF Carried
  <2>2. \A y \in copies : y \in Instances /\ members[y - made] \in Instances
    BY <1>3, <1>5
  <2>3. /\ \A y \in copies : tags'[y] = tags[members[y - made]]
        /\ \A y \in Instances \ copies : tags'[y] = tags[y]
        /\ tags' \in [Instances -> SUBSET Tags]
    BY <1>2, <2>1, <2>2
  <2>4. tagged' \in [Tags -> SUBSET Instances]
    BY <1>2, <2>1, <2>2
  <2>5. \A y \in Instances \ (Living \cup copies) : tags'[y] = {}
    BY <2>1, <2>3
  <2>6. ASSUME NEW g \in Tags PROVE tagged'[g] = {y \in Living \cup copies : g \in tags'[y]}
    <3>1. tagged'[g] = {y \in Living : g \in tags[y]} \cup {y \in copies : g \in tags[members[y - made]]}
      BY <1>2, <2>1
    <3>2. \A y \in Living : tags'[y] = tags[y]
      BY <1>7, <2>3
    <3> QED
      BY <2>3, <3>1, <3>2
  <2> QED
    BY <1>7, <2>3, <2>4, <2>5, <2>6 DEF Carried
<1> QED
  BY <1>4, <1>6, <1>8, <1>9 DEF WorldInv

-----------------------------------------------------------------------------

\* What only changes the tags keeps the rest.
LEMMA OnlyTags ==
    ASSUME WorldInv, UNCHANGED <<made, destroyed, retired, tree>>, Carried(tags', tagged', Living)
    PROVE  WorldInv'
  BY DEF WorldInv, Numbered, Living

LEMMA TagSteps ==
    ASSUME CorpseUse = {}, WorldInv, NEW x \in Instances, NEW g \in Tags, AddTag(x, g) \/ RemoveTag(x, g)
    PROVE  WorldInv'
<1>1. /\ tags \in [Instances -> SUBSET Tags] /\ tagged \in [Tags -> SUBSET Instances]
      /\ \A y \in Instances \ Living : tags[y] = {}
      /\ \A h \in Tags : tagged[h] = {y \in Living : h \in tags[y]}
  BY DEF WorldInv, Carried
<1>2. CASE AddTag(x, g)
  <2>1. UNCHANGED <<made, destroyed, retired, tree>> /\ x \in Living
    BY <1>2, WorldFacts DEF AddTag
  <2>2. tags' = [tags EXCEPT ![x] = @ \cup {g}] /\ tagged' = [tagged EXCEPT ![g] = @ \cup {x}]
    BY <1>2 DEF AddTag
  <2>3. Carried(tags', tagged', Living)
    <3>1. tags' \in [Instances -> SUBSET Tags] /\ tagged' \in [Tags -> SUBSET Instances]
      BY <1>1, <2>2
    <3>2. \A y \in Instances \ Living : tags'[y] = {}
      BY <1>1, <2>1, <2>2
    <3>3. ASSUME NEW h \in Tags PROVE tagged'[h] = {y \in Living : h \in tags'[y]}
      <4>1. \A y \in Instances : h \in tags'[y] <=> h \in tags[y] \/ (y = x /\ h = g)
        BY <1>1, <2>2
      <4>2. \A y : y \in tagged'[h] <=> y \in tagged[h] \/ (y = x /\ h = g)
        BY <1>1, <2>2
      <4> QED
        BY <1>1, <2>1, <4>1, <4>2, WorldFacts
    <3> QED
      BY <3>1, <3>2, <3>3 DEF Carried
  <2> QED
    BY <2>1, <2>3, OnlyTags
<1>3. CASE RemoveTag(x, g)
  <2>1. UNCHANGED <<made, destroyed, retired, tree>>
    BY <1>3 DEF RemoveTag
  <2>2. tags' = [tags EXCEPT ![x] = @ \ {g}] /\ tagged' = [tagged EXCEPT ![g] = @ \ {x}]
    BY <1>3 DEF RemoveTag
  <2>3. Carried(tags', tagged', Living)
    <3>1. tags' \in [Instances -> SUBSET Tags] /\ tagged' \in [Tags -> SUBSET Instances]
      BY <1>1, <2>2
    <3>2. \A y \in Instances \ Living : tags'[y] = {}
      BY <1>1, <2>2
    <3>3. ASSUME NEW h \in Tags PROVE tagged'[h] = {y \in Living : h \in tags'[y]}
      <4>1. \A y \in Instances : h \in tags'[y] <=> h \in tags[y] /\ ~(y = x /\ h = g)
        BY <1>1, <2>2
      <4>2. \A y : y \in tagged'[h] <=> y \in tagged[h] /\ ~(y = x /\ h = g)
        BY <1>1, <2>2
      <4> QED
        BY <1>1, <4>1, <4>2, WorldFacts
    <3> QED
      BY <3>1, <3>2, <3>3 DEF Carried
  <2> QED
    BY <2>1, <2>3, OnlyTags
<1> QED
  BY <1>2, <1>3

-----------------------------------------------------------------------------
LEMMA WorldSteps == ASSUME CorpseUse = {}, WorldInv, [WorldNext]_worldVars PROVE WorldInv'
<1>1. CASE \E n \in Names : Create(n)
  BY <1>1, CreateStep
<1>2. CASE \E x \in Instances, p \in Instances \cup {Nil} : SetParent(x, p)
  BY <1>2, SetParentStep
<1>3. CASE \E x \in Instances, n \in Names : SetName(x, n)
  BY <1>3, SetNameStep
<1>4. CASE \E p, x, place \in Instances : MoveChild(p, x, place)
  BY <1>4, MoveChildStep
<1>5. CASE \E x \in Instances : Destroy(x) \/ Clone(x)
  BY <1>5, DestroyStep, CloneStep
<1>6. CASE RetireDestroyed
  BY <1>6, RetireStep
<1>7. CASE \E x \in Instances, g \in Tags : AddTag(x, g) \/ RemoveTag(x, g)
  BY <1>7, TagSteps
<1>8. CASE UNCHANGED worldVars
  BY <1>8 DEF worldVars, WorldInv, Numbered, Living
<1> QED
  BY <1>1, <1>2, <1>3, <1>4, <1>5, <1>6, <1>7, <1>8 DEF WorldNext

\* While scripts leave corpses alone, the tree is woven, rooted and truly announced, only
\* the living are in it, and only they carry tags: what every operation of scene::World keeps.
THEOREM WorldHolds == ASSUME CorpseUse = {} PROVE WorldSpec => []WorldInv
<1>1. WorldInv /\ [WorldNext]_worldVars => WorldInv'
  BY WorldSteps
<1> QED
  BY <1>1, WorldBegins, PTL DEF WorldSpec

LEMMA WorldExact == ASSUME WorldInv PROVE TreeExact
<1> DEFINE parent == tree.parent
           kids == tree.kids
<1>1. /\ Numbered /\ Fine(tree) /\ Lived(parent, Living) /\ Carried(tags, tagged, Living)
  BY DEF WorldInv
<1>2. /\ parent \in [Instances -> Spots] /\ kids \in [Instances -> Seq(Instances)] /\ tree.name \in [Instances -> Names]
      /\ tree.first \in [Instances -> [Names -> Spots]] /\ tree.next \in [Instances -> Spots]
      /\ tree.heard \in [Instances \X Instances -> Int] /\ Heard(tree) /\ Rooted(parent) /\ Matched(kids, parent)
  BY <1>1, FineIs
<1> HIDE DEF kids, parent
<1>3. tree.heard \in [Instances \X Instances -> Nat]
  <2>1. ASSUME NEW e \in Instances \X Instances PROVE tree.heard[e] \in Nat
    <3>1. PICK a, d \in Instances : e = <<a, d>>
      OBVIOUS
    <3>2. tree.heard[<<a, d>>] = 1 \/ tree.heard[<<a, d>>] = 0
      BY <1>2 DEF Heard
    <3> QED
      BY <3>1, <3>2
  <2> QED
    BY <1>2, <2>1
<1>4. WorldTypeOK
  BY <1>1, <1>2, <1>3 DEF WorldTypeOK, Numbered, Carried, Spots, parent, kids
<1>5. ASSUME NEW x \in Alive, parent[x] # Nil PROVE parent[x] \in Alive /\ x \in ToSet(kids[parent[x]])
  <2>1. x \in Instances
    BY WorldFacts DEF Alive
  <2>2. parent[x] \in Living /\ parent[x] \in Alive
    BY <1>1, <1>5, <2>1, WorldFacts DEF Lived
  <2>3. PICK i \in 1..Len(kids[parent[x]]) : kids[parent[x]][i] = x
    BY <1>2, <1>5, <2>1 DEF Matched
  <2>4. DOMAIN kids[parent[x]] = 1..Len(kids[parent[x]])
    BY <1>2, <2>2, WorldFacts
  <2> QED
    BY <2>2, <2>3, <2>4 DEF ToSet
<1>6. ASSUME NEW p \in Instances PROVE IsInjective(kids[p]) /\ \A x \in ToSet(kids[p]) : parent[x] = p
  <2>1. DOMAIN kids[p] = 1..Len(kids[p])
    BY <1>2
  <2>2. IsInjective(kids[p])
    BY <1>2, <2>1 DEF Matched, IsInjective
  <2>3. ASSUME NEW x \in ToSet(kids[p]) PROVE parent[x] = p
    <3>1. PICK i \in 1..Len(kids[p]) : x = kids[p][i]
      BY <2>1 DEF ToSet
    <3> QED
      BY <1>2, <3>1 DEF Matched
  <2> QED
    BY <2>2, <2>3
<1>7. ASSUME NEW S \in (SUBSET Alive) \ {{}} PROVE \E x \in S : parent[x] \notin S
  <2>1. S \in SUBSET Instances /\ S # {}
    BY WorldFacts DEF Alive
  <2> QED
    BY <1>2, <2>1 DEF Rooted
<1>8. ParentListsChild
  BY <1>5, <1>6, <1>7 DEF ParentListsChild, parent, kids
<1>9. TaggedAreCarried
  <2> SUFFICES ASSUME NEW g \in Tags PROVE tagged[g] = {x \in Alive : g \in tags[x]}
    BY DEF TaggedAreCarried
  <2>1. tagged[g] = {x \in Living : g \in tags[x]}
    BY <1>1 DEF Carried
  <2>2. \A x \in Alive : x \in Instances /\ (g \in tags[x] => x \in Living)
    BY <1>1, WorldFacts DEF Alive, Carried
  <2> QED
    BY <2>1, <2>2, WorldFacts
<1> QED
  BY <1>4, <1>8, <1>9 DEF TreeExact

LEMMA WorldNamed == ASSUME WorldInv PROVE NamesInChildOrder
<1> DEFINE R == RowsOf(tree.kids, tree.name)
<1>1. /\ Indexed(tree.first, tree.next, R) /\ tree.kids \in KidsType /\ tree.name \in [Instances -> Names]
      /\ tree.next \in [Instances -> Spots] /\ Matched(tree.kids, tree.parent)
  BY FineIs DEF WorldInv, Threaded
<1>2. /\ R \in RowsType
      /\ \A p \in Instances, n \in Names : R[p][n] = Only(tree.kids[p], NamedBy(tree.name, n))
  BY <1>1, RowsAre
<1> HIDE DEF R
<1>3. Rooted(tree.next)
  BY <1>1, <1>2, NextRooted
<1>4. ASSUME NEW p \in Instances, NEW n \in Names
      PROVE  SameName(tree, tree.first[p][n]) = Only(tree.kids[p], Named(tree, n))
  <2>1. Linked(tree.first[p][n], tree.next, R[p][n]) /\ R[p][n] \in Seq(Instances)
    BY <1>1, <1>2 DEF Indexed, RowsType
  <2>2. Follow(tree.next, tree.first[p][n]) = R[p][n]
    BY <1>1, <1>3, <2>1, FollowRow
  <2>3. NamedBy(tree.name, n) = Named(tree, n)
    BY DEF NamedBy, Named
  <2> QED
    BY <1>2, <2>2, <2>3, SameNameIs
<1>5. ASSUME NEW x \in Instances, tree.parent[x] = Nil PROVE tree.next[x] = Nil
  <2>1. \A p \in Instances : \A i \in 1..Len(tree.kids[p]) : tree.kids[p][i] # x
    BY <1>1, <1>5, NilIs DEF Matched
  <2>2. NoRow(R, x)
    BY <1>1, <2>1, RowsNone DEF R
  <2> QED
    BY <1>1, <2>2 DEF Indexed
<1> QED
  BY <1>4, <1>5 DEF NamesInChildOrder

LEMMA WorldHeard == ASSUME WorldInv PROVE HeardIsTrue
<1>1. Heard(tree)
  BY FineIs DEF WorldInv
<1>2. \A d \in Instances : Chain(tree, d) = Above(tree.parent, d)
  BY ChainIs
<1> QED
  BY <1>1, <1>2 DEF HeardIsTrue, Heard

\* Parents and children of scene::World agree, there is no cycle, a parent still resolves,
\* and GetTagged and GetAllTags answer with what is carried, whatever was moved, destroyed,
\* retired or cloned.
THEOREM TreeExactHolds == ASSUME CorpseUse = {} PROVE WorldSpec => []TreeExact
  BY WorldHolds, WorldExact, PTL

\* The chains of the name index are the children of that name in child order, so that
\* FindFirstChild answers with the first, after any renames, moves, destroys and clones.
THEOREM NamesInChildOrderHolds == ASSUME CorpseUse = {} PROVE WorldSpec => []NamesInChildOrder
  BY WorldHolds, WorldNamed, PTL

\* A listener of DescendantAdded and DescendantRemoving knows the descendants, each once.
THEOREM HeardIsTrueHolds == ASSUME CorpseUse = {} PROVE WorldSpec => []HeardIsTrue
  BY WorldHolds, WorldHeard, PTL

-----------------------------------------------------------------------------
LEMMA DestroyTakes ==
    ASSUME CorpseUse = {}, WorldInv, WorldInv', [WorldNext]_worldVars, NEW x \in destroyed' \ destroyed
    PROVE  /\ ToSet(Subtree(tree, x)) \subseteq destroyed'
           /\ tree'.parent[x] = Nil /\ tree'.kids[x] = <<>> /\ tags'[x] = {}
<1>1. PICK z \in Instances : Destroy(z)
  BY DEF WorldNext, worldVars, Create, SetParent, SetName, MoveChild, Clone, RetireDestroyed, AddTag, RemoveTag
<1> DEFINE parent == tree.parent
           U == Under(parent, z)
<1>2. /\ destroyed' = destroyed \cup U /\ tree'.parent = Detached(parent, U)
      /\ tags' = [y \in Instances |-> IF y \in U THEN {} ELSE tags[y]]
  BY <1>1, DestroyStep
<1>3. x \in U /\ x \in Instances
  BY <1>2 DEF Under
<1>4. Fine(tree) /\ Woven(tree) /\ Rooted(parent) /\ parent \in [Instances -> Spots]
  BY FineIs DEF WorldInv
<1>5. ToSet(Subtree(tree, x)) = Under(parent, x)
  BY <1>3, <1>4, MovedIs
<1>6. Under(parent, x) \subseteq U
  <2> SUFFICES ASSUME NEW d \in Under(parent, x) PROVE z \in Above(parent, d)
    BY DEF Under
  <2>1. z \in Above(parent, x) /\ x \in Above(parent, d) /\ d \in Spots
    BY <1>3 DEF Under, Spots
  <2>2. Above(parent, x) \subseteq Above(parent, d)
    BY <1>4, <2>1, AboveAbove
  <2> QED
    BY <2>1, <2>2
<1>7. tree'.parent[x] = Nil /\ tags'[x] = {}
  BY <1>2, <1>3 DEF Detached
<1>8. \A y \in Instances : tree'.parent[y] # x
  <2> SUFFICES ASSUME NEW y \in Instances, tree'.parent[y] = x PROVE FALSE
    OBVIOUS
  <2>1. y \notin U /\ parent[y] = x
    BY <1>2, <1>3, NilIs DEF Detached
  <2>2. Above(parent, y) = {y} \cup Above(parent, x)
    BY <1>4, <2>1, AboveIs
  <2> QED
    BY <1>3, <2>1, <2>2 DEF Under
<1>9. tree'.kids[x] = <<>>
  <2>1. tree'.kids \in KidsType /\ Matched(tree'.kids, tree'.parent)
    <3>1. Fine(tree')
      BY DEF WorldInv
    <3> QED
      BY <3>1, FineIs
  <2> DEFINE k == tree'.kids
             q == tree'.parent
  <2>2. k \in KidsType /\ Matched(k, q) /\ \A y \in Instances : q[y] # x
    BY <1>8, <2>1
  <2> HIDE DEF k, q
  <2>3. k[x] = <<>>
    BY <1>3, <2>2, Childless
  <2> QED
    BY <2>3 DEF k
<1> QED
  BY <1>2, <1>5, <1>6, <1>7, <1>9

\* Destroy takes the whole subtree with it, and every member ends unparented, childless
\* and untagged.
THEOREM DestroyTakesAllHolds == ASSUME CorpseUse = {} PROVE WorldSpec => DestroyTakesAll
<1> DEFINE Taken == \A x \in destroyed' \ destroyed :
                        /\ ToSet(Subtree(tree, x)) \subseteq destroyed'
                        /\ tree'.parent[x] = Nil /\ tree'.kids[x] = <<>> /\ tags'[x] = {}
<1>1. WorldInv /\ WorldInv' /\ [WorldNext]_worldVars => [Taken]_worldVars
  BY DestroyTakes
<1>2. WorldSpec => []WorldInv
  BY WorldHolds
<1>3. WorldSpec => [][Taken]_worldVars
  BY <1>1, <1>2, PTL DEF WorldSpec
<1> QED
  BY <1>3 DEF DestroyTakesAll

-----------------------------------------------------------------------------
(* The order of a document *)

SortedBy(s, R) == \A i, j \in 1..Len(s) : i < j => <<s[i], s[j]>> \in R

Between(a, b, R) == \A i \in 1..Len(a) : \A j \in 1..Len(b) : <<a[i], b[j]>> \in R

LEMMA SortedConcat ==
    ASSUME NEW a \in Seq(Instances), NEW b \in Seq(Instances), NEW R,
           SortedBy(a, R), SortedBy(b, R), Between(a, b, R)
    PROVE  SortedBy(a \o b, R)
<1> DEFINE c == a \o b
<1>1. /\ Len(c) = Len(a) + Len(b) /\ Len(a) \in Nat /\ Len(b) \in Nat
      /\ \A n \in 1..Len(a) : c[n] = a[n]
      /\ \A n \in 1..Len(b) : c[Len(a) + n] = b[n]
  OBVIOUS
<1> HIDE DEF c
<1>2. ASSUME NEW i \in 1..Len(c), NEW j \in 1..Len(c), i < j PROVE <<c[i], c[j]>> \in R
  <2>1. CASE j \in 1..Len(a)
    <3>1. i \in 1..Len(a)
      BY <1>1, <1>2, <2>1
    <3> QED
      BY <1>1, <1>2, <2>1, <3>1 DEF SortedBy
  <2>2. CASE i \in 1..Len(a) /\ j \notin 1..Len(a)
    <3>1. j - Len(a) \in 1..Len(b) /\ Len(a) + (j - Len(a)) = j
      BY <1>1, <2>2
    <3>2. c[j] = b[j - Len(a)]
      BY <1>1, <3>1
    <3> QED
      BY <1>1, <2>2, <3>1, <3>2 DEF Between
  <2>3. CASE i \notin 1..Len(a) /\ j \notin 1..Len(a)
    <3>1. /\ i - Len(a) \in 1..Len(b) /\ Len(a) + (i - Len(a)) = i
          /\ j - Len(a) \in 1..Len(b) /\ Len(a) + (j - Len(a)) = j /\ i - Len(a) < j - Len(a)
      BY <1>1, <1>2, <2>3
    <3>2. c[j] = b[j - Len(a)] /\ c[i] = b[i - Len(a)]
      BY <1>1, <3>1
    <3> QED
      BY <3>1, <3>2 DEF SortedBy
  <2> QED
    BY <2>1, <2>2, <2>3
<1> QED
  BY <1>2 DEF SortedBy, c

Sorts(q, R) ==
    /\ \A i \in 1..Len(q) : SortedBy(q[i], R)
    /\ \A i, j \in 1..Len(q) : i < j => Between(q[i], q[j], R)

LEMMA SortedJoined ==
    ASSUME NEW R
    PROVE  \A q \in Seq(Seq(Instances)) : Sorts(q, R) => SortedBy(Joined(q), R)
<1> DEFINE Q == {q \in Seq(Seq(Instances)) : Sorts(q, R) => SortedBy(Joined(q), R)}
<1>1. <<>> \in Q
  <2>1. Len(Joined(<<>>)) = 0 /\ <<>> \in Seq(Seq(Instances))
    BY JoinedNone
  <2>2. SortedBy(Joined(<<>>), R)
    BY <2>1 DEF SortedBy
  <2> QED
    BY <2>1, <2>2
<1>2. ASSUME NEW q \in Seq(Seq(Instances)), NEW e \in Seq(Instances), q \in Q PROVE Append(q, e) \in Q
  <2> DEFINE p == Append(q, e)
             a == Joined(q)
  <2>1. /\ p \in Seq(Seq(Instances)) /\ Len(p) = Len(q) + 1 /\ p[Len(q) + 1] = e
        /\ \A i \in 1..Len(q) : p[i] = q[i]
        /\ Len(q) \in Nat
    OBVIOUS
  <2>2. Joined(p) = a \o e /\ a \in Seq(Instances)
    BY JoinedAppend, JoinedType
  <2>3. \A n \in 1..Len(a) : \E i \in 1..Len(q) : \E k \in 1..Len(q[i]) : a[n] = q[i][k]
    BY JoinedFrom
  <2> HIDE DEF p, a
  <2>4. ASSUME Sorts(p, R) PROVE SortedBy(a \o e, R)
    <3>1. Len(q) + 1 \in 1..Len(p) /\ \A i \in 1..Len(q) : i \in 1..Len(p) /\ i < Len(q) + 1
      BY <2>1
    <3>2. Sorts(q, R)
      BY <2>1, <2>4, <3>1 DEF Sorts
    <3>3. SortedBy(a, R)
      BY <1>2, <3>2 DEF a
    <3>4. SortedBy(e, R) /\ \A i \in 1..Len(q) : Between(q[i], e, R)
      BY <2>1, <2>4, <3>1 DEF Sorts
    <3>5. Between(a, e, R)
      BY <2>3, <3>4 DEF Between
    <3> QED
      BY <2>2, <3>3, <3>4, <3>5, SortedConcat
  <2> QED
    BY <2>1, <2>2, <2>4 DEF p
<1> HIDE DEF Q
<1>3. \A q \in Seq(Seq(Instances)) : q \in Q
  BY <1>1, <1>2, AllLists
<1> QED
  BY <1>3 DEF Q

\* Of two above one, one is above the other.
LEMMA AboveLine ==
    ASSUME NEW parent \in [Instances -> Spots], Rooted(parent), NEW d \in Instances,
           NEW a \in Above(parent, d), NEW b \in Above(parent, d)
    PROVE  a \in Above(parent, b) \/ b \in Above(parent, a)
<1> DEFINE Line(z) == a \in Above(parent, z) /\ b \in Above(parent, z) => a \in Above(parent, b) \/ b \in Above(parent, a)
           S == {z \in Instances : ~ Line(z)}
<1>1. S = {}
  <2> SUFFICES ASSUME S # {} PROVE FALSE
    OBVIOUS
  <2>1. PICK z \in S : parent[z] \notin S
    BY DEF Rooted
  <2>2. z \in Instances /\ parent[z] \in Spots /\ Above(parent, z) = {z} \cup Above(parent, parent[z])
    BY <2>1, AboveIs
  <2>3. a \in Above(parent, z) /\ b \in Above(parent, z) /\ a \notin Above(parent, b) /\ b \notin Above(parent, a)
    BY <2>1
  <2>4. a # z /\ b # z
    BY <2>3
  <2>5. a \in Above(parent, parent[z]) /\ b \in Above(parent, parent[z])
    BY <2>2, <2>3, <2>4
  <2>6. Above(parent, Nil) = {}
    BY AboveIs
  <2>7. parent[z] \in Instances
    BY <2>2, <2>5, <2>6 DEF Spots
  <2> QED
    BY <2>1, <2>3, <2>5, <2>7
<1> QED
  BY <1>1

\* Two children of one are not above the same.
LEMMA OneBranch ==
    ASSUME NEW parent \in [Instances -> Spots], Rooted(parent), NEW d \in Instances,
           NEW a \in Instances, NEW b \in Instances, a \in Above(parent, d), b \in Above(parent, d),
           parent[a] = parent[b]
    PROVE  a = b
<1>1. ASSUME NEW u \in Instances, NEW v \in Instances, u # v, parent[u] = parent[v], u \in Above(parent, v) PROVE FALSE
  <2>1. Above(parent, v) = {v} \cup Above(parent, parent[v])
    BY AboveIs
  <2>2. u \in Above(parent, parent[u])
    BY <1>1, <2>1
  <2> QED
    BY <2>2, NotAboveItself
<1>2. a \in Above(parent, b) \/ b \in Above(parent, a)
  BY AboveLine
<1> QED
  BY <1>1, <1>2

-----------------------------------------------------------------------------
\* One is above the other, or they are under two children of one.
Over(parent, d, e) == d # e /\ d \in Above(parent, e)
ForkAt(kids, parent, d, e, p, i, j) ==
    i < j /\ kids[p][i] \in Above(parent, d) /\ kids[p][j] \in Above(parent, e)
Forks(kids, parent, d, e) ==
    \E p \in Instances : \E i, j \in 1..Len(kids[p]) : ForkAt(kids, parent, d, e, p, i, j)
Document(kids, parent) ==
    {e \in Instances \X Instances : Over(parent, e[1], e[2]) \/ Forks(kids, parent, e[1], e[2])}

LEMMA DocumentIs ==
    ASSUME NEW kids, NEW parent, NEW d \in Instances, NEW e \in Instances
    PROVE  <<d, e>> \in Document(kids, parent) <=> Over(parent, d, e) \/ Forks(kids, parent, d, e)
BY DEF Document

\* Nobody forks from one that is above it, or from itself.
LEMMA ForksApart ==
    ASSUME NEW parent \in [Instances -> Spots], Rooted(parent),
           NEW kids \in [Instances -> Seq(Instances)], Matched(kids, parent),
           NEW d \in Instances, NEW e \in Instances, NEW p \in Instances,
           NEW i \in 1..Len(kids[p]), NEW j \in 1..Len(kids[p]),
           i # j, kids[p][i] \in Above(parent, d), kids[p][j] \in Above(parent, e)
    PROVE  d \notin Above(parent, e)
<1> SUFFICES ASSUME d \in Above(parent, e) PROVE FALSE
  OBVIOUS
<1> DEFINE a == kids[p][i]
           b == kids[p][j]
<1>1. a \in Instances /\ b \in Instances /\ parent[a] = p /\ parent[b] = p
  BY DEF Matched
<1>2. a \in Above(parent, d) /\ b \in Above(parent, e)
  OBVIOUS
<1>3. a # b
  BY DEF Matched
<1> HIDE DEF a, b
<1>4. Above(parent, d) \subseteq Above(parent, e)
  BY AboveAbove DEF Spots
<1> QED
  BY <1>1, <1>2, <1>3, <1>4, OneBranch

\* Two forks in opposite order are one fork.
LEMMA ForksOnce ==
    ASSUME NEW parent \in [Instances -> Spots], Rooted(parent),
           NEW kids \in [Instances -> Seq(Instances)], Matched(kids, parent),
           NEW d \in Instances, NEW e \in Instances, Forks(kids, parent, d, e), Forks(kids, parent, e, d)
    PROVE  FALSE
<1>1. PICK p \in Instances : \E i, j \in 1..Len(kids[p]) : ForkAt(kids, parent, d, e, p, i, j)
  BY DEF Forks
<1>2. PICK i \in 1..Len(kids[p]), j \in 1..Len(kids[p]) : ForkAt(kids, parent, d, e, p, i, j)
  BY <1>1
<1>3. PICK r \in Instances : \E k, l \in 1..Len(kids[r]) : ForkAt(kids, parent, e, d, r, k, l)
  BY DEF Forks
<1>4. PICK k \in 1..Len(kids[r]), l \in 1..Len(kids[r]) : ForkAt(kids, parent, e, d, r, k, l)
  BY <1>3
<1> DEFINE a == kids[p][i]
           b == kids[p][j]
           f == kids[r][k]
           g == kids[r][l]
<1>5. /\ a \in Instances /\ b \in Instances /\ parent[a] = p /\ parent[b] = p
      /\ f \in Instances /\ g \in Instances /\ parent[f] = r /\ parent[g] = r
  <2>1. \A z \in Instances : \A n \in 1..Len(kids[z]) : kids[z][n] \in Instances /\ parent[kids[z][n]] = z
    BY DEF Matched
  <2> QED
    BY <2>1
<1>6. i \in Int /\ j \in Int /\ k \in Int /\ l \in Int /\ i < j /\ k < l
  BY <1>2, <1>4 DEF ForkAt
<1>7. a \in Above(parent, d) /\ g \in Above(parent, d) /\ b \in Above(parent, e) /\ f \in Above(parent, e)
  BY <1>2, <1>4 DEF ForkAt
<1>8. a # b /\ f # g
  BY <1>6 DEF Matched
<1>9. p = r => (a = g => i = l) /\ (b = f => j = k)
  BY DEF Matched
<1> HIDE DEF a, b, f, g
<1>10. CASE p = r
  <2>1. a = g /\ b = f
    BY <1>5, <1>7, <1>10, OneBranch
  <2> QED
    BY <1>6, <1>9, <1>10, <2>1
<1>11. ASSUME NEW u \in Instances, NEW v \in Instances, NEW w \in Instances, NEW x \in Instances,
              u # v, parent[u] = parent[v], parent[w] = parent[x], parent[u] # parent[w],
              u \in Above(parent, d), v \in Above(parent, e), w \in Above(parent, d), x \in Above(parent, e),
              parent[u] \in Instances, parent[w] \in Instances,
              parent[u] \in Above(parent, parent[w])
       PROVE  FALSE
  <2> DEFINE s == parent[w]
             q == parent[u]
  <2>0. \A y \in Instances : Above(parent, y) = {y} \cup Above(parent, parent[y])
    BY AboveIs
  <2>1. /\ Above(parent, w) = {w} \cup Above(parent, s) /\ Above(parent, x) = {x} \cup Above(parent, s)
        /\ Above(parent, u) = {u} \cup Above(parent, q) /\ Above(parent, v) = {v} \cup Above(parent, q)
    BY <1>11, <2>0
  <2>2. s \in Above(parent, s)
    BY <1>11, <2>0
  <2>3. s \in Above(parent, d) /\ s \in Above(parent, e)
    <3>1. Above(parent, w) \subseteq Above(parent, d) /\ Above(parent, x) \subseteq Above(parent, e)
      BY <1>11, AboveAbove DEF Spots
    <3> QED
      BY <2>1, <2>2, <3>1
  <2>4. q \in Instances /\ s \in Instances /\ q # s /\ q \in Above(parent, s)
    BY <1>11
  <2> HIDE DEF s, q
  <2>5. s \notin Above(parent, q)
    BY <2>4, AboveOnce
  <2>6. u \in Above(parent, s) \/ s \in Above(parent, u)
    BY <1>11, <2>3, AboveLine
  <2>7. v \in Above(parent, s) \/ s \in Above(parent, v)
    BY <1>11, <2>3, AboveLine
  <2>8. u \in Above(parent, s)
    BY <2>1, <2>2, <2>5, <2>6
  <2>9. v \in Above(parent, s)
    BY <2>1, <2>2, <2>5, <2>7
  <2> QED
    BY <1>11, <2>4, <2>8, <2>9, OneBranch
<1>12. CASE p # r
  <2>1. p \in Above(parent, d) /\ r \in Above(parent, d)
    <3>1. Above(parent, a) \subseteq Above(parent, d) /\ Above(parent, g) \subseteq Above(parent, d)
      BY <1>5, <1>7, AboveAbove DEF Spots
    <3>0. \A y \in Instances : Above(parent, y) = {y} \cup Above(parent, parent[y])
      BY AboveIs
    <3>2. p \in Above(parent, a) /\ r \in Above(parent, g)
      BY <1>5, <3>0
    <3> QED
      BY <3>1, <3>2
  <2>2. p \in Above(parent, r) \/ r \in Above(parent, p)
    BY <2>1, AboveLine
  <2>3. CASE p \in Above(parent, r)
    BY <1>5, <1>7, <1>8, <1>12, <2>3, <1>11
  <2>4. CASE r \in Above(parent, p)
    BY <1>5, <1>7, <1>8, <1>12, <2>4, <1>11
  <2> QED
    BY <2>2, <2>3, <2>4
<1> QED
  BY <1>10, <1>12

\* The order of a document has a direction.
LEMMA DocumentOnce ==
    ASSUME NEW parent \in [Instances -> Spots], Rooted(parent),
           NEW kids \in [Instances -> Seq(Instances)], Matched(kids, parent),
           NEW d \in Instances, NEW e \in Instances, <<d, e>> \in Document(kids, parent)
    PROVE  d # e /\ <<e, d>> \notin Document(kids, parent)
<1>1. Over(parent, d, e) \/ Forks(kids, parent, d, e)
  BY DocumentIs
<1>2. ASSUME NEW u \in Instances, NEW v \in Instances, Forks(kids, parent, u, v)
      PROVE  u \notin Above(parent, v) /\ v \notin Above(parent, u)
  <2>1. PICK p \in Instances : \E i, j \in 1..Len(kids[p]) : ForkAt(kids, parent, u, v, p, i, j)
    BY <1>2 DEF Forks
  <2>2. PICK i \in 1..Len(kids[p]), j \in 1..Len(kids[p]) : ForkAt(kids, parent, u, v, p, i, j)
    BY <2>1
  <2>3. i # j /\ kids[p][i] \in Above(parent, u) /\ kids[p][j] \in Above(parent, v)
    BY <2>2 DEF ForkAt
  <2> QED
    BY <2>3, ForksApart
<1>3. d # e
  <2>1. d \in Above(parent, d)
    BY AboveIs
  <2> QED
    BY <1>1, <1>2, <2>1 DEF Over
<1>4. ASSUME Over(parent, e, d) PROVE FALSE
  <2>1. e \in Above(parent, d)
    BY <1>4 DEF Over
  <2>2. Over(parent, d, e)
    BY <1>1, <1>2, <2>1
  <2> QED
    BY <1>3, <2>1, <2>2, AboveOnce DEF Over
<1>5. ASSUME Forks(kids, parent, e, d) PROVE FALSE
  <2>1. d \notin Above(parent, e)
    BY <1>2, <1>5
  <2>2. Forks(kids, parent, d, e)
    BY <1>1, <2>1 DEF Over
  <2> QED
    BY <1>5, <2>2, ForksOnce
<1> QED
  BY <1>3, <1>4, <1>5, DocumentIs

-----------------------------------------------------------------------------
\* The walk down is in the order of the document.
LEMMA BelowSorted ==
    ASSUME NEW parent \in [Instances -> Spots], Rooted(parent),
           NEW kids \in [Instances -> Seq(Instances)], Matched(kids, parent)
    PROVE  \A y \in Instances : SortedBy(Below(kids, y), Document(kids, parent))
<1> DEFINE R == Document(kids, parent)
           Q == {y \in Instances : SortedBy(Below(kids, y), R)}
<1>1. ASSUME NEW z \in Instances, \A i \in 1..Len(kids[z]) : kids[z][i] \in Q PROVE z \in Q
  <2> DEFINE q == [i \in DOMAIN kids[z] |-> Below(kids, kids[z][i])]
             j == Joined(q)
             h == <<z>>
  <2>1. q \in Seq(Seq(Instances)) /\ Len(q) = Len(kids[z])
        /\ \A i \in 1..Len(kids[z]) : q[i] = Below(kids, kids[z][i])
    <3>1. DOMAIN kids[z] = 1..Len(kids[z]) /\ Len(kids[z]) \in Nat
      OBVIOUS
    <3>2. \A i \in DOMAIN kids[z] : Below(kids, kids[z][i]) \in Seq(Instances)
      <4>1. \A i \in DOMAIN kids[z] : kids[z][i] \in Instances
        BY <3>1
      <4> QED
        BY <4>1, BelowType
    <3>3. q \in [1..Len(kids[z]) -> Seq(Instances)]
      BY <3>1, <3>2
    <3>4. \A i \in 1..Len(kids[z]) : q[i] = Below(kids, kids[z][i])
      BY <3>1
    <3> HIDE DEF q
    <3> QED
      BY <3>1, <3>3, <3>4, ListOf
  <2>2. Below(kids, z) = h \o j
    BY BelowIs
  <2>3. \A i \in 1..Len(kids[z]) : kids[z][i] \in Instances
    OBVIOUS
  <2>4. ASSUME NEW i \in 1..Len(kids[z]) PROVE \A n \in 1..Len(q[i]) : q[i][n] \in Under(parent, kids[z][i])
    <3>1. Walk(Below(kids, kids[z][i]), parent, kids[z][i])
      BY <2>3, BelowMembers
    <3> QED
      BY <2>1, <3>1 DEF Walk
  <2>5. \A i \in 1..Len(kids[z]) : SortedBy(q[i], R)
    BY <1>1, <2>1
  <2> HIDE DEF q, Q
  <2>6. \A n \in 1..Len(j) : \E i \in 1..Len(q) : \E k \in 1..Len(q[i]) : j[n] = q[i][k]
    BY <2>1, JoinedFrom
  <2>7. j \in Seq(Instances) /\ h \in Seq(Instances) /\ Len(h) = 1 /\ h[1] = z
    BY <2>1, JoinedType
  <2> HIDE DEF h
  <2>8. ASSUME NEW i \in 1..Len(q), NEW k \in 1..Len(q), i < k PROVE Between(q[i], q[k], R)
    <3> SUFFICES ASSUME NEW n \in 1..Len(q[i]), NEW m \in 1..Len(q[k]) PROVE <<q[i][n], q[k][m]>> \in R
      BY DEF Between
    <3> DEFINE d == q[i][n]
               e == q[k][m]
    <3>1. d \in Instances /\ kids[z][i] \in Above(parent, d) /\ e \in Instances /\ kids[z][k] \in Above(parent, e)
          /\ i \in 1..Len(kids[z]) /\ k \in 1..Len(kids[z])
      BY <2>1, <2>4 DEF Under
    <3> HIDE DEF d, e
    <3>2. Forks(kids, parent, d, e)
      BY <2>8, <3>1 DEF Forks, ForkAt
    <3>3. <<d, e>> \in Document(kids, parent)
      BY <3>1, <3>2, DocumentIs
    <3> QED
      BY <3>3 DEF d, e
  <2>9. Sorts(q, R)
    BY <2>1, <2>5, <2>8 DEF Sorts
  <2>10. SortedBy(j, R)
    BY <2>1, <2>9, SortedJoined
  <2>11. Between(h, j, R)
    <3> SUFFICES ASSUME NEW n \in 1..Len(j) PROVE <<z, j[n]>> \in R
      BY <2>7 DEF Between
    <3>1. PICK i \in 1..Len(kids[z]) : \E k \in 1..Len(q[i]) : j[n] = q[i][k]
      BY <2>1, <2>6
    <3> DEFINE e == j[n]
    <3>2. e \in Under(parent, kids[z][i])
      BY <2>4, <3>1
    <3>3. z \notin Under(parent, kids[z][i]) /\ Under(parent, kids[z][i]) \subseteq Under(parent, z)
      BY <3>1, UnderIs
    <3> HIDE DEF e
    <3>4. e \in Instances /\ z \in Above(parent, e) /\ z # e
      BY <3>2, <3>3 DEF Under
    <3>5. <<z, e>> \in Document(kids, parent)
      BY <3>4, DocumentIs DEF Over
    <3> QED
      BY <3>5 DEF e
  <2>12. SortedBy(h, R)
    BY <2>7 DEF SortedBy
  <2> HIDE DEF j, R
  <2>13. SortedBy(h \o j, R)
    BY <2>7, <2>10, <2>11, <2>12, SortedConcat
  <2> QED
    BY <2>2, <2>13 DEF Q
<1> HIDE DEF Q
<1>2. \A y \in Instances : y \in Q
  BY <1>1, AllBelow
<1> QED
  BY <1>2 DEF Q

\* What is counted up is every number in turn.
LEMMA CountedUp ==
    ASSUME NEW s \in Seq(Int), NEW m \in Nat, NEW n \in Nat,
           \A i, j \in 1..Len(s) : i < j => s[i] < s[j],
           \A i \in 1..Len(s) : s[i] \in (m + 1)..(m + n),
           \A v \in (m + 1)..(m + n) : \E i \in 1..Len(s) : s[i] = v
    PROVE  Len(s) = n /\ \A i \in 1..n : s[i] = m + i
<1>1. Len(s) \in Nat /\ \A i \in 1..Len(s) : s[i] \in Int
  OBVIOUS
<1> DEFINE Q == {k \in Nat : k <= n => k <= Len(s) /\ \A i \in 1..k : s[i] = m + i}
<1>2. 0 \in Q
  BY <1>1
<1>3. ASSUME NEW k \in Nat, k \in Q PROVE k + 1 \in Q
  <2> SUFFICES ASSUME k + 1 <= n PROVE k + 1 <= Len(s) /\ \A i \in 1..(k + 1) : s[i] = m + i
    OBVIOUS
  <2>1. k <= Len(s) /\ \A i \in 1..k : s[i] = m + i
    BY <1>3
  <2>2. m + (k + 1) \in (m + 1)..(m + n)
    OBVIOUS
  <2>3. PICK l \in 1..Len(s) : s[l] = m + (k + 1)
    BY <2>2
  <2>4. l \notin 1..k
    BY <2>1, <2>3
  <2>5. k + 1 <= l /\ k + 1 \in 1..Len(s)
    BY <1>1, <2>4
  <2>6. s[k + 1] \in Int /\ s[k + 1] <= m + (k + 1)
    <3> DEFINE u == s[k + 1]
               w == s[l]
    <3>1. u \in Int /\ w \in Int
      BY <1>1, <2>5
    <3>2. k + 1 < l => u < w
      BY <2>5
    <3>3. k + 1 = l => u = w
      OBVIOUS
    <3>4. k + 1 < l \/ k + 1 = l
      BY <1>1, <2>5
    <3>5. w = m + (k + 1)
      BY <2>3
    <3> HIDE DEF u, w
    <3>6. u \in Int /\ u <= m + (k + 1)
      BY <3>1, <3>2, <3>3, <3>4, <3>5
    <3> QED
      BY <3>6 DEF u
  <2>7. s[k + 1] >= m + (k + 1)
    <3>1. CASE k = 0
      BY <2>5, <3>1
    <3>2. CASE k # 0
      <4>1. k \in 1..k /\ k \in 1..Len(s) /\ k < k + 1
        BY <1>1, <2>1, <3>2
      <4>2. s[k] = m + k /\ s[k] < s[k + 1]
        BY <2>1, <2>5, <4>1
      <4> DEFINE u == s[k + 1]
      <4>3. u \in Int /\ m + k < u
        BY <1>1, <2>5, <4>2
      <4> HIDE DEF u
      <4>4. u >= m + (k + 1)
        BY <4>3
      <4> QED
        BY <4>4 DEF u
    <3> QED
      BY <3>1, <3>2
  <2>8. s[k + 1] = m + (k + 1)
    <3> DEFINE u == s[k + 1]
    <3>1. u \in Int /\ u <= m + (k + 1) /\ u >= m + (k + 1)
      BY <2>6, <2>7
    <3> HIDE DEF u
    <3>2. u = m + (k + 1)
      BY <3>1
    <3> QED
      BY <3>2 DEF u
  <2>9. \A i \in 1..(k + 1) : i \in 1..k \/ i = k + 1
    OBVIOUS
  <2>10. \A i \in 1..(k + 1) : s[i] = m + i
    BY <2>1, <2>8, <2>9
  <2>11. k + 1 <= Len(s)
    BY <1>1, <2>5
  <2> QED
    BY <2>10, <2>11
<1> HIDE DEF Q
<1>4. n \in Q
  <2>1. \A k \in Nat : k \in Q
    BY <1>2, <1>3, AllNumbers
  <2> QED
    BY <2>1
<1>5. n <= Len(s) /\ \A i \in 1..n : s[i] = m + i
  BY <1>4 DEF Q
<1>6. ASSUME n < Len(s) PROVE FALSE
  <2>1. n + 1 \in 1..Len(s)
    BY <1>1, <1>6
  <2>2. s[n + 1] \in (m + 1)..(m + n)
    BY <2>1
  <2>3. CASE n = 0
    BY <2>2, <2>3
  <2>4. CASE n # 0
    <3>1. n \in 1..n /\ n \in 1..Len(s) /\ n < n + 1
      BY <1>1, <1>5, <2>4
    <3>2. s[n] = m + n /\ s[n] < s[n + 1]
      BY <1>5, <2>1, <3>1
    <3> QED
      BY <2>2, <3>2
  <2> QED
    BY <2>3, <2>4
<1> QED
  BY <1>1, <1>5, <1>6

-----------------------------------------------------------------------------
(* A copy beside what it was made from *)

\* The members of a walk, numbered, and their copies: parents are copied to
\* parents, and no list of the copies is out of order.
Twins(parent, kids, members, m, to, lists) ==
    /\ Mirrors(parent, members, m, to)
    /\ Rooted(parent) /\ kids \in [Instances -> Seq(Instances)] /\ Matched(kids, parent)
    /\ lists \in [Instances -> Seq(Instances)] /\ Matched(lists, to)
    /\ Len(members) >= 1 /\ Walk(members, parent, members[1]) /\ SortedBy(members, Document(kids, parent))
    /\ to[m + 1] = Nil /\ \A k \in 2..Len(members) : to[m + k] # Nil
    /\ \A y \in Instances : y \notin (m + 1)..(m + Len(members)) => to[y] <= m
    /\ \A q \in Instances : q > m => Rising(lists[q])

LEMMA TwinsAre ==
    ASSUME NEW parent, NEW kids, NEW members, NEW m, NEW to, NEW lists, Twins(parent, kids, members, m, to, lists)
    PROVE  /\ parent \in [Instances -> Spots] /\ to \in [Instances -> Spots] /\ Rooted(parent) /\ Rooted(to)
           /\ kids \in [Instances -> Seq(Instances)] /\ Matched(kids, parent)
           /\ lists \in [Instances -> Seq(Instances)] /\ Matched(lists, to)
           /\ m \in Nat /\ Len(members) \in Nat /\ Len(members) >= 1
           /\ \A k \in 1..Len(members) : members[k] \in Instances /\ m + k \in Instances
<1>1. /\ parent \in [Instances -> Spots] /\ to \in [Instances -> Spots] /\ Rooted(parent) /\ Rooted(to)
      /\ kids \in [Instances -> Seq(Instances)] /\ Matched(kids, parent)
      /\ lists \in [Instances -> Seq(Instances)] /\ Matched(lists, to)
      /\ m \in Nat /\ Len(members) \in Nat /\ Len(members) >= 1 /\ m + Len(members) <= MaxInstances
      /\ \A k \in 1..Len(members) : members[k] \in Instances
  BY DEF Twins, Mirrors
<1>2. \A k \in 1..Len(members) : m + k \in Instances
  BY <1>1, WorldAssumption DEF Instances
<1> QED
  BY <1>1, <1>2

\* The numbers are in the order of the document.
LEMMA MemberOrder ==
    ASSUME NEW parent, NEW kids, NEW members, NEW m, NEW to, NEW lists, Twins(parent, kids, members, m, to, lists),
           NEW j \in 1..Len(members), NEW k \in 1..Len(members),
           <<members[j], members[k]>> \in Document(kids, parent)
    PROVE  j < k
<1>1. /\ parent \in [Instances -> Spots] /\ Rooted(parent)
      /\ kids \in [Instances -> Seq(Instances)] /\ Matched(kids, parent)
      /\ Len(members) \in Nat /\ members[j] \in Instances /\ members[k] \in Instances
  BY TwinsAre
<1>2. members[j] # members[k] /\ <<members[k], members[j]>> \notin Document(kids, parent)
  BY <1>1, DocumentOnce
<1>3. SortedBy(members, Document(kids, parent))
  BY DEF Twins
<1>4. ~(k < j)
  BY <1>2, <1>3 DEF SortedBy
<1> QED
  BY <1>1, <1>2, <1>4

\* Different numbers are of different members.
LEMMA MembersDiffer ==
    ASSUME NEW parent, NEW kids, NEW members, NEW m, NEW to, NEW lists, Twins(parent, kids, members, m, to, lists),
           NEW j \in 1..Len(members), NEW k \in 1..Len(members), members[j] = members[k]
    PROVE  j = k
<1>1. /\ parent \in [Instances -> Spots] /\ Rooted(parent)
      /\ kids \in [Instances -> Seq(Instances)] /\ Matched(kids, parent)
      /\ Len(members) \in Nat /\ \A n \in 1..Len(members) : members[n] \in Instances
  BY TwinsAre
<1>2. ASSUME NEW a \in 1..Len(members), NEW b \in 1..Len(members), a < b PROVE members[a] # members[b]
  <2>1. <<members[a], members[b]>> \in Document(kids, parent)
    BY <1>2 DEF Twins, SortedBy
  <2> QED
    BY <1>1, <2>1, DocumentOnce
<1> QED
  BY <1>1, <1>2

\* Above a copy are copies; and the copies are those under the first.
LEMMA TwinAbove ==
    ASSUME NEW parent, NEW kids, NEW members, NEW m, NEW to, NEW lists, Twins(parent, kids, members, m, to, lists),
           NEW k \in 1..Len(members), NEW y \in Above(to, m + k)
    PROVE  \E j \in 1..Len(members) : y = m + j /\ members[j] \in Above(parent, members[k])
<1>1. Mirrors(parent, members, m, to)
  BY DEF Twins
<1> QED
  BY <1>1, MirrorAbove

LEMMA TwinsUnder ==
    ASSUME NEW parent, NEW kids, NEW members, NEW m, NEW to, NEW lists, Twins(parent, kids, members, m, to, lists)
    PROVE  Under(to, m + 1) = (m + 1)..(m + Len(members))
<1> DEFINE L == Len(members)
           C == (m + 1)..(m + L)
<1>1. /\ to \in [Instances -> Spots] /\ Rooted(to) /\ m \in Nat /\ L \in Nat /\ L >= 1
      /\ \A k \in 1..L : m + k \in Instances
  BY TwinsAre
<1>2. /\ \A y \in Instances : Above(to, y) = {y} \cup Above(to, to[y])
      /\ Above(to, Nil) = {}
  BY <1>1, AboveIs
<1>3. m + 1 \in Instances /\ m + 1 \in C /\ C \subseteq Instances
  <2>1. \A y \in C : y - m \in 1..L /\ y = m + (y - m)
    BY <1>1
  <2> QED
    BY <1>1, <2>1
<1>4. \A y \in Instances : y \in C \ {m + 1} => to[y] # Nil
  <2> SUFFICES ASSUME NEW y \in C \ {m + 1} PROVE to[y] # Nil
    OBVIOUS
  <2>1. y - m \in 2..L /\ y = m + (y - m)
    BY <1>1
  <2> QED
    BY <2>1 DEF Twins
<1>5. \A y \in Instances : y \notin C => to[y] <= m
  BY DEF Twins
<1>6. ASSUME NEW y \in C PROVE to[y] \in C \cup {Nil}
  <2>1. y - m \in 1..L /\ y = m + (y - m)
    BY <1>1
  <2>2. CASE to[y] # Nil
    <3> DEFINE k == y - m
    <3>0. k \in 1..Len(members) /\ y = m + k /\ to[m + k] # Nil
      BY <2>1, <2>2
    <3> HIDE DEF k
    <3>1. \E j \in 1..L : to[y] = m + j
      BY <3>0 DEF Twins, Mirrors
    <3> QED
      BY <1>1, <3>1
  <2> QED
    BY <2>2
<1> HIDE DEF C
<1>7. ASSUME NEW y \in C PROVE m + 1 \in Above(to, y)
  <2> DEFINE S == {z \in C : m + 1 \notin Above(to, z)}
  <2>1. S = {}
    <3> SUFFICES ASSUME S # {} PROVE FALSE
      OBVIOUS
    <3>1. S \in SUBSET Instances
      BY <1>3
    <3>2. PICK z \in S : to[z] \notin S
      BY <1>1, <3>1 DEF Rooted
    <3>3. z # m + 1 /\ z \in Instances
      BY <1>2, <1>3, <3>2
    <3>4. to[z] \in C
      BY <1>4, <1>6, <3>2, <3>3
    <3>5. m + 1 \in Above(to, to[z])
      BY <3>2, <3>4
    <3> QED
      BY <1>2, <3>2, <3>3, <3>5
  <2> QED
    BY <2>1
<1>8. ASSUME NEW y \in Instances, m + 1 \in Above(to, y) PROVE y \in C
  <2> DEFINE S == {z \in Instances : z \notin C /\ m + 1 \in Above(to, z)}
  <2>1. S = {}
    <3> SUFFICES ASSUME S # {} PROVE FALSE
      OBVIOUS
    <3>2. PICK z \in S : to[z] \notin S
      BY <1>1 DEF Rooted
    <3>3. z # m + 1 /\ z \in Instances /\ to[z] <= m
      BY <1>3, <1>5, <3>2
    <3>4. m + 1 \in Above(to, to[z])
      BY <1>2, <3>2, <3>3
    <3>5. to[z] # Nil /\ to[z] \in Instances
      BY <1>1, <1>2, <3>3, <3>4 DEF Spots
    <3>6. to[z] \notin C
      <4>1. to[z] \in Int
        BY <3>5 DEF Instances
      <4> QED
        BY <1>1, <3>3, <4>1 DEF C
    <3> QED
      BY <3>2, <3>4, <3>5, <3>6
  <2> QED
    BY <1>8, <2>1
<1> QED
  BY <1>3, <1>7, <1>8 DEF Under, C

-----------------------------------------------------------------------------
\* Who is under one that forks, forks.
LEMMA ForksDown ==
    ASSUME NEW parent \in [Instances -> Spots], Rooted(parent),
           NEW kids, NEW d \in Instances, NEW e \in Instances, Forks(kids, parent, d, e),
           NEW u \in Instances, NEW v \in Instances, d \in Above(parent, u), e \in Above(parent, v)
    PROVE  Forks(kids, parent, u, v)
<1>1. Above(parent, d) \subseteq Above(parent, u) /\ Above(parent, e) \subseteq Above(parent, v)
  BY AboveAbove DEF Spots
<1>2. PICK p \in Instances : \E i, j \in 1..Len(kids[p]) : ForkAt(kids, parent, d, e, p, i, j)
  BY DEF Forks
<1>3. PICK i \in 1..Len(kids[p]), j \in 1..Len(kids[p]) : ForkAt(kids, parent, d, e, p, i, j)
  BY <1>2
<1>4. ForkAt(kids, parent, u, v, p, i, j)
  BY <1>1, <1>3 DEF ForkAt
<1> QED
  BY <1>4 DEF Forks

\* The parent of a copy is the copy of the parent.
LEMMA TwinParent ==
    ASSUME NEW parent, NEW kids, NEW members, NEW m, NEW to, NEW lists, Twins(parent, kids, members, m, to, lists),
           NEW k \in 1..Len(members), to[m + k] # Nil
    PROVE  \E j \in 1..Len(members) : to[m + k] = m + j /\ members[j] = parent[members[k]]
BY DEF Twins, Mirrors

\* The copies are in the order of their document.
LEMMA TwinOrder ==
    ASSUME NEW parent, NEW kids, NEW members, NEW m, NEW to, NEW lists, Twins(parent, kids, members, m, to, lists),
           NEW j \in 1..Len(members), NEW k \in 1..Len(members),
           <<m + j, m + k>> \in Document(lists, to)
    PROVE  j < k
<1> DEFINE L == Len(members)
<1>1. /\ parent \in [Instances -> Spots] /\ to \in [Instances -> Spots] /\ Rooted(parent) /\ Rooted(to)
      /\ kids \in [Instances -> Seq(Instances)] /\ Matched(kids, parent)
      /\ lists \in [Instances -> Seq(Instances)] /\ Matched(lists, to)
      /\ m \in Nat /\ L \in Nat
      /\ \A i \in 1..L : members[i] \in Instances /\ m + i \in Instances
  BY TwinsAre
<1>2. ASSUME <<members[j], members[k]>> \in Document(kids, parent) PROVE j < k
  BY <1>2, MemberOrder
<1>3. Over(to, m + j, m + k) \/ Forks(lists, to, m + j, m + k)
  BY <1>1, DocumentIs
<1>4. CASE Over(to, m + j, m + k)
  <2>1. m + j \in Above(to, m + k) /\ m + j # m + k
    BY <1>4 DEF Over
  <2>2. PICK i \in 1..L : m + j = m + i /\ members[i] \in Above(parent, members[k])
    BY <2>1, TwinAbove
  <2>3. i = j /\ j # k
    BY <1>1, <2>1, <2>2
  <2>4. members[j] # members[k]
    BY <2>3, MembersDiffer
  <2>5. <<members[j], members[k]>> \in Document(kids, parent)
    BY <1>1, <2>2, <2>3, <2>4, DocumentIs DEF Over
  <2> QED
    BY <1>2, <2>5
<1>5. CASE Forks(lists, to, m + j, m + k)
  <2>1. PICK p \in Instances : \E a, b \in 1..Len(lists[p]) : ForkAt(lists, to, m + j, m + k, p, a, b)
    BY <1>5 DEF Forks
  <2>2. PICK a \in 1..Len(lists[p]), b \in 1..Len(lists[p]) : ForkAt(lists, to, m + j, m + k, p, a, b)
    BY <2>1
  <2>3. /\ a < b /\ lists[p][a] \in Above(to, m + j) /\ lists[p][b] \in Above(to, m + k)
        /\ to[lists[p][a]] = p /\ to[lists[p][b]] = p
    BY <1>1, <2>2 DEF ForkAt, Matched
  <2>4. PICK u \in 1..L : lists[p][a] = m + u /\ members[u] \in Above(parent, members[j])
    BY <2>3, TwinAbove
  <2>5. PICK v \in 1..L : lists[p][b] = m + v /\ members[v] \in Above(parent, members[k])
    BY <2>3, TwinAbove
  <2>6. p # Nil
    BY NilIs
  <2>7. PICK s \in 1..L : to[m + u] = m + s /\ members[s] = parent[members[u]]
    BY <2>3, <2>4, <2>6, TwinParent
  <2>8. PICK t \in 1..L : to[m + v] = m + t /\ members[t] = parent[members[v]]
    BY <2>3, <2>5, <2>6, TwinParent
  <2>9. s = t /\ p > m
    <3>1. m + s = p /\ m + t = p
      BY <2>3, <2>4, <2>5, <2>7, <2>8
    <3> QED
      BY <1>1, <3>1
  <2>10. u < v
    <3>1. Rising(lists[p])
      BY <2>9 DEF Twins
    <3>2. m + u < m + v
      BY <2>3, <2>4, <2>5, <3>1 DEF Rising
    <3> QED
      BY <1>1, <3>2
  <2>11. <<members[u], members[v]>> \in Document(kids, parent)
    BY <2>10 DEF Twins, SortedBy
  <2>12. members[u] # members[v]
    BY <2>10, MembersDiffer
  <2>13. ~ Over(parent, members[u], members[v])
    <3> SUFFICES ASSUME members[u] \in Above(parent, members[v]) PROVE FALSE
      BY DEF Over
    <3>1. members[v] \in Above(parent, members[v])
      <4>1. \A y \in Instances : Above(parent, y) = {y} \cup Above(parent, parent[y])
        BY <1>1, AboveIs
      <4> QED
        BY <1>1, <4>1
    <3>2. parent[members[u]] = parent[members[v]]
      BY <2>7, <2>8, <2>9
    <3>3. members[u] = members[v]
      BY <1>1, <3>1, <3>2, OneBranch
    <3> QED
      BY <2>12, <3>3
  <2>14. Forks(kids, parent, members[u], members[v])
    BY <1>1, <2>11, <2>13, DocumentIs
  <2>15. Forks(kids, parent, members[j], members[k])
    BY <1>1, <2>4, <2>5, <2>14, ForksDown
  <2>16. <<members[j], members[k]>> \in Document(kids, parent)
    BY <1>1, <2>15, DocumentIs
  <2> QED
    BY <1>2, <2>16
<1> QED
  BY <1>3, <1>4, <1>5

\* A walk down the copies finds them in the order they were made.
LEMMA TwinWalk ==
    ASSUME NEW parent, NEW kids, NEW members, NEW m, NEW to, NEW lists, Twins(parent, kids, members, m, to, lists)
    PROVE  Len(Below(lists, m + 1)) = Len(members) /\ \A i \in 1..Len(members) : Below(lists, m + 1)[i] = m + i
<1> DEFINE L == Len(members)
           c == Below(lists, m + 1)
<1>1. /\ to \in [Instances -> Spots] /\ Rooted(to)
      /\ lists \in [Instances -> Seq(Instances)] /\ Matched(lists, to)
      /\ m \in Nat /\ L \in Nat /\ L >= 1 /\ m + 1 \in Instances
      /\ \A i \in 1..L : m + i \in Instances
  BY TwinsAre
<1>2. c \in Seq(Instances) /\ SortedBy(c, Document(lists, to))
  BY <1>1, BelowType, BelowSorted
<1>3. Walk(c, to, m + 1)
  BY <1>1, BelowMembers
<1>4. Under(to, m + 1) = (m + 1)..(m + L)
  BY TwinsUnder
<1> HIDE DEF c
<1>5. /\ \A i \in 1..Len(c) : c[i] \in (m + 1)..(m + L)
      /\ \A d \in (m + 1)..(m + L) : \E i \in 1..Len(c) : c[i] = d
  BY <1>3, <1>4 DEF Walk
<1>6. \A i \in 1..Len(c) : c[i] - m \in 1..L /\ c[i] = m + (c[i] - m)
  BY <1>1, <1>5
<1>7. ASSUME NEW i \in 1..Len(c), NEW k \in 1..Len(c), i < k PROVE c[i] < c[k]
  <2> DEFINE a == c[i] - m
             b == c[k] - m
  <2>1. a \in 1..L /\ b \in 1..L /\ c[i] = m + a /\ c[k] = m + b
    BY <1>6
  <2> HIDE DEF a, b
  <2>2. <<m + a, m + b>> \in Document(lists, to)
    BY <1>2, <1>7, <2>1 DEF SortedBy
  <2>3. a < b
    BY <2>1, <2>2, TwinOrder
  <2> QED
    BY <1>1, <2>1, <2>3
<1>8. c \in Seq(Int)
  <2>1. \A y \in Instances : y \in Int
    BY DEF Instances
  <2> QED
    BY <1>2, <2>1
<1> HIDE DEF L
<1>9. Len(c) = L /\ \A i \in 1..L : c[i] = m + i
  BY <1>1, <1>5, <1>7, <1>8, CountedUp
<1> QED
  BY <1>9 DEF L, c

-----------------------------------------------------------------------------
\* Who each have one of their own among l are l at most.
LEMMA NoMoreThan ==
    ASSUME NEW n \in Nat, NEW l \in Nat, NEW R,
           \A a \in 1..n : \E b \in 1..l : <<a, b>> \in R,
           \A a, k \in 1..n : \A b \in 1..l : <<a, b>> \in R /\ <<k, b>> \in R => a = k
    PROVE  n <= l
<1> SUFFICES ASSUME l < n PROVE FALSE
  OBVIOUS
<1> DEFINE f == [a \in 1..n |-> CHOOSE b \in 1..l : <<a, b>> \in R]
<1>1. \A a \in 1..n : f[a] \in 1..l /\ <<a, f[a]>> \in R
  OBVIOUS
<1>2. f \in [1..n -> 1..l]
  BY <1>1
<1> HIDE DEF f
<1>3. /\ IsFiniteSet(1..n) /\ IsFiniteSet(1..l) /\ Cardinality(1..l) < Cardinality(1..n)
  <2>1. IsFiniteSet(1..n) /\ Cardinality(1..n) = n
    BY FS_Interval
  <2>2. IsFiniteSet(1..l) /\ Cardinality(1..l) = l
    BY FS_Interval
  <2> QED
    BY <2>1, <2>2
<1>4. PICK a \in 1..n, k \in 1..n : a # k /\ f[a] = f[k]
  BY <1>2, <1>3, FS_PigeonHole
<1> QED
  BY <1>1, <1>4

\* Number k is in this place of a copy's list, and its member in that one of the list
\* that was copied.
SameChild(members, m, s, r, k, a, b) == s[a] = m + k /\ r[b] = members[k]

\* Who is in a list is a child of whose list it is.
Listing(kids, parent) ==
    \A p \in Instances : \A b \in 1..Len(kids[p]) : kids[p][b] \in Instances /\ parent[kids[p][b]] = p

LEMMA ListedChild ==
    ASSUME NEW kids \in [Instances -> Seq(Instances)], NEW parent, Matched(kids, parent)
    PROVE  Listing(kids, parent)
<1> SUFFICES ASSUME NEW p \in Instances, NEW b \in 1..Len(kids[p])
             PROVE  kids[p][b] \in Instances /\ parent[kids[p][b]] = p
  BY DEF Listing
<1>1. kids[p] \in Seq(Instances)
  OBVIOUS
<1>2. kids[p][b] \in Instances
  BY <1>1
<1>3. parent[kids[p][b]] = p
  BY DEF Matched
<1> QED
  BY <1>2, <1>3

LEMMA TwinChild ==
    ASSUME NEW parent, NEW kids, NEW members, NEW m, NEW to, NEW lists, Twins(parent, kids, members, m, to, lists),
           NEW i \in 1..Len(members)
    PROVE  LET s == lists[m + i]
               r == kids[members[i]] IN
           /\ \A a \in 1..Len(s) : \E k \in 1..Len(members) : \E b \in 1..Len(r) : SameChild(members, m, s, r, k, a, b)
           /\ \A b \in 1..Len(r) : \E k \in 1..Len(members) : \E a \in 1..Len(s) : SameChild(members, m, s, r, k, a, b)
<1> DEFINE L == Len(members)
           s == lists[m + i]
           r == kids[members[i]]
<1>1. /\ parent \in [Instances -> Spots] /\ to \in [Instances -> Spots] /\ Rooted(parent)
      /\ kids \in [Instances -> Seq(Instances)] /\ Matched(kids, parent)
      /\ lists \in [Instances -> Seq(Instances)] /\ Matched(lists, to)
      /\ m \in Nat /\ L \in Nat /\ L >= 1
      /\ \A k \in 1..L : members[k] \in Instances /\ m + k \in Instances
  BY TwinsAre
<1>0. Listing(kids, parent) /\ Listing(lists, to)
  BY <1>1, ListedChild
<1>2. ASSUME NEW a \in 1..Len(s) PROVE \E k \in 1..L : \E b \in 1..Len(r) : SameChild(members, m, s, r, k, a, b)
  <2> DEFINE y == s[a]
  <2>1. y \in Instances /\ to[y] = m + i
    <3>1. m + i \in Instances
      BY <1>1
    <3> QED
      BY <1>0, <3>1 DEF Listing
  <2> HIDE DEF y
  <2>2. y \in (m + 1)..(m + L)
    <3> SUFFICES ASSUME y \notin (m + 1)..(m + L) PROVE FALSE
      OBVIOUS
    <3>1. to[y] <= m
      BY <2>1 DEF Twins
    <3> QED
      BY <1>1, <2>1, <3>1
  <2> DEFINE k == y - m
  <2>3. k \in 1..L /\ y = m + k
    BY <1>1, <2>2
  <2> HIDE DEF k
  <2>4. to[m + k] # Nil
    BY <1>1, <2>1, <2>3, NilIs
  <2>5. PICK j \in 1..L : to[m + k] = m + j /\ members[j] = parent[members[k]]
    BY <2>3, <2>4, TwinParent
  <2>6. j = i
    BY <1>1, <2>1, <2>3, <2>5
  <2>7. parent[members[k]] = members[i] /\ members[i] # Nil /\ members[k] \in Instances
    BY <1>1, <2>3, <2>5, <2>6, NilIs
  <2>8. PICK b \in 1..Len(kids[parent[members[k]]]) : kids[parent[members[k]]][b] = members[k]
    BY <1>1, <2>7 DEF Matched
  <2>9. b \in 1..Len(r) /\ r[b] = members[k]
    BY <2>7, <2>8
  <2>10. s[a] = m + k
    BY <2>3 DEF y
  <2> HIDE DEF r, s
  <2>11. SameChild(members, m, s, r, k, a, b)
    BY <2>9, <2>10 DEF SameChild
  <2> QED
    BY <2>3, <2>9, <2>11
<1>3. ASSUME NEW b \in 1..Len(r) PROVE \E k \in 1..L : \E a \in 1..Len(s) : SameChild(members, m, s, r, k, a, b)
  <2> DEFINE y == r[b]
             x == members[1]
  <2>1. y \in Instances /\ parent[y] = members[i]
    <3>1. members[i] \in Instances
      BY <1>1
    <3> QED
      BY <1>0, <3>1 DEF Listing
  <2>2. y = r[b] /\ x = members[1]
    OBVIOUS
  <2> HIDE DEF y, x
  <2>3. Walk(members, parent, x) /\ x \in Instances
    BY <1>1, <2>2 DEF Twins
  <2>4. members[i] \in Instances /\ x \in Above(parent, members[i])
    BY <1>1, <2>3 DEF Walk, Under
  <2>5. Above(parent, y) = {y} \cup Above(parent, parent[y])
    BY <1>1, <2>1, AboveIs
  <2>6. y \in Under(parent, x)
    BY <2>1, <2>4, <2>5 DEF Under
  <2>7. PICK k \in 1..L : members[k] = y
    BY <2>3, <2>6 DEF Walk
  <2>8. y # x
    <3> SUFFICES ASSUME y = x PROVE FALSE
      OBVIOUS
    <3>1. x \in Above(parent, parent[x])
      BY <2>1, <2>4
    <3> QED
      BY <1>1, <2>3, <3>1, NotAboveItself
  <2>9. k \in 2..L
    BY <1>1, <2>2, <2>7, <2>8
  <2>10. to[m + k] # Nil
    BY <2>9 DEF Twins
  <2>11. PICK j \in 1..L : to[m + k] = m + j /\ members[j] = parent[members[k]]
    BY <2>10, TwinParent
  <2>12. j = i
    BY <2>1, <2>7, <2>11, MembersDiffer
  <2>13. m + k \in Instances /\ to[m + k] = m + i
    BY <1>1, <2>11, <2>12
  <2>14. PICK a \in 1..Len(lists[to[m + k]]) : lists[to[m + k]][a] = m + k
    BY <1>1, <2>10, <2>13 DEF Matched
  <2>15. a \in 1..Len(s) /\ s[a] = m + k
    BY <2>13, <2>14
  <2> HIDE DEF r, s
  <2>16. SameChild(members, m, s, r, k, a, b)
    BY <2>2, <2>7, <2>15 DEF SameChild
  <2> QED
    BY <2>15, <2>16
<1> QED
  BY <1>2, <1>3

\* A copy has as many children.
LEMMA TwinLists ==
    ASSUME NEW parent, NEW kids, NEW members, NEW m, NEW to, NEW lists, Twins(parent, kids, members, m, to, lists),
           NEW i \in 1..Len(members)
    PROVE  Len(lists[m + i]) = Len(kids[members[i]])
<1> DEFINE L == Len(members)
           s == lists[m + i]
           r == kids[members[i]]
<1>1. /\ kids \in [Instances -> Seq(Instances)] /\ Matched(kids, parent)
      /\ lists \in [Instances -> Seq(Instances)] /\ Matched(lists, to)
      /\ m \in Nat /\ L \in Nat /\ members[i] \in Instances /\ m + i \in Instances
  BY TwinsAre
<1>2. Len(s) \in Nat /\ Len(r) \in Nat
  BY <1>1
<1>3. (\A a, c \in 1..Len(s) : s[a] = s[c] => a = c) /\ (\A b, c \in 1..Len(r) : r[b] = r[c] => b = c)
  BY <1>1 DEF Matched
<1>4. /\ \A a \in 1..Len(s) : \E k \in 1..L : \E b \in 1..Len(r) : SameChild(members, m, s, r, k, a, b)
      /\ \A b \in 1..Len(r) : \E k \in 1..L : \E a \in 1..Len(s) : SameChild(members, m, s, r, k, a, b)
  BY TwinChild
<1> HIDE DEF s, r
<1>5. \A j, k \in 1..L : members[j] = members[k] => j = k
  BY MembersDiffer
<1> DEFINE R == {e \in (1..Len(s)) \X (1..Len(r)) : \E k \in 1..L : SameChild(members, m, s, r, k, e[1], e[2])}
           T == {e \in (1..Len(r)) \X (1..Len(s)) : \E k \in 1..L : SameChild(members, m, s, r, k, e[2], e[1])}
<1>6. \A a \in 1..Len(s) : \A b \in 1..Len(r) :
          /\ <<a, b>> \in R <=> \E k \in 1..L : SameChild(members, m, s, r, k, a, b)
          /\ <<b, a>> \in T <=> \E k \in 1..L : SameChild(members, m, s, r, k, a, b)
  OBVIOUS
<1> HIDE DEF R, T, L
<1>7. \A a \in 1..Len(s) : \E b \in 1..Len(r) : <<a, b>> \in R
  BY <1>4, <1>6
<1>8. \A b \in 1..Len(r) : \E a \in 1..Len(s) : <<b, a>> \in T
  BY <1>4, <1>6
<1>9. ASSUME NEW a \in 1..Len(s), NEW c \in 1..Len(s), NEW b \in 1..Len(r), <<a, b>> \in R, <<c, b>> \in R PROVE a = c
  <2>1. PICK k \in 1..L : SameChild(members, m, s, r, k, a, b)
    BY <1>6, <1>9
  <2>2. PICK j \in 1..L : SameChild(members, m, s, r, j, c, b)
    BY <1>6, <1>9
  <2>3. j = k
    BY <1>5, <2>1, <2>2 DEF SameChild
  <2> QED
    BY <1>3, <2>1, <2>2, <2>3 DEF SameChild
<1>10. ASSUME NEW b \in 1..Len(r), NEW c \in 1..Len(r), NEW a \in 1..Len(s), <<b, a>> \in T, <<c, a>> \in T PROVE b = c
  <2>1. PICK k \in 1..L : SameChild(members, m, s, r, k, a, b)
    BY <1>6, <1>10
  <2>2. PICK j \in 1..L : SameChild(members, m, s, r, j, a, c)
    BY <1>6, <1>10
  <2>3. j = k
    <3>1. m + j = m + k
      BY <2>1, <2>2 DEF SameChild
    <3> QED
      BY <1>1, <3>1
  <2> QED
    BY <1>3, <2>1, <2>2, <2>3 DEF SameChild
<1>11. Len(s) <= Len(r)
  BY <1>2, <1>7, <1>9, NoMoreThan
<1>12. Len(r) <= Len(s)
  BY <1>2, <1>8, <1>10, NoMoreThan
<1>13. Len(s) = Len(r)
  BY <1>2, <1>11, <1>12
<1> QED
  BY <1>13 DEF s, r

-----------------------------------------------------------------------------
\* Where each is put.
LEMMA PutIs ==
    ASSUME NEW members, Cloning(members)
    PROVE  LET to == Put(members, Len(members)) IN
           /\ to[made + 1] = Nil
           /\ \A k \in 2..Len(members) : \E j \in 1..Len(members) :
                  to[made + k] = made + j /\ members[j] = tree.parent[members[k]]
           /\ \A y \in Instances : y \notin (made + 2)..(made + Len(members)) => to[y] = tree.parent[y]
<1> DEFINE L == Len(members)
           to == Put(members, L)
<1>1. /\ made \in Nat /\ L \in Nat /\ L >= 1
      /\ \A k \in 1..L : members[k] \in Instances /\ made + k \in Instances
  BY CloningIs
<1>2. \A y \in Instances : y \notin (made + 2)..(made + L) => to[y] = tree.parent[y]
  BY DEF Put
<1>3. to[made + 1] = Nil
  <2>1. made + 1 \in Instances /\ made + 1 \notin (made + 2)..(made + L) /\ ~(made + 1 <= made)
    BY <1>1
  <2>2. tree.parent[made + 1] = Nil
    BY <2>1 DEF Cloning
  <2> QED
    BY <1>2, <2>1, <2>2
<1>4. ASSUME NEW k \in 2..L PROVE \E j \in 1..L : to[made + k] = made + j /\ members[j] = tree.parent[members[k]]
  <2>1. made + k \in Instances /\ made + k \in (made + 2)..(made + L) /\ (made + k) - made = k
    BY <1>1
  <2>2. to[made + k] = CopyOf(members, tree.parent[members[k]])
    BY <2>1 DEF Put
  <2> QED
    BY <2>2, CopyOfIs
<1> QED
  BY <1>2, <1>3, <1>4

\* A clone is put beside what it was made from.
LEMMA BuiltTwins ==
    ASSUME NEW members, Cloning(members), Walk(members, tree.parent, members[1]),
           SortedBy(members, Document(tree.kids, tree.parent))
    PROVE  Twins(tree.parent, tree.kids, members, made, Built(members).parent, Built(members).kids)
<1> DEFINE L == Len(members)
           v == Built(members)
           to == v.parent
<1>1. /\ made \in Nat /\ L \in Nat /\ L >= 1 /\ made + L <= MaxInstances
      /\ \A k \in 1..L : members[k] \in Instances /\ made + k \in Instances
      /\ tree.parent \in [Instances -> Spots] /\ Rooted(tree.parent)
  BY CloningIs
<1>2. PlacedStep(members, v, L)
  BY BuiltIs
<1> HIDE DEF v
<1>3. Fine(v) /\ to = Put(members, L) /\ Grown(v, L) /\ Fine(tree)
  BY <1>2 DEF PlacedStep, Cloning
<1>4. /\ to \in [Instances -> Spots] /\ Rooted(to) /\ v.kids \in [Instances -> Seq(Instances)] /\ Matched(v.kids, to)
      /\ tree.kids \in [Instances -> Seq(Instances)] /\ Matched(tree.kids, tree.parent)
  BY <1>3, FineIs
<1>5. /\ to[made + 1] = Nil
      /\ \A k \in 2..L : \E j \in 1..L : to[made + k] = made + j /\ members[j] = tree.parent[members[k]]
      /\ \A y \in Instances : y \notin (made + 2)..(made + L) => to[y] = tree.parent[y]
  BY <1>3, PutIs
<1> HIDE DEF to
<1>6. \A k \in 2..L : to[made + k] # Nil
  <2> SUFFICES ASSUME NEW k \in 2..L PROVE to[made + k] # Nil
    OBVIOUS
  <2>1. PICK j \in 1..L : to[made + k] = made + j
    BY <1>5
  <2> QED
    BY <1>1, <2>1, NilIs
<1>7. ASSUME NEW k \in 1..L, to[made + k] # Nil
      PROVE  \E j \in 1..L : to[made + k] = made + j /\ members[j] = tree.parent[members[k]]
  <2>1. k # 1
    BY <1>5, <1>7
  <2>2. k \in 2..L
    BY <1>1, <2>1
  <2> QED
    BY <1>5, <2>2
<1>8. Mirrors(tree.parent, members, made, to)
  BY <1>1, <1>4, <1>7 DEF Mirrors
<1>9. ASSUME NEW y \in Instances, y \notin (made + 1)..(made + L) PROVE to[y] <= made
  <2>1. y \notin (made + 2)..(made + L)
    BY <1>1, <1>9
  <2> QED
    BY <1>5, <2>1 DEF Cloning
<1>10. \A q \in Instances : q > made => Rising(v.kids[q])
  BY <1>3 DEF Grown
<1>11. Twins(tree.parent, tree.kids, members, made, to, v.kids)
  BY <1>1, <1>4, <1>5, <1>6, <1>8, <1>9, <1>10 DEF Twins
<1> QED
  BY <1>11 DEF to, v

\* Number i of the copies is a copy of member i.
Copied(members, v, copies, i) ==
    /\ v.name[copies[i]] = tree.name[members[i]]
    /\ Len(v.kids[copies[i]]) = Len(tree.kids[members[i]])

LEMMA BuiltCopies ==
    ASSUME NEW members, Cloning(members), Walk(members, tree.parent, members[1]),
           SortedBy(members, Document(tree.kids, tree.parent))
    PROVE  LET v == Built(members)
               copies == Subtree(v, made + 1) IN
           /\ Len(copies) = Len(members)
           /\ v.parent[made + 1] = Nil
           /\ \A i \in 1..Len(members) : copies[i] = made + i /\ Copied(members, v, copies, i)
           /\ \A y \in 1..made : v.kids[y] = tree.kids[y] /\ v.parent[y] = tree.parent[y]
<1> DEFINE L == Len(members)
           v == Built(members)
           copies == Subtree(v, made + 1)
<1>1. /\ made \in Nat /\ L \in Nat /\ L >= 1 /\ made + L <= MaxInstances /\ MaxInstances \in Nat
      /\ DOMAIN members = 1..L
  BY CloningIs
<1>2. Twins(tree.parent, tree.kids, members, made, v.parent, v.kids)
  BY BuiltTwins
<1>3. PlacedStep(members, v, L)
  BY BuiltIs
<1>4. \A i \in 1..L : Born(members).name[made + i] = tree.name[members[i]]
  BY BornIs
<1> HIDE DEF v
<1>5. copies = Below(v.kids, made + 1)
  BY SubtreeIs
<1>6. Len(Below(v.kids, made + 1)) = L /\ \A i \in 1..L : Below(v.kids, made + 1)[i] = made + i
  BY <1>2, TwinWalk
<1>7. Len(copies) = L /\ \A i \in 1..L : copies[i] = made + i
  BY <1>5, <1>6
<1>8. v.parent[made + 1] = Nil
  BY <1>2 DEF Twins
<1> HIDE DEF copies
<1>9. ASSUME NEW i \in 1..L PROVE Copied(members, v, copies, i)
  <2>1. v.name[made + i] = tree.name[members[i]]
    BY <1>3, <1>4 DEF PlacedStep
  <2>2. Len(v.kids[made + i]) = Len(tree.kids[members[i]])
    BY <1>2, TwinLists
  <2>3. copies[i] = made + i
    BY <1>7
  <2> QED
    BY <2>1, <2>2, <2>3 DEF Copied
<1>10. ASSUME NEW y \in 1..made PROVE v.kids[y] = tree.kids[y] /\ v.parent[y] = tree.parent[y]
  <2>1. y \in Instances /\ y <= made /\ y \notin (made + 2)..(made + L)
    BY <1>1 DEF Instances
  <2>2. v.kids[y] = tree.kids[y]
    BY <1>3, <2>1 DEF PlacedStep, Grown
  <2>3. v.parent = Put(members, L)
    BY <1>3 DEF PlacedStep
  <2> QED
    BY <2>1, <2>2, <2>3, PutIs
<1> QED
  BY <1>7, <1>8, <1>9, <1>10 DEF v, copies

\* What CloneIsCopy says of one clone.
CopiesAll(x) ==
    LET members == Subtree(tree, x)
        copies == Subtree(tree', made + 1) IN
    /\ Len(copies) = Len(members)
    /\ tree'.parent[made + 1] = Nil
    /\ \A i \in DOMAIN members :
         /\ tree'.name[copies[i]] = tree.name[members[i]]
         /\ tags'[copies[i]] = tags[members[i]]
         /\ Len(tree'.kids[copies[i]]) = Len(tree.kids[members[i]])
    /\ \A y \in 1..made : tree'.kids[y] = tree.kids[y] /\ tree'.parent[y] = tree.parent[y]

LEMMA CloneCopies == ASSUME WorldInv, NEW x \in Instances, Clone(x) PROVE CopiesAll(x)
<1> DEFINE members == Subtree(tree, x)
           L == Len(members)
           copies == Subtree(tree', made + 1)
<1>1. Cloning(members) /\ Walk(members, tree.parent, x)
  BY CloneStarts
<1>2. /\ tree' = Built(members) /\ Fine(tree)
      /\ tags' = [y \in Instances |-> IF y \in Copies(members) THEN tags[members[y - made]] ELSE tags[y]]
  BY DEF Clone, WorldInv
<1>3. SortedBy(members, Document(tree.kids, tree.parent))
  <2>1. /\ tree.parent \in [Instances -> Spots] /\ Rooted(tree.parent)
        /\ tree.kids \in [Instances -> Seq(Instances)] /\ Matched(tree.kids, tree.parent)
    BY <1>2, FineIs
  <2>2. members = Below(tree.kids, x)
    BY SubtreeIs
  <2> QED
    BY <2>1, <2>2, BelowSorted
<1> HIDE DEF members
<1>4. Walk(members, tree.parent, members[1])
  BY <1>1 DEF Walk
<1>5. /\ made \in Nat /\ L \in Nat /\ DOMAIN members = 1..L /\ \A i \in 1..L : made + i \in Instances
  BY <1>1, CloningIs
<1>6. /\ Len(copies) = L /\ tree'.parent[made + 1] = Nil
      /\ \A i \in 1..L : copies[i] = made + i /\ Copied(members, tree', copies, i)
      /\ \A y \in 1..made : tree'.kids[y] = tree.kids[y] /\ tree'.parent[y] = tree.parent[y]
  BY <1>1, <1>2, <1>3, <1>4, BuiltCopies
<1> HIDE DEF copies
<1>7. ASSUME NEW i \in 1..L PROVE tags'[copies[i]] = tags[members[i]]
  <2>1. copies[i] = made + i /\ made + i \in Copies(members) /\ (made + i) - made = i /\ made + i \in Instances
    BY <1>5, <1>6 DEF Copies
  <2> QED
    BY <1>2, <2>1
<1>8. \A i \in 1..L : /\ tree'.name[copies[i]] = tree.name[members[i]]
                      /\ Len(tree'.kids[copies[i]]) = Len(tree.kids[members[i]])
  BY <1>6 DEF Copied
<1> QED
  BY <1>5, <1>6, <1>7, <1>8 DEF CopiesAll, members, copies

\* A clone is the subtree again, in the order of the document, unparented, with the names,
\* tags and child counts of what it was made from, and that is as it was.
THEOREM CloneIsCopyHolds == ASSUME CorpseUse = {} PROVE WorldSpec => CloneIsCopy
<1> DEFINE A == \A x \in Instances : Clone(x) => CopiesAll(x)
<1>1. WorldInv => A
  BY CloneCopies
<1>2. WorldSpec => []WorldInv
  BY WorldHolds
<1>3. WorldInv => [A]_worldVars
  BY <1>1
<1>4. WorldSpec => [][A]_worldVars
  BY <1>2, <1>3, PTL
<1> QED
  BY <1>4 DEF CloneIsCopy, CopiesAll

\* Destroy and Clone of scene::World reach the whole subtree, and nothing else.
THEOREM WholeSubtreesHolds == ASSUME CorpseUse = {} PROVE WorldSpec => WholeSubtrees
  BY DestroyTakesAllHolds, CloneIsCopyHolds DEF WholeSubtrees
=============================================================================
