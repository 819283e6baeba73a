--------------------------- MODULE TournamentProofs ---------------------------
(***************************************************************************)
(* Proofs about the tournament, for every size of a bracket and every       *)
(* number of players, slots and faults.                                     *)
(*                                                                          *)
(* The rows of a bracket are created once: nothing in the database makes    *)
(* them unique, and what keeps a second generate-bracket job from inserting *)
(* them again is the lock, the second count under it, and that the lock of  *)
(* a live holder does not expire.                                           *)
(*                                                                          *)
(* In the tree that is created, and in what the match-ended jobs make of    *)
(* it, a player of a later round has won the match that feeds the slot, and *)
(* a match that gets its second player is announced.  Who loses a match is  *)
(* out, and who is crowned has lost none.  A bracket has at most ten        *)
(* rounds, so what buildBracketStructure does round by round is followed in *)
(* ten steps.                                                               *)
(***************************************************************************)
EXTENDS Tournament, FiniteSetTheorems, TLAPS

\* The labels at which a slot works under the lock.
Locked == {"recount", "create", "mail", "release"}

(* The inductive invariant. *)

\* Handlers and brackets are functions, whatever their values.
Shape ==
    /\ proc = [p \in Slots |-> proc[p]]
    /\ \A p \in Slots : "pc" \in DOMAIN proc[p]
    /\ bracket = [m \in DOMAIN bracket |-> bracket[m]]
    /\ created \in Nat

\* Only the holder of the lock works under it.
Exclusive == \A p \in Slots : proc[p].pc \in Locked => lock = p

\* What the second count has seen is still so when the rows are created.
NoneYet == \A p \in Slots : proc[p].pc = "create" => bracket = NoBracket

\* The rows there are were created by the one transaction.
Accounted == created <= IF bracket = NoBracket THEN 0 ELSE 1

BracketInv == Shape /\ Exclusive /\ NoneYet /\ Accounted

-----------------------------------------------------------------------------
(* Brackets. *)

LEMMA PowersPositive == \A k \in 1..MAX_BRACKET_SIZE_LOG : 2^k \in Int /\ 2^k > 0
<1> SUFFICES ASSUME NEW k \in 1..10 PROVE 2^k \in Int /\ 2^k > 0
    BY DEF MAX_BRACKET_SIZE_LOG
<1>1. k \in {1, 2, 3, 4, 5, 6, 7, 8, 9, 10}
    OBVIOUS
<1>2. /\ 2^1 > 0 /\ 2^2 > 0 /\ 2^3 > 0 /\ 2^4 > 0 /\ 2^5 > 0
      /\ 2^6 > 0 /\ 2^7 > 0 /\ 2^8 > 0 /\ 2^9 > 0 /\ 2^10 > 0
    OBVIOUS
<1>3. 2^k > 0
    BY <1>1, <1>2, Zenon
<1> QED BY <1>3

\* There is a final.
LEMMA MatchesExist == Matches # {}
<1>1. Rounds \in 1..MAX_BRACKET_SIZE_LOG /\ BracketSize = 2^Rounds
    BY BracketSizeAssumption DEF Rounds
<1>2. BracketSize \in Int /\ BracketSize > 0
    BY <1>1, PowersPositive
<1>3. BracketSize \div 2^Rounds = 1
    BY <1>1, <1>2
<1>4. Rounds \in 1..Rounds
    BY <1>1 DEF MAX_BRACKET_SIZE_LOG
<1>5. 0 \in 0..(BracketSize \div 2^Rounds) - 1
    BY <1>3
<1>6. <<Rounds, 0>> \in {Rounds} \X (0..(BracketSize \div 2^Rounds) - 1)
    BY <1>5
<1> QED BY <1>4, <1>6 DEF Matches

\* What buildBracketStructure makes has a row for each match.
LEMMA BuiltHasRows ==
    ASSUME NEW seeds
    PROVE  /\ DOMAIN buildBracketStructure(seeds) # {}
           /\ buildBracketStructure(seeds)
                 = [m \in DOMAIN buildBracketStructure(seeds) |-> buildBracketStructure(seeds)[m]]
<1>1. ASSUME NEW tree
      PROVE  /\ DOMAIN prunePlayableMatchesWithEmptySibling(tree) = Matches
             /\ prunePlayableMatchesWithEmptySibling(tree)
                   = [m \in Matches |-> prunePlayableMatchesWithEmptySibling(tree)[m]]
    BY DEF prunePlayableMatchesWithEmptySibling
<1> QED BY <1>1, MatchesExist DEF buildBracketStructure

LEMMA NoBracketIsEmpty ==
    ASSUME NEW b, b = [m \in DOMAIN b |-> b[m]]
    PROVE  b = NoBracket <=> DOMAIN b = {}
BY DEF NoBracket

-----------------------------------------------------------------------------
(* Steps. *)

\* A slot moves to another label, and the tables and the lock are as they were, except
\* that rows of the bracket may be updated in place.
LEMMA QuietMove ==
    ASSUME BracketInv, NEW p \in Slots, NEW k, proc' = [proc EXCEPT ![p] = k],
           "pc" \in DOMAIN k, k.pc \in Locked => proc[p].pc \in Locked,
           k.pc # "create", lock' = lock, created' = created,
           DOMAIN bracket' = DOMAIN bracket, bracket' = [m \in DOMAIN bracket' |-> bracket'[m]]
    PROVE  BracketInv'
<1>1. \A q \in Slots : proc'[q] = IF q = p THEN k ELSE proc[q]
    BY DEF BracketInv, Shape
<1>2. Shape'
    BY <1>1 DEF BracketInv, Shape
<1>3. (bracket = NoBracket) <=> (bracket' = NoBracket)
    BY NoBracketIsEmpty DEF BracketInv, Shape
<1>4. Exclusive'
    BY <1>1 DEF BracketInv, Exclusive
<1>5. NoneYet'
    BY <1>1, <1>3 DEF BracketInv, NoneYet
<1>6. Accounted'
    BY <1>3 DEF BracketInv, Accounted
<1> QED BY <1>2, <1>4, <1>5, <1>6 DEF BracketInv

\* Only the label of a slot changes.
LEMMA QuietGoto ==
    ASSUME BracketInv, NEW p \in Slots, NEW label, Goto(p, label),
           label \in Locked => proc[p].pc \in Locked, label # "create",
           lock' = lock, created' = created,
           DOMAIN bracket' = DOMAIN bracket, bracket' = [m \in DOMAIN bracket' |-> bracket'[m]]
    PROVE  BracketInv'
<1> DEFINE k == [proc[p] EXCEPT !.pc = label]
<1>1. proc' = [proc EXCEPT ![p] = k] /\ "pc" \in DOMAIN k /\ k.pc = label
    BY DEF Goto, BracketInv, Shape
<1> HIDE DEF k
<1> QED BY <1>1, QuietMove

\* A slot is done; it may have released the lock if it was its own.
LEMMA Leaves ==
    ASSUME BracketInv, NEW p \in Slots, Return(p), created' = created, bracket' = bracket,
           lock' = lock \/ (lock' = NoSlot /\ proc[p].pc \in Locked)
    PROVE  BracketInv'
<1>1. \A q \in Slots : proc'[q] = IF q = p THEN Idle ELSE proc[q]
    BY DEF BracketInv, Shape, Return
<1>2. Idle.pc = "idle" /\ "pc" \in DOMAIN Idle
    BY DEF Idle
<1>3. Shape'
    BY <1>1, <1>2 DEF BracketInv, Shape, Return
<1>4. Exclusive'
    BY <1>1, <1>2 DEF BracketInv, Exclusive, Locked
<1>5. NoneYet' /\ Accounted'
    BY <1>1, <1>2 DEF BracketInv, NoneYet, Accounted
<1> QED BY <1>3, <1>4, <1>5 DEF BracketInv

LEMMA BracketSame ==
    BracketInv /\ bracket' = bracket =>
        DOMAIN bracket' = DOMAIN bracket /\ bracket' = [m \in DOMAIN bracket' |-> bracket'[m]]
BY DEF BracketInv, Shape

\* A new handler starts in an idle slot.
LEMMA Begins ==
    ASSUME BracketInv, NEW p \in Slots, NEW k, Begin(p, k), "pc" \in DOMAIN k,
           k.pc \notin Locked, lock' = lock, created' = created, bracket' = bracket
    PROVE  BracketInv'
BY QuietMove, BracketSame DEF Begin, Locked

-----------------------------------------------------------------------------
\* The requests of the API.
LEMMA RequestsKeep ==
    ASSUME BracketInv, NEW p \in Slots,
           \/ Request(p) \/ DeleteRegistration(p) \/ CountPlayers(p) \/ SetInProgress(p)
           \/ EnqueueGenerateBracket(p) \/ EnqueueFails(p) \/ RollBack(p)
    PROVE  BracketInv'
<1>1. UNCHANGED <<lock, created, bracket>>
    BY DEF Request, StartTournament, UnregisterPlayer, DeleteRegistration, CountPlayers, SetInProgress,
       EnqueueGenerateBracket, EnqueueFails, RollBack, rows, history
<1>2. CASE Request(p)
    <2>1. PICK k : k.pc \in {"countPlayers", "unregister"} /\ "pc" \in DOMAIN k /\ Begin(p, k)
        <3>1. CASE StartTournament(p)
            <4> DEFINE k == [Idle EXCEPT !.pc = "countPlayers"]
            <4>1. k.pc = "countPlayers" /\ "pc" \in DOMAIN k /\ Begin(p, k)
                BY <3>1 DEF StartTournament, Idle
            <4> QED BY <4>1
        <3>2. CASE \E u \in Users : UnregisterPlayer(p, u)
            <4>1. PICK u \in Users : UnregisterPlayer(p, u)
                BY <3>2
            <4> DEFINE k == [Idle EXCEPT !.pc = "unregister", !.user = u]
            <4>2. k.pc = "unregister" /\ "pc" \in DOMAIN k /\ Begin(p, k)
                BY <4>1 DEF UnregisterPlayer, Idle
            <4> QED BY <4>2
        <3> QED BY <1>2, <3>1, <3>2 DEF Request
    <2> QED BY <1>1, <2>1, Begins DEF Locked
<1>3. CASE ~Request(p)
    <2>1. \/ Return(p)
          \/ \E label \in {"setInProgress", "enqueue", "rollback"} : Goto(p, label)
        BY <1>3 DEF DeleteRegistration, CountPlayers, SetInProgress, EnqueueGenerateBracket,
           EnqueueFails, RollBack
    <2> QED BY <1>1, <2>1, Leaves, QuietGoto, BracketSame DEF Locked
<1> QED BY <1>2, <1>3

\* The generate-bracket job, up to its lock.
LEMMA LoadingKeeps ==
    ASSUME BracketInv, NEW p \in Slots,
           (\E j \in DOMAIN genJobs : GenerateBracket(p, j)) \/ LoadTournament(p) \/ CountMatches(p)
    PROVE  BracketInv'
<1>1. UNCHANGED <<lock, created, bracket>>
    BY DEF GenerateBracket, LoadTournament, CountMatches, rows, history
<1>2. ASSUME NEW j \in DOMAIN genJobs, GenerateBracket(p, j) PROVE BracketInv'
    <2> DEFINE k == [Idle EXCEPT !.pc = "load", !.job = j]
    <2>1. k.pc = "load" /\ "pc" \in DOMAIN k /\ Begin(p, k)
        BY <1>2 DEF GenerateBracket, Idle
    <2> HIDE DEF k
    <2> QED BY <1>1, <2>1, Begins DEF Locked
<1>3. CASE LoadTournament(p)
    <2>1. CASE Return(p)
        BY <1>1, <2>1, Leaves
    <2>2. CASE proc' = [proc EXCEPT ![p].pc = "count", ![p].regs = regs]
        <3> DEFINE k == [proc[p] EXCEPT !.pc = "count", !.regs = regs]
        <3>1. proc' = [proc EXCEPT ![p] = k] /\ "pc" \in DOMAIN k /\ k.pc = "count"
            BY <2>2 DEF BracketInv, Shape
        <3> HIDE DEF k
        <3> QED BY <1>1, <3>1, QuietMove, BracketSame DEF Locked
    <2> QED BY <1>3, <2>1, <2>2 DEF LoadTournament, Fail
<1>4. CASE CountMatches(p)
    BY <1>1, <1>4, Leaves, QuietGoto, BracketSame DEF CountMatches, Complete, Locked
<1> QED BY <1>2, <1>3, <1>4

\* The job takes the lock when nobody works under it ...
LEMMA AcquireKeeps ==
    ASSUME BracketInv, NEW p \in Slots, AcquireLock(p)
    PROVE  BracketInv'
<1>1. UNCHANGED <<created, bracket>>
    BY DEF AcquireLock, rows, history
<1>2. CASE lock # NoSlot
    BY <1>1, <1>2, Leaves DEF AcquireLock, Throw
<1>3. CASE lock = NoSlot
    <2> DEFINE k == [proc[p] EXCEPT !.pc = "recount"]
    <2>1. lock' = p /\ proc' = [proc EXCEPT ![p] = k] /\ "pc" \in DOMAIN k /\ k.pc = "recount"
        BY <1>3 DEF AcquireLock, Goto, BracketInv, Shape
    <2> HIDE DEF k
    <2>2. \A q \in Slots : proc'[q] = IF q = p THEN k ELSE proc[q]
        BY <2>1 DEF BracketInv, Shape
    <2>3. \A q \in Slots : proc[q].pc \notin Locked
        BY <1>3, TournamentAssumption DEF BracketInv, Exclusive
    <2>4. Shape'
        BY <1>1, <2>1, <2>2 DEF BracketInv, Shape
    <2>5. Exclusive'
        BY <2>1, <2>2, <2>3 DEF Exclusive
    <2>6. NoneYet' /\ Accounted'
        BY <1>1, <2>1, <2>2 DEF BracketInv, NoneYet, Accounted
    <2> QED BY <2>4, <2>5, <2>6 DEF BracketInv
<1> QED BY <1>2, <1>3

\* ... counts again and goes on to create the rows only if there are none ...
LEMMA RecountKeeps ==
    ASSUME BracketInv, NEW p \in Slots, RecountMatches(p)
    PROVE  BracketInv'
<1>1. UNCHANGED <<created, bracket>> /\ proc[p].pc \in Locked
    BY DEF RecountMatches, rows, history, At, Locked
<1>2. CASE Goto(p, "release") /\ lock' = lock
    BY <1>1, <1>2, QuietGoto, BracketSame
<1>3. CASE Fail(p) /\ lock' = NoSlot
    BY <1>1, <1>3, Leaves DEF Fail
<1>4. CASE ~GeneratedMeanwhile /\ Goto(p, "create") /\ lock' = lock
    <2> DEFINE k == [proc[p] EXCEPT !.pc = "create"]
    <2>1. proc' = [proc EXCEPT ![p] = k] /\ "pc" \in DOMAIN k /\ k.pc = "create"
        BY <1>4 DEF Goto, BracketInv, Shape
    <2> HIDE DEF k
    <2>2. \A q \in Slots : proc'[q] = IF q = p THEN k ELSE proc[q]
        BY <2>1 DEF BracketInv, Shape
    <2>3. Shape'
        BY <1>1, <2>1, <2>2 DEF BracketInv, Shape
    <2>4. Exclusive'
        BY <1>1, <1>4, <2>1, <2>2 DEF BracketInv, Exclusive
    <2>5. NoneYet' /\ Accounted'
        BY <1>1, <1>4, <2>1, <2>2 DEF BracketInv, NoneYet, Accounted, GeneratedMeanwhile
    <2> QED BY <2>3, <2>4, <2>5 DEF BracketInv
<1> QED BY <1>2, <1>3, <1>4 DEF RecountMatches

\* ... which nobody else can have done meanwhile.
LEMMA CreateKeeps ==
    ASSUME BracketInv, NEW p \in Slots, CreateMatches(p)
    PROVE  BracketInv'
<1>1. proc[p].pc = "create" /\ lock = p /\ bracket = NoBracket
    BY DEF CreateMatches, At, BracketInv, Exclusive, NoneYet, Locked
<1>2. CASE Throw(p) /\ lock' = NoSlot /\ UNCHANGED <<bracket, created>>
    BY <1>1, <1>2, Leaves DEF Throw, Locked
<1>3. ASSUME NEW seeds, bracket' = buildBracketStructure(seeds), created' = created + 1,
             Goto(p, "mail"), lock' = lock
      PROVE  BracketInv'
    <2> DEFINE k == [proc[p] EXCEPT !.pc = "mail"]
    <2>1. proc' = [proc EXCEPT ![p] = k] /\ "pc" \in DOMAIN k /\ k.pc = "mail"
        BY <1>3 DEF Goto, BracketInv, Shape
    <2> HIDE DEF k
    <2>2. \A q \in Slots : proc'[q] = IF q = p THEN k ELSE proc[q]
        BY <2>1 DEF BracketInv, Shape
    <2>3. bracket' # NoBracket /\ bracket' = [m \in DOMAIN bracket' |-> bracket'[m]]
        BY <1>3, BuiltHasRows, NoBracketIsEmpty
    <2>4. created = 0 /\ created' = 1
        BY <1>1, <1>3 DEF BracketInv, Accounted, Shape
    <2>5. Shape'
        BY <2>1, <2>2, <2>3, <2>4 DEF BracketInv, Shape
    <2>6. Exclusive'
        BY <1>1, <1>3, <2>1, <2>2 DEF BracketInv, Exclusive
    <2>7. NoneYet'
        <3>1. \A q \in Slots : proc'[q].pc # "create"
            BY <1>1, <2>1, <2>2 DEF BracketInv, Exclusive, Locked
        <3> QED BY <3>1 DEF NoneYet
    <2>8. Accounted'
        BY <2>3, <2>4 DEF Accounted
    <2> QED BY <2>5, <2>6, <2>7, <2>8 DEF BracketInv
<1>4. \/ Throw(p) /\ lock' = NoSlot /\ UNCHANGED <<bracket, created>>
      \/ \E seeds : /\ bracket' = buildBracketStructure(seeds) /\ created' = created + 1
                     /\ Goto(p, "mail") /\ lock' = lock
    BY DEF CreateMatches
<1> QED BY <1>2, <1>3, <1>4

\* The job mails and releases the lock.
LEMMA ReleaseKeeps ==
    ASSUME BracketInv, NEW p \in Slots, MailStarted(p) \/ ReleaseLock(p)
    PROVE  BracketInv'
<1>1. UNCHANGED <<created, bracket>> /\ proc[p].pc \in Locked
    BY DEF MailStarted, ReleaseLock, rows, history, At, Locked
<1>2. CASE MailStarted(p)
    BY <1>1, <1>2, QuietGoto, BracketSame DEF MailStarted
<1>3. CASE ReleaseLock(p)
    BY <1>1, <1>3, Leaves DEF ReleaseLock, Complete
<1> QED BY <1>2, <1>3

\* The match-ended job only updates rows of the bracket.
LEMMA ProgressKeeps ==
    ASSUME BracketInv, NEW p \in Slots,
           \/ \E m \in DOMAIN endJobs : MatchEnded(p, m)
           \/ PersistMatchEnded(p) \/ FindTournamentMatch(p) \/ CompleteTournament(p)
           \/ CrownWinner(p) \/ ReadParent(p) \/ FillParent(p) \/ NotifyReadyMatch(p)
    PROVE  BracketInv'
<1>1. UNCHANGED <<lock, created>>
    BY DEF MatchEnded, PersistMatchEnded, FindTournamentMatch, CompleteTournament, CrownWinner, ReadParent,
       FillParent, NotifyReadyMatch, history
<1>2. ASSUME NEW m \in DOMAIN endJobs, MatchEnded(p, m) PROVE BracketInv'
    <2> DEFINE k == [Idle EXCEPT !.pc = "persist", !.m = m]
    <2>1. k.pc = "persist" /\ "pc" \in DOMAIN k /\ Begin(p, k) /\ bracket' = bracket
        BY <1>2 DEF MatchEnded, Idle, rows
    <2> HIDE DEF k
    <2> QED BY <1>1, <2>1, Begins DEF Locked
<1>3. CASE PersistMatchEnded(p)
    BY <1>1, <1>3, QuietGoto DEF PersistMatchEnded, Locked
<1>4. CASE CompleteTournament(p)
    BY <1>1, <1>4, QuietGoto DEF CompleteTournament, Locked
<1>5. CASE FindTournamentMatch(p) \/ CrownWinner(p) \/ NotifyReadyMatch(p)
    <2>1. bracket' = bracket
        BY <1>5 DEF FindTournamentMatch, CrownWinner, NotifyReadyMatch, rows
    <2>2. Return(p) \/ Goto(p, "advance") \/ Goto(p, "complete")
        BY <1>5 DEF FindTournamentMatch, CrownWinner, NotifyReadyMatch, Complete
    <2> QED BY <1>1, <2>1, <2>2, Leaves, QuietGoto, BracketSame DEF Locked
<1>6. CASE ReadParent(p)
    <2> DEFINE k == [proc[p] EXCEPT !.pc = "fill", !.parent = bracket[Parent(proc[p].m)]]
    <2>1. /\ proc' = [proc EXCEPT ![p] = k] /\ "pc" \in DOMAIN k /\ k.pc = "fill"
          /\ bracket' = bracket
        BY <1>6 DEF ReadParent, rows, BracketInv, Shape
    <2> HIDE DEF k
    <2> QED BY <1>1, <2>1, QuietMove, BracketSame DEF Locked
<1>7. CASE FillParent(p)
    <2> DEFINE won     == CHOOSE side \in WinnerSide(p) : TRUE
               decided == [bracket EXCEPT ![proc[p].m].winnerSlot = won]
    <2>1. \/ bracket' = decided
          \/ \E side : bracket' = [decided EXCEPT ![Parent(proc[p].m)].slot[side]
                                      = endJobs[proc[p].m].winner]
        BY <1>7 DEF FillParent
    <2> HIDE DEF won
    <2>2. DOMAIN decided = DOMAIN bracket /\ decided = [m \in DOMAIN decided |-> decided[m]]
        OBVIOUS
    <2> HIDE DEF decided
    <2>3. DOMAIN bracket' = DOMAIN bracket /\ bracket' = [m \in DOMAIN bracket' |-> bracket'[m]]
        BY <2>1, <2>2
    <2>4. Return(p) \/ Goto(p, "notify")
        BY <1>7 DEF FillParent, Complete
    <2>5. CASE Return(p)
        <3>1. proc' = [proc EXCEPT ![p] = Idle] /\ "pc" \in DOMAIN Idle /\ Idle.pc = "idle"
            BY <2>5 DEF Return, Idle
        <3> QED BY <1>1, <2>3, <3>1, QuietMove DEF Locked
    <2> QED BY <1>1, <2>3, <2>4, <2>5, QuietGoto DEF Locked
<1> QED BY <1>2, <1>3, <1>4, <1>5, <1>6, <1>7

\* A slot fails or dies; in either case nobody else works under its lock.
LEMMA FailuresKeep ==
    ASSUME BracketInv, NEW p \in Slots, CommandFails(p) \/ Crash(p)
    PROVE  BracketInv'
<1>1. UNCHANGED <<created, bracket>> /\ Return(p)
    BY DEF CommandFails, Crash, Throw, rows, history
<1>2. lock' = lock \/ (lock' = NoSlot /\ proc[p].pc \in Locked)
    BY DEF CommandFails, Crash, HoldsLock, Locked
<1> QED BY <1>1, <1>2, Leaves

LEMMA BracketInvariant == BracketInv /\ [Next]_vars => BracketInv'
<1> SUFFICES ASSUME BracketInv, [Next]_vars PROVE BracketInv'
    OBVIOUS
<1>1. CASE \/ OpenRegistration \/ (\E u \in Users : RegisterPlayer(u))
           \/ (\E m \in Matches : PlayMatch(m)) \/ UNCHANGED vars
    <2>1. UNCHANGED <<lock, created, bracket, proc>>
        BY <1>1 DEF OpenRegistration, RegisterPlayer, PlayMatch, vars, rows, history
    <2> QED BY <2>1 DEF BracketInv, Shape, Exclusive, NoneYet, Accounted
<1>2. CASE LockExpire
    <2>1. UNCHANGED <<created, bracket, proc>>
        BY <1>2 DEF LockExpire, rows, history
    <2>2. \A p \in Slots : proc[p].pc \notin Locked
        BY <1>2 DEF LockExpire, HoldsLock, BracketInv, Exclusive, Locked
    <2> QED BY <2>1, <2>2 DEF BracketInv, Shape, Exclusive, NoneYet, Accounted
<1>3. ASSUME NEW p \in Slots, Request(p) \/ TakeJob(p) \/ Step(p) PROVE BracketInv'
    BY <1>3, RequestsKeep, LoadingKeeps, AcquireKeeps, RecountKeeps, CreateKeeps, ReleaseKeeps,
       ProgressKeeps DEF TakeJob, Step
<1>4. ASSUME NEW p \in Slots, EnqueueFails(p) \/ CommandFails(p) \/ Crash(p) PROVE BracketInv'
    BY <1>4, RequestsKeep, FailuresKeep
<1> QED BY <1>1, <1>2, <1>3, <1>4 DEF Next

-----------------------------------------------------------------------------
(* The tree. *)

\* x is the k-th power of two, for the sizes a bracket may have.
Power(k, x) ==
    \/ (k = 1 /\ x = 2) \/ (k = 2 /\ x = 4) \/ (k = 3 /\ x = 8) \/ (k = 4 /\ x = 16)
    \/ (k = 5 /\ x = 32) \/ (k = 6 /\ x = 64) \/ (k = 7 /\ x = 128) \/ (k = 8 /\ x = 256)
    \/ (k = 9 /\ x = 512) \/ (k = 10 /\ x = 1024)

LEMMA Powers == \A k \in 1..10 : Power(k, 2^k)
<1> SUFFICES ASSUME NEW k \in 1..10 PROVE Power(k, 2^k)
    OBVIOUS
<1>1. k \in {1, 2, 3, 4, 5, 6, 7, 8, 9, 10}
    OBVIOUS
<1>2. /\ Power(1, 2^1) /\ Power(2, 2^2) /\ Power(3, 2^3) /\ Power(4, 2^4) /\ Power(5, 2^5)
      /\ Power(6, 2^6) /\ Power(7, 2^7) /\ Power(8, 2^8) /\ Power(9, 2^9) /\ Power(10, 2^10)
    BY DEF Power
<1> QED BY <1>1, <1>2, Zenon

LEMMA RoundsOK == Rounds \in 1..10 /\ BracketSize = 2^Rounds
BY BracketSizeAssumption DEF Rounds, MAX_BRACKET_SIZE_LOG

LEMMA SizeOK == BracketSize \in Nat /\ BracketSize > 1
<1>1. Power(Rounds, BracketSize)
    BY RoundsOK, Powers
<1> QED BY <1>1 DEF Power

\* The number of matches of a round; the next round has half as many.
LEMMA RoundSizes ==
    ASSUME NEW r \in 1..Rounds
    PROVE  /\ BracketSize \div 2^r \in Nat
           /\ BracketSize \div 2^r < BracketSize
           /\ r < Rounds => BracketSize \div 2^r = 2 * (BracketSize \div 2^(r + 1))
<1> DEFINE x == 2^Rounds
           y == 2^r
           z == 2^(r + 1)
<1>1. r \in 1..10 /\ (r < Rounds => r + 1 \in 1..10) /\ Rounds \in Int
    BY RoundsOK
<1>2. Power(Rounds, x) /\ Power(r, y) /\ (r < Rounds => Power(r + 1, z))
    BY <1>1, RoundsOK, Powers
<1> HIDE DEF x, y, z
<1>3. x \div y \in Nat /\ x \div y < x
    BY <1>1, <1>2 DEF Power
<1>4. r < Rounds => x \div y = 2 * (x \div z)
    BY <1>1, <1>2 DEF Power
<1>5. BracketSize = x
    BY RoundsOK DEF x
<1> QED BY <1>3, <1>4, <1>5 DEF y, z

LEMMA MatchesAre ==
    ASSUME NEW r, NEW i
    PROVE  <<r, i>> \in Matches <=> r \in 1..Rounds /\ i \in 0..(BracketSize \div 2^r) - 1
BY DEF Matches

LEMMA MatchParts ==
    ASSUME NEW m \in Matches
    PROVE  /\ m = <<m[1], m[2]>> /\ m[1] \in 1..Rounds /\ m[1] \in Nat /\ m[2] \in Nat
           /\ m[2] < BracketSize \div 2^m[1] /\ m[2] < BracketSize
<1>1. PICK r \in 1..Rounds : m \in {r} \X (0..(BracketSize \div 2^r) - 1)
    BY DEF Matches
<1>2. m = <<r, m[2]>> /\ m[1] = r /\ m[2] \in 0..(BracketSize \div 2^r) - 1
    BY <1>1
<1>3. BracketSize \div 2^r \in Nat /\ BracketSize \div 2^r < BracketSize
    BY RoundSizes
<1> QED BY <1>1, <1>2, <1>3, RoundsOK, SizeOK

\* The match that feeds a side is a match, and feeds that side.
LEMMA FeederIsMatch ==
    ASSUME NEW m \in Matches, NEW side \in Sides, Round(m) > 1
    PROVE  /\ Feeder(m, side) \in Matches /\ Round(Feeder(m, side)) = Round(m) - 1
           /\ Parent(Feeder(m, side)) = m /\ FedSide(Feeder(m, side)) = side
<1> DEFINE r == m[1]
           i == m[2]
           bit == IF side = "a" THEN 0 ELSE 1
<1>1. m = <<r, i>> /\ r \in 1..Rounds /\ r > 1 /\ i \in Nat /\ i < BracketSize \div 2^r
    BY MatchParts DEF Round
<1>2. Feeder(m, side) = <<r - 1, 2 * i + bit>>
    BY DEF Feeder
<1>3. r - 1 \in 1..Rounds /\ r - 1 < Rounds /\ (r - 1) + 1 = r
    BY <1>1, RoundsOK
<1>4. BracketSize \div 2^(r - 1) = 2 * (BracketSize \div 2^((r - 1) + 1))
    BY <1>3, RoundSizes
<1>5. BracketSize \div 2^(r - 1) = 2 * (BracketSize \div 2^r) /\ BracketSize \div 2^r \in Nat
    BY <1>1, <1>3, <1>4, RoundSizes
<1>6. 2 * i + bit \in 0..(BracketSize \div 2^(r - 1)) - 1
    BY <1>1, <1>5
<1>7. Feeder(m, side) \in Matches
    BY <1>2, <1>3, <1>6, MatchesAre
<1>8. (2 * i + bit) \div 2 = i /\ (2 * i + bit) % 2 = bit
    BY <1>1
<1>9. Parent(Feeder(m, side)) = m
    BY <1>1, <1>2, <1>3, <1>8 DEF Parent
<1>10. FedSide(Feeder(m, side)) = side
    BY <1>2, <1>8 DEF FedSide, Sides
<1> QED BY <1>2, <1>7, <1>9, <1>10 DEF Round

\* Every match but the last feeds its parent.
LEMMA ParentIsMatch ==
    ASSUME NEW m \in Matches, Round(m) < Rounds
    PROVE  /\ Parent(m) \in Matches /\ Round(Parent(m)) > 1 /\ Parent(m) # m
           /\ FedSide(m) \in Sides /\ Feeder(Parent(m), FedSide(m)) = m
<1> DEFINE r == m[1]
           i == m[2]
<1>1. m = <<r, i>> /\ r \in 1..Rounds /\ r < Rounds /\ i \in Nat /\ i < BracketSize \div 2^r
    BY MatchParts DEF Round
<1>2. BracketSize \div 2^r = 2 * (BracketSize \div 2^(r + 1))
    BY <1>1, RoundSizes
<1>3. r + 1 \in 1..Rounds
    BY <1>1, RoundsOK
<1>4. BracketSize \div 2^(r + 1) \in Nat
    BY <1>3, RoundSizes
<1>5. i \div 2 \in 0..(BracketSize \div 2^(r + 1)) - 1
    BY <1>1, <1>2, <1>4
<1>6. Parent(m) = <<r + 1, i \div 2>>
    BY DEF Parent
<1>7. Parent(m) \in Matches
    BY <1>3, <1>5, <1>6, MatchesAre
<1>8. 2 * (i \div 2) + (IF i % 2 = 0 THEN 0 ELSE 1) = i
    BY <1>1
<1>9. (r + 1) - 1 = r /\ r + 1 > 1
    BY <1>1, RoundsOK
<1>10. Feeder(Parent(m), FedSide(m)) = m
    BY <1>1, <1>6, <1>8, <1>9 DEF Feeder, FedSide
<1>11. Round(Parent(m)) > 1 /\ Parent(m) # m
    BY <1>1, <1>6, <1>9 DEF Round
<1> QED BY <1>7, <1>10, <1>11 DEF FedSide, Sides

-----------------------------------------------------------------------------
(* What buildBracketStructure makes. *)

\* A bracket of well formed rows, in which a match is decided for a player in it, the last
\* match leads nowhere and a player got into a later round by winning the match before.
\* A player is drawn once in the first round, and nobody gets into the slot a match would
\* feed if it led there.
Decided(match) == ~Undecided(match) => match.winnerSlot \in Filled(match)
Fed(b, m, side) ==
    LET f == b[Feeder(m, side)] IN ~Undecided(f) /\ f.slot[f.winnerSlot] = b[m].slot[side]
Follows(b) == \A m \in Matches, side \in Sides : Round(m) > 1 /\ b[m].slot[side] # NoOne => Fed(b, m, side)
DrawnOnce(b) ==
    \A m, n \in Matches, s, t \in Sides :
        Round(m) = 1 /\ Round(n) = 1 /\ b[m].slot[s] # NoOne /\ b[m].slot[s] = b[n].slot[t]
        => m = n /\ s = t
DeadEnds(b) ==
    \A m \in Matches : Round(m) < Rounds /\ ~b[m].next => b[Parent(m)].slot[FedSide(m)] = NoOne
Tree(b) ==
    /\ b \in [Matches -> MatchRow]
    /\ \A m \in Matches : Decided(b[m]) /\ (b[m].next => Round(m) < Rounds)
    /\ Follows(b) /\ DrawnOnce(b) /\ DeadEnds(b)

\* The players without an opponent have been moved on up to round r.
Draft(b, r) ==
    /\ Tree(b)
    /\ \A m \in Matches :
          /\ ~b[m].linked /\ b[m].next = (Round(m) < Rounds)
          /\ Round(m) > r => Undecided(b[m])
          /\ Round(m) > r + 1 => \A side \in Sides : b[m].slot[side] = NoOne

LEMMA EmptyMatchOK ==
    ASSUME NEW m
    PROVE  /\ emptyMatch(m) \in MatchRow /\ Undecided(emptyMatch(m)) /\ ~emptyMatch(m).linked
           /\ \A side \in Sides : emptyMatch(m).slot[side] = NoOne
           /\ emptyMatch(m).next = (Round(m) < Rounds)
BY DEF emptyMatch, MatchRow, Undecided

LEMMA SidesAre == "a" \in Sides /\ "b" \in Sides /\ "none" \notin Sides /\ \A s \in Sides : s = "a" \/ s = "b"
BY DEF Sides

LEMMA DrawStays ==
    ASSUME NEW b, NEW c, DrawnOnce(b),
           \A m \in Matches, s \in Sides : Round(m) = 1 => c[m].slot[s] = b[m].slot[s]
    PROVE  DrawnOnce(c)
BY DEF DrawnOnce

\* The best against the last, the second against the last but one: no place is used twice.
LEMMA PlacesApart ==
    ASSUME NEW m \in Matches, NEW n \in Matches, Round(m) = 1, Round(n) = 1
    PROVE  /\ m[2] + 1 = n[2] + 1 \/ BracketSize - m[2] = BracketSize - n[2] => m = n
           /\ m[2] + 1 # BracketSize - n[2]
<1>1. /\ m = <<1, m[2]>> /\ n = <<1, n[2]>> /\ m[2] \in Nat /\ n[2] \in Nat
      /\ m[2] < BracketSize \div 2^1 /\ n[2] < BracketSize \div 2^1
    BY MatchParts DEF Round
<1>2. Power(Rounds, BracketSize)
    BY RoundsOK, Powers
<1>3. 2 * (BracketSize \div 2) = BracketSize /\ BracketSize \in Nat /\ 2^1 = 2
    BY <1>2 DEF Power
<1>4. m[2] < BracketSize \div 2 /\ n[2] < BracketSize \div 2 /\ BracketSize \div 2 \in Int
    BY <1>1, <1>3
<1>5. m[2] = n[2] => m = n
    BY <1>1
<1> QED BY <1>1, <1>3, <1>4, <1>5

LEMMA FirstRoundDrafted ==
    ASSUME NEW players \in SUBSET Users, NEW seeds \in Seedings(players, Rating)
    PROVE  Draft(generateFirstRound(seeds), 0)
<1> DEFINE b == generateFirstRound(seeds)
           place(i) == IF i <= Len(seeds) THEN seeds[i] ELSE NoOne
           drawn(m) == [emptyMatch(m) EXCEPT
                           !.slot = [a |-> place(m[2] + 1), b |-> place(BracketSize - m[2])]]
<1>1. IsFiniteSet(players) /\ Cardinality(players) \in Nat
    BY TournamentAssumption, FS_Subset, FS_CardinalityType
<1>2. seeds \in [1..Cardinality(players) -> players]
    BY DEF Seedings
<1>3. \A i \in Nat \ {0} : place(i) \in Users \cup {NoOne}
    BY <1>1, <1>2
<1>4. ASSUME NEW m \in Matches PROVE m[2] + 1 \in Nat \ {0} /\ BracketSize - m[2] \in Nat \ {0}
    BY MatchParts, SizeOK
<1>5. ASSUME NEW m \in Matches
      PROVE  /\ drawn(m) \in MatchRow /\ Undecided(drawn(m)) /\ ~drawn(m).linked
             /\ drawn(m).next = (Round(m) < Rounds)
    <2> DEFINE x == place(m[2] + 1)
               y == place(BracketSize - m[2])
    <2>1. x \in Users \cup {NoOne} /\ y \in Users \cup {NoOne}
        BY <1>3, <1>4
    <2> DEFINE s == [a |-> x, b |-> y]
    <2>2. drawn(m) = [emptyMatch(m) EXCEPT !.slot = s]
        OBVIOUS
    <2> HIDE DEF x, y, drawn
    <2>3. s \in [Sides -> Users \cup {NoOne}]
        BY <2>1 DEF Sides
    <2> HIDE DEF s
    <2>4. /\ emptyMatch(m) \in MatchRow /\ Undecided(emptyMatch(m)) /\ ~emptyMatch(m).linked
          /\ emptyMatch(m).next = (Round(m) < Rounds)
        BY EmptyMatchOK
    <2> QED BY <2>2, <2>3, <2>4 DEF MatchRow, Undecided
<1>6. b = [m \in Matches |-> IF Round(m) = 1 /\ place(m[2] + 1) # NoOne THEN drawn(m) ELSE emptyMatch(m)]
    BY DEF generateFirstRound
<1> HIDE DEF b, drawn, place
<1>7. b \in [Matches -> MatchRow]
    BY <1>5, <1>6, EmptyMatchOK
<1>8. ASSUME NEW m \in Matches
      PROVE  /\ Undecided(b[m]) /\ ~b[m].linked /\ b[m].next = (Round(m) < Rounds)
             /\ Round(m) > 1 => \A side \in Sides : b[m].slot[side] = NoOne
    <2>1. Round(m) \in Nat
        BY MatchParts DEF Round
    <2> QED BY <1>5, <1>6, <2>1, EmptyMatchOK
<1>9. \A m \in Matches : Decided(b[m])
    BY <1>8 DEF Decided
<1>10. Follows(b)
    BY <1>8 DEF Follows
<1> DEFINE index(m, s) == IF s = "a" THEN m[2] + 1 ELSE BracketSize - m[2]
<1>11. ASSUME NEW m \in Matches, NEW s \in Sides, Round(m) = 1, b[m].slot[s] # NoOne
       PROVE  b[m].slot[s] = place(index(m, s))
    <2>1. b[m] = drawn(m)
        BY <1>6, <1>11, EmptyMatchOK
    <2>2. drawn(m).slot = [a |-> place(m[2] + 1), b |-> place(BracketSize - m[2])]
        BY DEF drawn, emptyMatch
    <2> QED BY <2>1, <2>2, SidesAre
<1>12. ASSUME NEW i \in Nat \ {0}, NEW j \in Nat \ {0}, place(i) = place(j), place(i) # NoOne
       PROVE  i = j
    <2>1. i \in 1..Cardinality(players) /\ j \in 1..Cardinality(players) /\ seeds[i] = seeds[j]
        BY <1>1, <1>2, <1>12 DEF place
    <2>2. \A x, y \in 1..Cardinality(players) : x < y => seeds[x] # seeds[y]
        BY <1>2 DEF Seedings
    <2> QED BY <1>1, <2>1, <2>2
<1>13. ASSUME NEW m \in Matches, NEW n \in Matches, NEW s \in Sides, NEW t \in Sides,
              Round(m) = 1, Round(n) = 1, b[m].slot[s] # NoOne, b[m].slot[s] = b[n].slot[t]
       PROVE  m = n /\ s = t
    <2>1. place(index(m, s)) = place(index(n, t)) /\ place(index(m, s)) # NoOne
        BY <1>11, <1>13
    <2>2. index(m, s) = index(n, t)
        <3>1. index(m, s) \in Nat \ {0} /\ index(n, t) \in Nat \ {0}
            BY <1>4
        <3> HIDE DEF index
        <3> QED BY <1>12, <2>1, <3>1
    <2>3. m[2] + 1 # BracketSize - n[2] /\ n[2] + 1 # BracketSize - m[2]
        BY <1>13, PlacesApart
    <2>4. m[2] + 1 = n[2] + 1 \/ BracketSize - m[2] = BracketSize - n[2] => m = n
        BY <1>13, PlacesApart
    <2> QED BY <2>2, <2>3, <2>4, SidesAre
<1>14. DrawnOnce(b) /\ DeadEnds(b)
    BY <1>8, <1>13 DEF DrawnOnce, DeadEnds
<1>15. Tree(b)
    BY <1>7, <1>8, <1>9, <1>10, <1>14 DEF Tree
<1>16. Draft(b, 0)
    BY <1>8, <1>15 DEF Draft
<1> QED BY <1>16 DEF b

LEMMA WalkoverIsFilled ==
    ASSUME NEW match, \E side \in Sides : Filled(match) = {side}
    PROVE  WalkoverSide(match) \in Filled(match) /\ WalkoverSide(match) \in Sides
BY DEF WalkoverSide, Filled

\* Moving on the players of round r without an opponent.
LEMMA AdvanceDrafts ==
    ASSUME NEW r \in Nat \ {0}, NEW b, Draft(b, r - 1)
    PROVE  Draft(advanceRound(b, r), r)
<1> DEFINE alone == Unopposed(b, r)
           fedBy(m, side) == Round(m) = r + 1 /\ Feeder(m, side) \in alone
           c == advanceRound(b, r)
           moved(m, side) == LET f == Feeder(m, side) IN b[f].slot[WalkoverSide(b[f])]
           slotOf(m) == [side \in Sides |-> IF fedBy(m, side) THEN moved(m, side) ELSE b[m].slot[side]]
           won(m) == IF m \in alone THEN WalkoverSide(b[m]) ELSE b[m].winnerSlot
           row(m) == [b[m] EXCEPT !.winnerSlot = won(m), !.slot = slotOf(m)]
<1>1. b \in [Matches -> MatchRow]
    BY DEF Draft, Tree
<1>2. \A m \in Matches : /\ Round(m) \in Nat /\ Round(m) <= Rounds
    BY MatchParts, RoundsOK DEF Round
<1>3. ASSUME NEW m \in alone
      PROVE  /\ m \in Matches /\ Round(m) = r /\ WalkoverSide(b[m]) \in Sides
             /\ b[m].slot[WalkoverSide(b[m])] \in Users \ {NoOne}
    <2>1. m \in Matches /\ Round(m) = r /\ \E side \in Sides : Filled(b[m]) = {side}
        BY DEF Unopposed
    <2>2. WalkoverSide(b[m]) \in Filled(b[m]) /\ WalkoverSide(b[m]) \in Sides
        BY <2>1, WalkoverIsFilled
    <2>3. b[m].slot \in [Sides -> Users \cup {NoOne}]
        BY <1>1, <2>1 DEF MatchRow
    <2> QED BY <2>1, <2>2, <2>3 DEF Filled
<1>4. c = [m \in Matches |-> row(m)]
    BY DEF advanceRound
<1>5. ASSUME NEW m \in Matches PROVE slotOf(m) \in [Sides -> Users \cup {NoOne}]
    BY <1>1, <1>3 DEF MatchRow
<1>6. ASSUME NEW m \in Matches PROVE won(m) \in Sides \cup {"none"}
    BY <1>1, <1>3 DEF MatchRow
<1> HIDE DEF c, won, slotOf, row
<1>7. ASSUME NEW m \in Matches
      PROVE  /\ c[m] \in MatchRow /\ c[m].winnerSlot = won(m) /\ c[m].slot = slotOf(m)
             /\ c[m].next = b[m].next /\ c[m].linked = b[m].linked
    <2>1. won(m) \in Sides \cup {"none"} /\ slotOf(m) \in [Sides -> Users \cup {NoOne}] /\ b[m] \in MatchRow
        BY <1>1, <1>5, <1>6
    <2>2. c[m] = row(m)
        BY <1>4
    <2> QED BY <2>1, <2>2 DEF MatchRow, row
<1>8. c \in [Matches -> MatchRow]
    BY <1>4, <1>7
<1>9. ASSUME NEW m \in Matches, NEW side \in Sides
      PROVE  c[m].slot[side] = IF fedBy(m, side) THEN moved(m, side) ELSE b[m].slot[side]
    BY <1>7 DEF slotOf
<1>10. ASSUME NEW m \in Matches, Round(m) # r + 1 PROVE c[m].slot = b[m].slot
    <2>1. c[m].slot \in [Sides -> Users \cup {NoOne}] /\ b[m].slot \in [Sides -> Users \cup {NoOne}]
        BY <1>1, <1>5, <1>7 DEF MatchRow
    <2>2. \A side \in Sides : c[m].slot[side] = b[m].slot[side]
        BY <1>9, <1>10
    <2> QED BY <2>1, <2>2
<1>11. ASSUME NEW m \in Matches
       PROVE  /\ ~c[m].linked /\ c[m].next = (Round(m) < Rounds)
              /\ Round(m) > r => Undecided(c[m])
              /\ Round(m) > r + 1 => \A side \in Sides : c[m].slot[side] = NoOne
    <2>1. Round(m) > r => m \notin alone
        BY <1>2, <1>3
    <2>2. Round(m) > r => Undecided(c[m])
        BY <1>2, <1>7, <2>1 DEF Draft, Undecided, won
    <2>3. Round(m) > r + 1 => \A side \in Sides : c[m].slot[side] = NoOne
        BY <1>2, <1>10 DEF Draft
    <2> QED BY <1>7, <2>2, <2>3 DEF Draft, Tree
<1>12. ASSUME NEW m \in Matches PROVE Decided(c[m])
    <2>1. CASE m \in alone
        <3>1. c[m].slot = b[m].slot /\ c[m].winnerSlot = WalkoverSide(b[m])
            BY <1>3, <1>7, <1>10, <2>1 DEF won
        <3> QED BY <1>3, <2>1, <3>1 DEF Decided, Filled
    <2>2. CASE m \notin alone /\ ~Undecided(c[m])
        <3>1. c[m].winnerSlot = b[m].winnerSlot /\ ~(Round(m) > r)
            BY <1>7, <1>11, <2>2 DEF won
        <3>2. c[m].slot = b[m].slot
            BY <1>2, <1>10, <3>1
        <3>3. Decided(b[m])
            BY DEF Draft, Tree
        <3> QED BY <3>1, <3>2, <3>3, <2>2 DEF Decided, Filled, Undecided
    <2> QED BY <2>1, <2>2 DEF Decided
<1>13. ASSUME NEW m \in Matches, NEW side \in Sides, Round(m) > 1, c[m].slot[side] # NoOne
       PROVE  Fed(c, m, side)
    <2> DEFINE f == Feeder(m, side)
    <2>1. f \in Matches /\ Round(f) = Round(m) - 1
        BY <1>13, FeederIsMatch
    <2>2. Round(f) # r + 1 \/ Round(m) > r + 1
        BY <1>2, <2>1
    <2>3. ~(Round(m) > r + 1)
        BY <1>11, <1>13
    <2>4. c[f].slot = b[f].slot
        BY <1>10, <2>1, <2>2, <2>3
    <2>5. CASE fedBy(m, side)
        <3>1. c[m].slot[side] = b[f].slot[WalkoverSide(b[f])] /\ f \in alone
            BY <1>9, <2>5
        <3>2. c[f].winnerSlot = WalkoverSide(b[f]) /\ WalkoverSide(b[f]) \in Sides
            BY <1>3, <1>7, <3>1 DEF won
        <3> QED BY <2>4, <3>1, <3>2 DEF Fed, Undecided, Sides
    <2>6. CASE ~fedBy(m, side)
        <3>1. c[m].slot[side] = b[m].slot[side]
            BY <1>9, <2>6
        <3>2. Fed(b, m, side) /\ ~(Round(m) > (r - 1) + 1)
            BY <1>13, <3>1 DEF Draft, Tree, Follows
        <3>3. f \notin alone
            BY <1>2, <1>3, <2>1, <3>2
        <3>4. c[f].winnerSlot = b[f].winnerSlot
            BY <1>7, <2>1, <3>3 DEF won
        <3> QED BY <2>4, <3>1, <3>2, <3>4 DEF Fed, Undecided
    <2> QED BY <2>5, <2>6
<1>14. Follows(c)
    <2> HIDE DEF alone, fedBy, moved
    <2> QED BY <1>13 DEF Follows
<1>15. DrawnOnce(c)
    <2>1. \A m \in Matches, s \in Sides : Round(m) = 1 => c[m].slot[s] = b[m].slot[s]
        BY <1>10
    <2> QED BY <2>1, DrawStays DEF Draft, Tree
<1>16. DeadEnds(c)
    BY <1>11 DEF DeadEnds
<1>17. Tree(c)
    BY <1>8, <1>11, <1>12, <1>14, <1>15, <1>16 DEF Tree
<1>18. Draft(c, r)
    BY <1>11, <1>17 DEF Draft
<1> QED BY <1>18 DEF c

\* A bracket has at most ten rounds: what holds of round 0 and passes on from each round to
\* the next holds of all.
LEMMA TenSteps ==
    ASSUME NEW S, 0 \in S, \A n \in 1..10 : n - 1 \in S => n \in S
    PROVE  \A n \in 0..10 : n \in S
<1>1. 1 \in S /\ 2 \in S /\ 3 \in S
    <2>1. 1 \in 1..10 /\ 2 \in 1..10 /\ 3 \in 1..10 /\ 1 - 1 = 0 /\ 2 - 1 = 1 /\ 3 - 1 = 2
        OBVIOUS
    <2> QED BY <2>1
<1>2. 4 \in S /\ 5 \in S /\ 6 \in S
    <2>1. 4 \in 1..10 /\ 5 \in 1..10 /\ 6 \in 1..10 /\ 4 - 1 = 3 /\ 5 - 1 = 4 /\ 6 - 1 = 5
        OBVIOUS
    <2> QED BY <1>1, <2>1
<1>3. 7 \in S /\ 8 \in S
    <2>1. 7 \in 1..10 /\ 8 \in 1..10 /\ 7 - 1 = 6 /\ 8 - 1 = 7
        OBVIOUS
    <2> QED BY <1>2, <2>1
<1>4. 9 \in S /\ 10 \in S
    <2>1. 9 \in 1..10 /\ 10 \in 1..10 /\ 9 - 1 = 8 /\ 10 - 1 = 9
        OBVIOUS
    <2> QED BY <1>3, <2>1
<1> QED BY <1>1, <1>2, <1>3, <1>4

\* The drafts buildBracketStructure goes through, up to round n.
Drafts(f, seeds, n) ==
    f = [r \in 0..n |-> IF r = 0 THEN generateFirstRound(seeds) ELSE advanceRound(f[r - 1], r)]

LEMMA DraftsExist == ASSUME NEW seeds PROVE \E f : Drafts(f, seeds, Rounds)
<1> DEFINE S == {n \in 0..10 : \E f : Drafts(f, seeds, n)}
<1>1. 0 \in S
    <2> DEFINE f == [r \in 0..0 |-> generateFirstRound(seeds)]
    <2>1. Drafts(f, seeds, 0)
        BY DEF Drafts
    <2> QED BY <2>1
<1>2. ASSUME NEW n \in 1..10, n - 1 \in S PROVE n \in S
    <2>1. PICK f : Drafts(f, seeds, n - 1)
        BY <1>2
    <2> DEFINE g == [r \in 0..n |-> IF r = n THEN advanceRound(f[n - 1], n) ELSE f[r]]
    <2>2. ASSUME NEW r \in 0..n
          PROVE  g[r] = IF r = 0 THEN generateFirstRound(seeds) ELSE advanceRound(g[r - 1], r)
        <3>1. CASE r = n
            <4>1. g[r] = advanceRound(f[n - 1], n) /\ g[r - 1] = f[n - 1] /\ r # 0
                <5>1. n \in 0..n /\ n - 1 \in 0..n /\ n - 1 # n /\ n # 0
                    OBVIOUS
                <5> QED BY <3>1, <5>1
            <4> QED BY <3>1, <4>1
        <3>2. CASE r # n
            <4>1. r \in 0..(n - 1) /\ g[r] = f[r] /\ (r # 0 => r - 1 \in 0..(n - 1) /\ g[r - 1] = f[r - 1])
                BY <3>2
            <4>2. f[r] = IF r = 0 THEN generateFirstRound(seeds) ELSE advanceRound(f[r - 1], r)
                BY <2>1, <4>1 DEF Drafts
            <4> QED BY <4>1, <4>2
        <3> QED BY <3>1, <3>2
    <2> HIDE DEF g
    <2>3. Drafts(g, seeds, n)
        BY <2>2 DEF Drafts, g
    <2> QED BY <2>3
<1> HIDE DEF S
<1>3. \A n \in 0..10 : n \in S
    BY <1>1, <1>2, TenSteps
<1> QED BY <1>3, RoundsOK DEF S

\* The slot an open match feeds is empty.
LEMMA OpenFeedsNobody ==
    ASSUME NEW b, Tree(b), NEW m \in Matches, b[m].next, Undecided(b[m])
    PROVE  /\ Parent(m) \in Matches /\ Parent(m) # m /\ FedSide(m) \in Sides
           /\ b[Parent(m)].slot[FedSide(m)] = NoOne
<1>1. Round(m) < Rounds
    BY DEF Tree
<1>2. /\ Parent(m) \in Matches /\ Round(Parent(m)) > 1 /\ Parent(m) # m
      /\ FedSide(m) \in Sides /\ Feeder(Parent(m), FedSide(m)) = m
    BY <1>1, ParentIsMatch
<1>3. ~Fed(b, Parent(m), FedSide(m))
    BY <1>2 DEF Fed
<1> QED BY <1>2, <1>3 DEF Tree, Follows

\* A match whose winner would meet nobody is made the last one.
LEMMA PruneKeepsTree ==
    ASSUME NEW b, Tree(b), \A m \in Matches : ~b[m].linked
    PROVE  /\ Tree(prunePlayableMatchesWithEmptySibling(b))
           /\ \A m \in Matches : ~prunePlayableMatchesWithEmptySibling(b)[m].linked
<1> DEFINE c == prunePlayableMatchesWithEmptySibling(b)
           last(m) == Playable(b[m]) /\ isBranchEmpty(b, Sibling(m))
           row(m) == [b[m] EXCEPT !.next = @ /\ ~last(m)]
<1>1. c = [m \in Matches |-> row(m)]
    BY DEF prunePlayableMatchesWithEmptySibling
<1> HIDE DEF c, last
<1>2. ASSUME NEW m \in Matches
      PROVE  /\ row(m) \in MatchRow /\ row(m).slot = b[m].slot /\ row(m).winnerSlot = b[m].winnerSlot
             /\ (row(m).next => b[m].next) /\ (b[m].next /\ ~row(m).next => last(m))
             /\ row(m).linked = b[m].linked
    <2> DEFINE n == b[m].next /\ ~last(m)
    <2>1. /\ b[m] \in MatchRow /\ n \in BOOLEAN /\ (n => b[m].next) /\ (b[m].next /\ ~n => last(m))
          /\ row(m) = [b[m] EXCEPT !.next = n]
        BY DEF Tree, MatchRow
    <2> HIDE DEF n, row
    <2> QED BY <2>1 DEF MatchRow
<1> HIDE DEF row
<1>3. ASSUME NEW m \in Matches PROVE c[m] = row(m)
    BY <1>1
<1>4. c \in [Matches -> MatchRow]
    BY <1>1, <1>2
<1>5. \A m \in Matches : ~c[m].linked /\ Decided(c[m]) /\ (c[m].next => Round(m) < Rounds)
    <2> SUFFICES ASSUME NEW m \in Matches
                 PROVE  ~c[m].linked /\ Decided(c[m]) /\ (c[m].next => Round(m) < Rounds)
        OBVIOUS
    <2>1. Decided(b[m]) /\ (b[m].next => Round(m) < Rounds) /\ ~b[m].linked
        BY DEF Tree
    <2>2. Decided(c[m])
        BY <1>2, <1>3, <2>1 DEF Decided, Undecided, Filled
    <2> QED BY <1>2, <1>3, <2>1, <2>2
<1>6. ASSUME NEW m \in Matches, NEW side \in Sides, Round(m) > 1, c[m].slot[side] # NoOne
      PROVE  Fed(c, m, side)
    <2>1. Feeder(m, side) \in Matches
        BY <1>6, FeederIsMatch
    <2>2. Fed(b, m, side)
        BY <1>2, <1>3, <1>6 DEF Tree, Follows
    <2> QED BY <1>2, <1>3, <2>1, <2>2 DEF Fed, Undecided
<1>7. Follows(c)
    BY <1>6 DEF Follows
<1>8. DrawnOnce(c)
    <2>1. \A m \in Matches, s \in Sides : c[m].slot[s] = b[m].slot[s]
        BY <1>2, <1>3
    <2> QED BY <2>1, DrawStays DEF Tree
<1>9. DeadEnds(c)
    <2> SUFFICES ASSUME NEW m \in Matches, Round(m) < Rounds, ~c[m].next
                 PROVE  c[Parent(m)].slot[FedSide(m)] = NoOne
        BY DEF DeadEnds
    <2>1. Parent(m) \in Matches /\ c[Parent(m)].slot = b[Parent(m)].slot
        BY <1>2, <1>3, ParentIsMatch
    <2>2. CASE ~b[m].next
        BY <2>1, <2>2 DEF Tree, DeadEnds
    <2>3. CASE b[m].next
        <3>1. Undecided(b[m])
            BY <1>2, <1>3, <2>3 DEF last, Playable
        <3> QED BY <2>1, <2>3, <3>1, OpenFeedsNobody
    <2> QED BY <2>2, <2>3
<1>10. Tree(c)
    BY <1>4, <1>5, <1>7, <1>8, <1>9 DEF Tree
<1> QED BY <1>5, <1>10 DEF c

\* What is made of the registered players is a tree nobody has played in.
LEMMA BuiltIsTree ==
    ASSUME NEW players \in SUBSET Users, NEW seeds \in Seedings(players, Rating)
    PROVE  /\ Tree(buildBracketStructure(seeds))
           /\ \A m \in Matches : ~buildBracketStructure(seeds)[m].linked
<1> DEFINE through == CHOOSE f : f = [r \in 0..Rounds |->
               IF r = 0 THEN generateFirstRound(seeds) ELSE advanceRound(f[r - 1], r)]
<1>1. buildBracketStructure(seeds) = prunePlayableMatchesWithEmptySibling(through[Rounds])
    BY DEF buildBracketStructure
<1>2. Drafts(through, seeds, Rounds)
    BY DraftsExist DEF Drafts
<1> HIDE DEF through
<1> DEFINE S == {n \in 0..10 : n <= Rounds => Draft(through[n], n)}
<1>3. 0 \in S
    <2>1. through[0] = generateFirstRound(seeds)
        BY <1>2, RoundsOK DEF Drafts
    <2>2. Draft(through[0], 0)
        BY <2>1, FirstRoundDrafted
    <2> QED BY <2>2
<1>4. ASSUME NEW n \in 1..10, n - 1 \in S PROVE n \in S
    <2>1. SUFFICES ASSUME n <= Rounds PROVE Draft(through[n], n)
        OBVIOUS
    <2>2. n \in 0..Rounds /\ n # 0 /\ n - 1 \in 0..10 /\ n - 1 <= Rounds
        BY <2>1, RoundsOK
    <2>3. Draft(through[n - 1], n - 1)
        BY <1>4, <2>2
    <2>4. through[n] = advanceRound(through[n - 1], n)
        BY <1>2, <2>2 DEF Drafts
    <2> QED BY <2>3, <2>4, AdvanceDrafts
<1> HIDE DEF S
<1>5. \A n \in 0..10 : n \in S
    BY <1>3, <1>4, TenSteps
<1>6. Draft(through[Rounds], Rounds)
    BY <1>5, RoundsOK DEF S
<1> QED BY <1>1, <1>6, PruneKeepsTree DEF Draft

-----------------------------------------------------------------------------
(* The invariant of a tournament that is played. *)

GenLabels == {"load", "count", "lock", "recount", "create", "mail", "release"}
ProgLabels == {"persist", "find", "complete", "advance", "fill", "notify", "crown"}

JobStates == {"waiting", "active", "done", "failed"}
\* A job that is or will be tried has an attempt left.
HasAttempt(job) == job.state \in {"waiting", "active"} => job.attempts < ATTEMPTS
GenJob == {job \in [state : JobStates, attempts : 0..ATTEMPTS] : HasAttempt(job)}
EndJob ==
    {job \in [state : JobStates, attempts : 0..ATTEMPTS, winner : Users \cup {NoOne}] : HasAttempt(job)}
HandlerType ==
    [pc : Labels, user : Users \cup {NoOne}, regs : SUBSET Users, m : Matches \cup {<<>>}, job : Nat,
     parent : MatchRow \cup {<<>>}]

RowsOK ==
    /\ status \in {"upcoming", "registration_open", "in_progress", "completed"}
    /\ winnerId \in Users \cup {NoOne}
    /\ regs \subseteq Users /\ Cardinality(regs) <= BracketSize
    /\ lock \in Slots \cup {NoSlot} /\ notified \subseteq Matches /\ faults \in Nat
JobsOK ==
    /\ proc \in [Slots -> HandlerType]
    /\ genJobs \in Seq(GenJob)
    /\ DOMAIN endJobs \subseteq Matches /\ endJobs \in [DOMAIN endJobs -> EndJob]
TreeOK == bracket = NoBracket \/ Tree(bracket)

\* Every job that runs is marked active and runs in one slot.
Assigned ==
    /\ \A p \in Slots : proc[p].pc \in GenLabels =>
          proc[p].job \in DOMAIN genJobs /\ genJobs[proc[p].job].state = "active"
    /\ \A p \in Slots : proc[p].pc \in ProgLabels =>
          proc[p].m \in DOMAIN endJobs /\ endJobs[proc[p].m].state = "active"
    /\ \A p, q \in Slots :
          \/ proc[p].pc \in GenLabels /\ proc[q].pc \in GenLabels /\ proc[p].job = proc[q].job
          \/ proc[p].pc \in ProgLabels /\ proc[q].pc \in ProgLabels /\ proc[p].m = proc[q].m
          => p = q

\* A match that was played has both its players, and no other is linked.
Full(match) == \A side \in Sides : match.slot[side] # NoOne
Played ==
    /\ \A m \in DOMAIN endJobs : m \in DOMAIN bracket /\ Full(bracket[m])
    /\ \A m \in DOMAIN bracket : bracket[m].linked => m \in DOMAIN endJobs

\* What processMatchEnded found of the match still holds when its transaction commits:
\* the match is open, its winner is in it, and the slot of the parent was empty when it
\* was read.
Found(k, b, e) ==
    /\ k.pc \in {"complete", "advance", "fill"} =>
          /\ Undecided(b[k.m]) /\ e[k.m].winner # NoOne
          /\ \E side \in Sides : b[k.m].slot[side] = e[k.m].winner
    /\ k.pc \in {"advance", "fill", "notify"} => b[k.m].next
    /\ k.pc = "complete" => ~b[k.m].next
    /\ k.pc = "fill" => k.parent \in MatchRow /\ k.parent.slot[FedSide(k.m)] = NoOne
StillFound == \A p \in Slots : Found(proc[p], bracket, endJobs)

PlayInv == RowsOK /\ JobsOK /\ TreeOK /\ Assigned /\ Played /\ StillFound

-----------------------------------------------------------------------------
(* What happens to the tree. *)

\* Nothing is taken back: who is in a slot stays there, and only m may be decided.
Grows(b, c, m) ==
    \A n \in Matches :
        /\ c[n].next = b[n].next
        /\ \A s \in Sides : b[n].slot[s] # NoOne => c[n].slot[s] = b[n].slot[s]
        /\ n # m => c[n].winnerSlot = b[n].winnerSlot

\* A match is decided for a player in it, who may move on to the slot it feeds.
LEMMA DecideKeepsTree ==
    ASSUME NEW b, Tree(b), NEW m \in Matches, Undecided(b[m]), NEW w \in Sides, b[m].slot[w] # NoOne,
           NEW c \in [Matches -> MatchRow],
           \A n \in Matches : c[n].next = b[n].next /\ (n # m => c[n].winnerSlot = b[n].winnerSlot),
           c[m].winnerSlot = w,
           \A n \in Matches, s \in Sides :
              \/ c[n].slot[s] = b[n].slot[s]
              \/ b[m].next /\ n = Parent(m) /\ s = FedSide(m) /\ c[n].slot[s] = b[m].slot[w]
    PROVE  Tree(c) /\ Grows(b, c, m)
<1>1. ASSUME NEW n \in Matches, NEW s \in Sides, b[n].slot[s] # NoOne
      PROVE  c[n].slot[s] = b[n].slot[s]
    BY <1>1, OpenFeedsNobody
<1>2. Grows(b, c, m)
    BY <1>1 DEF Grows
<1>3. ASSUME NEW n \in Matches PROVE Decided(c[n]) /\ (c[n].next => Round(n) < Rounds)
    <2>1. Decided(b[n]) /\ (b[n].next => Round(n) < Rounds)
        BY DEF Tree
    <2>2. CASE n = m
        BY <1>1, <2>1, <2>2 DEF Decided, Filled
    <2>3. CASE n # m
        BY <1>1, <2>1, <2>3 DEF Decided, Filled, Undecided
    <2> QED BY <2>2, <2>3
<1>4. ASSUME NEW n \in Matches, NEW s \in Sides, Round(n) > 1, c[n].slot[s] # NoOne
      PROVE  Fed(c, n, s)
    <2> DEFINE f == Feeder(n, s)
    <2>1. f \in Matches /\ Parent(f) = n /\ FedSide(f) = s
        BY <1>4, FeederIsMatch
    <2>2. CASE f = m
        <3>1. c[n].slot[s] = b[m].slot[w]
            <4>1. b[n].slot[s] # NoOne => Fed(b, n, s)
                BY <1>4 DEF Tree, Follows
            <4>2. ~Fed(b, n, s)
                BY <2>2 DEF Fed
            <4> QED BY <1>4, <4>1, <4>2
        <3>2. c[m].slot[w] = b[m].slot[w]
            BY <1>1
        <3>3. ~Undecided(c[m])
            BY DEF Undecided, Sides
        <3> QED BY <2>2, <3>1, <3>2, <3>3 DEF Fed
    <2>3. CASE f # m
        <3>1. ~(b[m].next /\ n = Parent(m) /\ s = FedSide(m))
            <4>1. b[m].next => Round(m) < Rounds
                BY DEF Tree
            <4> QED BY <2>3, <4>1, ParentIsMatch
        <3>2. c[n].slot[s] = b[n].slot[s]
            BY <3>1
        <3>3. Fed(b, n, s)
            BY <1>4, <3>2 DEF Tree, Follows
        <3>4. c[f].winnerSlot = b[f].winnerSlot
            BY <2>1, <2>3
        <3>5. b[f].winnerSlot \in Sides /\ b[f].slot[b[f].winnerSlot] # NoOne
            BY <2>1, <3>3 DEF Tree, Decided, Fed, Filled
        <3>6. c[f].slot[b[f].winnerSlot] = b[f].slot[b[f].winnerSlot]
            BY <1>1, <2>1, <3>5
        <3> QED BY <3>2, <3>3, <3>4, <3>6 DEF Fed, Undecided
    <2> QED BY <2>2, <2>3
<1>5. Follows(c)
    BY <1>4 DEF Follows
<1>6. DrawnOnce(c)
    <2>1. b[m].next => Round(Parent(m)) > 1
        BY ParentIsMatch DEF Tree
    <2>2. \A n \in Matches, s \in Sides : Round(n) = 1 => c[n].slot[s] = b[n].slot[s]
        BY <2>1
    <2> QED BY <2>2, DrawStays DEF Tree
<1>7. DeadEnds(c)
    <2> SUFFICES ASSUME NEW n \in Matches, Round(n) < Rounds, ~c[n].next
                 PROVE  c[Parent(n)].slot[FedSide(n)] = NoOne
        BY DEF DeadEnds
    <2>1. /\ Parent(n) \in Matches /\ FedSide(n) \in Sides /\ ~b[n].next
          /\ Feeder(Parent(n), FedSide(n)) = n
        BY ParentIsMatch
    <2>2. b[Parent(n)].slot[FedSide(n)] = NoOne
        BY <2>1 DEF Tree, DeadEnds
    <2>3. b[m].next => Feeder(Parent(m), FedSide(m)) = m
        BY ParentIsMatch DEF Tree
    <2>4. ~(b[m].next /\ Parent(n) = Parent(m) /\ FedSide(n) = FedSide(m))
        BY <2>1, <2>3
    <2> QED BY <2>1, <2>2, <2>4
<1>8. Tree(c)
    BY <1>3, <1>5, <1>6, <1>7 DEF Tree
<1> QED BY <1>2, <1>8

\* Linking a match to the one that was played changes nothing else.
LEMMA LinkKeepsTree ==
    ASSUME NEW b, Tree(b), NEW m \in Matches, NEW c \in [Matches -> MatchRow],
           \A n \in Matches :
              c[n].slot = b[n].slot /\ c[n].winnerSlot = b[n].winnerSlot /\ c[n].next = b[n].next
    PROVE  Tree(c) /\ Grows(b, c, m)
<1>1. Grows(b, c, m)
    BY DEF Grows
<1>2. ASSUME NEW n \in Matches PROVE Decided(c[n]) /\ (c[n].next => Round(n) < Rounds)
    <2>1. Decided(b[n]) /\ (b[n].next => Round(n) < Rounds)
        BY DEF Tree
    <2> QED BY <2>1 DEF Decided, Filled, Undecided
<1>3. ASSUME NEW n \in Matches, NEW s \in Sides, Round(n) > 1, c[n].slot[s] # NoOne
      PROVE  Fed(c, n, s)
    <2>1. Feeder(n, s) \in Matches
        BY <1>3, FeederIsMatch
    <2>2. Fed(b, n, s)
        BY <1>3 DEF Tree, Follows
    <2> QED BY <2>1, <2>2 DEF Fed, Undecided
<1>4. Follows(c)
    BY <1>3 DEF Follows
<1>5. DrawnOnce(c) /\ DeadEnds(c)
    <2>1. \A n \in Matches, s \in Sides : Round(n) = 1 => c[n].slot[s] = b[n].slot[s]
        OBVIOUS
    <2>2. DrawnOnce(c)
        BY <2>1, DrawStays DEF Tree
    <2>3. \A n \in Matches : Round(n) < Rounds => Parent(n) \in Matches
        BY ParentIsMatch
    <2> QED BY <2>2, <2>3 DEF Tree, DeadEnds
<1>6. Tree(c)
    BY <1>2, <1>4, <1>5 DEF Tree
<1> QED BY <1>1, <1>6

-----------------------------------------------------------------------------
(* What happens to the jobs. *)

LEMMA IdleOK == Idle \in HandlerType /\ Idle.pc = "idle"
BY DEF Idle, HandlerType, Labels

LEMMA LabelSets ==
    /\ \A p \in Slots : (Generating(p) <=> proc[p].pc \in GenLabels)
                        /\ (Progressing(p) <=> proc[p].pc \in ProgLabels)
    /\ GenLabels \cap ProgLabels = {} /\ "idle" \notin GenLabels \cup ProgLabels
BY DEF Generating, Progressing, GenLabels, ProgLabels

\* A handler that runs a job after a step ran the same one before.
SameJob(h, k) ==
    /\ k.pc \in GenLabels => h.pc \in GenLabels /\ k.job = h.job
    /\ k.pc \in ProgLabels => h.pc \in ProgLabels /\ k.m = h.m

\* The results of the matches that were played.
SameResults ==
    DOMAIN endJobs' = DOMAIN endJobs /\ \A m \in DOMAIN endJobs : endJobs'[m].winner = endJobs[m].winner

LEMMA OneMoves ==
    ASSUME JobsOK, NEW p \in Slots, NEW k \in HandlerType, proc' = [proc EXCEPT ![p] = k]
    PROVE  proc' \in [Slots -> HandlerType] /\ \A q \in Slots : proc'[q] = IF q = p THEN k ELSE proc[q]
BY DEF JobsOK

\* A handler goes on, or ends without a job; a job may be added to the queue.
LEMMA JobsKept ==
    ASSUME JobsOK, Assigned, NEW p \in Slots, NEW k \in HandlerType, proc' = [proc EXCEPT ![p] = k],
           SameJob(proc[p], k), endJobs' = endJobs,
           genJobs' = genJobs \/ genJobs' = Append(genJobs, NewJob)
    PROVE  JobsOK' /\ Assigned' /\ SameResults
<1>1. proc' \in [Slots -> HandlerType] /\ \A q \in Slots : proc'[q] = IF q = p THEN k ELSE proc[q]
    BY OneMoves
<1>2. genJobs \in Seq(GenJob)
    BY DEF JobsOK
<1>3. NewJob \in GenJob
    BY DEF NewJob, GenJob, JobStates, HasAttempt, ATTEMPTS
<1>4. /\ genJobs' \in Seq(GenJob) /\ DOMAIN genJobs \subseteq DOMAIN genJobs'
      /\ \A j \in DOMAIN genJobs : genJobs'[j] = genJobs[j]
    <2>1. CASE genJobs' = genJobs
        BY <1>2, <2>1
    <2>2. CASE genJobs' = Append(genJobs, NewJob)
        BY <1>2, <1>3, <2>2
    <2> QED BY <2>1, <2>2
<1>5. JobsOK'
    BY <1>1, <1>4 DEF JobsOK
<1>6. Assigned'
    BY <1>1, <1>4 DEF Assigned, SameJob
<1> QED BY <1>5, <1>6 DEF SameResults

\* A slot takes a waiting job ...
LEMMA JobTaken ==
    ASSUME JobsOK, Assigned, NEW p \in Slots, NEW j \in DOMAIN genJobs, GenerateBracket(p, j)
    PROVE  JobsOK' /\ Assigned' /\ SameResults
<1> DEFINE k == [Idle EXCEPT !.pc = "load", !.job = j]
           g == [genJobs[j] EXCEPT !.state = "active"]
<1>1. /\ genJobs \in Seq(GenJob) /\ genJobs[j].state = "waiting" /\ proc' = [proc EXCEPT ![p] = k]
      /\ endJobs' = endJobs /\ genJobs' = [genJobs EXCEPT ![j] = g]
    BY DEF JobsOK, GenerateBracket, Begin
<1>2. genJobs[j] \in GenJob /\ j \in Nat
    BY <1>1
<1>3. g \in GenJob /\ g.state = "active"
    BY <1>1, <1>2 DEF GenJob, HasAttempt, JobStates
<1>4. k \in HandlerType /\ k.pc = "load" /\ k.job = j
    BY <1>2 DEF Idle, HandlerType, Labels
<1> HIDE DEF k, g
<1>5. proc' \in [Slots -> HandlerType] /\ \A q \in Slots : proc'[q] = IF q = p THEN k ELSE proc[q]
    BY <1>1, <1>4, OneMoves
<1>6. /\ genJobs' \in Seq(GenJob) /\ DOMAIN genJobs' = DOMAIN genJobs
      /\ \A i \in DOMAIN genJobs : genJobs'[i] = IF i = j THEN g ELSE genJobs[i]
    BY <1>1, <1>3
<1>7. JobsOK'
    BY <1>1, <1>5, <1>6 DEF JobsOK
<1>8. \A q \in Slots : proc[q].pc \in GenLabels => proc[q].job # j
    BY <1>1 DEF Assigned
<1>9. k.pc \in GenLabels /\ k.pc \notin ProgLabels
    BY <1>4 DEF GenLabels, ProgLabels
<1>10. Assigned'
    BY <1>1, <1>3, <1>4, <1>5, <1>6, <1>8, <1>9 DEF Assigned
<1> QED BY <1>1, <1>7, <1>10 DEF SameResults

\* ... of either queue ...
LEMMA EndJobTaken ==
    ASSUME JobsOK, Assigned, NEW p \in Slots, NEW m \in DOMAIN endJobs, MatchEnded(p, m)
    PROVE  JobsOK' /\ Assigned' /\ SameResults
<1> DEFINE k == [Idle EXCEPT !.pc = "persist", !.m = m]
           g == [endJobs[m] EXCEPT !.state = "active"]
<1>1. /\ endJobs \in [DOMAIN endJobs -> EndJob] /\ m \in Matches /\ endJobs[m].state = "waiting"
      /\ proc' = [proc EXCEPT ![p] = k] /\ genJobs' = genJobs /\ endJobs' = [endJobs EXCEPT ![m] = g]
    BY DEF JobsOK, MatchEnded, Begin
<1>2. endJobs[m] \in EndJob
    BY <1>1
<1>3. g \in EndJob /\ g.state = "active" /\ g.winner = endJobs[m].winner
    BY <1>1, <1>2 DEF EndJob, HasAttempt, JobStates
<1>4. k \in HandlerType /\ k.pc = "persist" /\ k.m = m
    BY <1>1 DEF Idle, HandlerType, Labels
<1> HIDE DEF k, g
<1>5. proc' \in [Slots -> HandlerType] /\ \A q \in Slots : proc'[q] = IF q = p THEN k ELSE proc[q]
    BY <1>1, <1>4, OneMoves
<1>6. /\ DOMAIN endJobs' = DOMAIN endJobs /\ endJobs' \in [DOMAIN endJobs' -> EndJob]
      /\ \A n \in DOMAIN endJobs : endJobs'[n] = IF n = m THEN g ELSE endJobs[n]
    BY <1>1, <1>3
<1>7. JobsOK'
    BY <1>1, <1>5, <1>6 DEF JobsOK
<1>8. \A q \in Slots : proc[q].pc \in ProgLabels => proc[q].m # m
    BY <1>1 DEF Assigned
<1>9. k.pc \in ProgLabels /\ k.pc \notin GenLabels
    BY <1>4 DEF GenLabels, ProgLabels
<1>10. Assigned'
    BY <1>1, <1>3, <1>4, <1>5, <1>6, <1>8, <1>9 DEF Assigned
<1> QED BY <1>3, <1>6, <1>7, <1>10 DEF SameResults

\* ... and is done with it: it has succeeded, failed for good, or waits for another try.
Ending(p) ==
    \/ Complete(p) \/ Throw(p) \/ Fail(p)
    \/ Return(p) /\ Settle(p, [JobOf(p) EXCEPT !.state = "waiting"])

\* The job as it is settled: neither running nor without the attempt it waits for.
Settled(new) ==
    /\ new.state \in JobStates \ {"active"} /\ new.attempts \in 0..ATTEMPTS /\ HasAttempt(new)

LEMMA EndingSettles ==
    ASSUME NEW p \in Slots, Ending(p), NEW T, JobOf(p) \in T, T \in {GenJob, EndJob},
           JobOf(p).state = "active"
    PROVE  \E job : Settle(p, job) /\ Settled(job) /\ Return(p) /\ job \in T
<1> DEFINE old == JobOf(p)
<1>1. old \in T /\ old.attempts < ATTEMPTS
    BY DEF GenJob, EndJob, HasAttempt
<1> HIDE DEF old
<1>2. ASSUME NEW s \in JobStates \ {"active"}, NEW job, job = [old EXCEPT !.state = s]
      PROVE  Settled(job) /\ job \in T
    <2>1. CASE T = GenJob
        BY <1>1, <1>2, <2>1 DEF GenJob, Settled, HasAttempt, JobStates
    <2>2. CASE T = EndJob
        BY <1>1, <1>2, <2>2 DEF EndJob, Settled, HasAttempt, JobStates
    <2> QED BY <2>1, <2>2
<1>3. CASE Complete(p)
    <2>1. Return(p) /\ Settle(p, [old EXCEPT !.state = "done"])
        BY <1>3 DEF Complete, old
    <2> QED BY <1>2, <2>1 DEF JobStates, old
<1>4. CASE Fail(p)
    <2>1. Return(p) /\ Settle(p, [old EXCEPT !.state = "failed"])
        BY <1>4 DEF Fail, old
    <2> QED BY <1>2, <2>1 DEF JobStates, old
<1>5. CASE Return(p) /\ Settle(p, [JobOf(p) EXCEPT !.state = "waiting"])
    <2>1. Return(p) /\ Settle(p, [old EXCEPT !.state = "waiting"])
        BY <1>5 DEF old
    <2> QED BY <1>2, <2>1 DEF JobStates, old
<1>6. CASE Throw(p)
    <2> DEFINE n == old.attempts + 1
               s == IF n < ATTEMPTS THEN "waiting" ELSE "failed"
    <2>1. Return(p) /\ Settle(p, [old EXCEPT !.attempts = n, !.state = s])
        BY <1>6 DEF Throw, old
    <2>2. old.attempts \in 0..ATTEMPTS
        BY <1>1 DEF GenJob, EndJob
    <2>3. n \in 0..ATTEMPTS /\ s \in JobStates \ {"active"} /\ (s = "waiting" => n < ATTEMPTS)
        BY <1>1, <2>2 DEF ATTEMPTS, JobStates
    <2> HIDE DEF n, s
    <2> DEFINE job == [old EXCEPT !.attempts = n, !.state = s]
    <2>4. job = [old EXCEPT !.attempts = n, !.state = s] /\ Return(p) /\ Settle(p, job)
        BY <2>1
    <2> HIDE DEF job
    <2>5. Settled(job) /\ job \in T
        <3>1. CASE T = GenJob
            BY <1>1, <2>3, <2>4, <3>1 DEF GenJob, Settled, HasAttempt, JobStates
        <3>2. CASE T = EndJob
            BY <1>1, <2>3, <2>4, <3>2 DEF EndJob, Settled, HasAttempt, JobStates
        <3> QED BY <3>1, <3>2
    <2> QED BY <2>4, <2>5
<1> QED BY <1>3, <1>4, <1>5, <1>6 DEF Ending

\* Whatever the outcome, the job runs in no slot afterwards.
LEMMA JobSettled ==
    ASSUME JobsOK, Assigned, NEW p \in Slots, proc[p].pc \in GenLabels \cup ProgLabels, Ending(p)
    PROVE  JobsOK' /\ Assigned' /\ SameResults /\ proc' = [proc EXCEPT ![p] = Idle]
<1>1. /\ genJobs \in Seq(GenJob) /\ endJobs \in [DOMAIN endJobs -> EndJob]
      /\ DOMAIN endJobs \subseteq Matches /\ proc \in [Slots -> HandlerType]
    BY DEF JobsOK
<1>2. proc' = [proc EXCEPT ![p] = Idle]
    BY DEF Ending, Complete, Throw, Fail, Return
<1>3. proc' \in [Slots -> HandlerType] /\ \A q \in Slots : proc'[q] = IF q = p THEN Idle ELSE proc[q]
    BY <1>2, IdleOK, OneMoves
<1>4. Idle.pc \notin GenLabels /\ Idle.pc \notin ProgLabels
    BY IdleOK, LabelSets
<1>5. CASE proc[p].pc \in GenLabels
    <2> DEFINE j == proc[p].job
    <2>1. Generating(p) /\ ~Progressing(p)
        BY <1>5, LabelSets
    <2>2. j \in DOMAIN genJobs /\ genJobs[j].state = "active" /\ JobOf(p) = genJobs[j]
        BY <1>5, <2>1 DEF Assigned, JobOf
    <2>3. genJobs[j] \in GenJob
        BY <1>1, <2>2
    <2>4. PICK job : Settle(p, job) /\ Settled(job) /\ job \in GenJob
        BY <2>2, <2>3, EndingSettles
    <2>5. genJobs' = [genJobs EXCEPT ![j] = job] /\ endJobs' = endJobs
        BY <2>1, <2>4 DEF Settle
    <2>6. /\ genJobs' \in Seq(GenJob) /\ DOMAIN genJobs' = DOMAIN genJobs
          /\ \A i \in DOMAIN genJobs : i # j => genJobs'[i] = genJobs[i]
        BY <1>1, <2>2, <2>4, <2>5
    <2>7. JobsOK'
        BY <1>1, <1>3, <2>5, <2>6 DEF JobsOK
    <2>8. \A q \in Slots : q # p /\ proc[q].pc \in GenLabels => proc[q].job # j
        BY <1>5 DEF Assigned
    <2>9. Assigned'
        BY <1>3, <1>4, <2>5, <2>6, <2>8 DEF Assigned
    <2> QED BY <1>2, <2>5, <2>7, <2>9 DEF SameResults
<1>6. CASE proc[p].pc \in ProgLabels
    <2> DEFINE m == proc[p].m
    <2>1. Progressing(p) /\ ~Generating(p)
        BY <1>6, LabelSets
    <2>2. m \in DOMAIN endJobs /\ endJobs[m].state = "active" /\ JobOf(p) = endJobs[m]
        BY <1>6, <2>1 DEF Assigned, JobOf
    <2>3. endJobs[m] \in EndJob
        BY <1>1, <2>2
    <2>4. PICK job : Settle(p, job) /\ Settled(job) /\ job \in EndJob
        BY <2>2, <2>3, EndingSettles
    <2> DEFINE new == [endJobs[m] EXCEPT !.state = job.state, !.attempts = job.attempts]
    <2>5. endJobs' = [endJobs EXCEPT ![m] = new] /\ genJobs' = genJobs
        BY <2>1, <2>4 DEF Settle
    <2>6. new \in EndJob /\ new.winner = endJobs[m].winner
        BY <2>3, <2>4 DEF EndJob, Settled, HasAttempt
    <2> HIDE DEF new
    <2>7. /\ DOMAIN endJobs' = DOMAIN endJobs /\ endJobs' \in [DOMAIN endJobs' -> EndJob]
          /\ \A n \in DOMAIN endJobs : endJobs'[n] = IF n = m THEN new ELSE endJobs[n]
        BY <1>1, <2>2, <2>5, <2>6
    <2>8. JobsOK'
        BY <1>1, <1>3, <2>5, <2>7 DEF JobsOK
    <2>9. \A q \in Slots : q # p /\ proc[q].pc \in ProgLabels => proc[q].m # m
        BY <1>6 DEF Assigned
    <2>10. Assigned'
        BY <1>3, <1>4, <2>5, <2>7, <2>9 DEF Assigned
    <2> QED BY <1>2, <2>6, <2>7, <2>8, <2>10 DEF SameResults
<1> QED BY <1>5, <1>6

-----------------------------------------------------------------------------
(* What the handlers know of the tree. *)

\* A step that leaves the bracket alone leaves what they have found.
LEMMA QuietTree ==
    ASSUME PlayInv, NEW p \in Slots, NEW k, proc' = [proc EXCEPT ![p] = k],
           Found(k, bracket, endJobs), bracket' = bracket, JobsOK', SameResults,
           k.pc \in {"complete", "advance", "fill"} => k.m \in DOMAIN endJobs
    PROVE  TreeOK' /\ Played' /\ StillFound'
<1>1. \A q \in Slots : proc'[q] = IF q = p THEN k ELSE proc[q]
    BY DEF PlayInv, JobsOK
<1>2. TreeOK' /\ Played'
    BY DEF PlayInv, TreeOK, Played, SameResults
<1>3. ASSUME NEW q \in Slots PROVE Found(proc'[q], bracket, endJobs')
    <2>1. Found(proc'[q], bracket, endJobs)
        BY <1>1 DEF PlayInv, StillFound
    <2>2. proc'[q].pc \in {"complete", "advance", "fill"} => proc'[q].m \in DOMAIN endJobs
        BY <1>1 DEF PlayInv, Assigned, ProgLabels
    <2> QED BY <2>1, <2>2 DEF Found, SameResults
<1> QED BY <1>2, <1>3 DEF StillFound

\* Handlers other than the one that decides a match are not disturbed by it.
LEMMA GrowingTree ==
    ASSUME PlayInv, NEW p \in Slots, NEW k, proc' = [proc EXCEPT ![p] = k],
           k.pc \notin {"complete", "advance", "fill"}, k.pc = "notify" => bracket[k.m].next /\ k.m \in Matches,
           Tree(bracket), Tree(bracket'), NEW d, Grows(bracket, bracket', d),
           \A q \in Slots \ {p} : proc[q].pc \in ProgLabels => proc[q].m # d,
           JobsOK', SameResults,
           \A n \in Matches : bracket'[n].linked => bracket[n].linked \/ n \in DOMAIN endJobs
    PROVE  TreeOK' /\ Played' /\ StillFound'
<1>1. \A q \in Slots : proc'[q] = IF q = p THEN k ELSE proc[q]
    BY DEF PlayInv, JobsOK
<1>2. DOMAIN bracket = Matches /\ DOMAIN bracket' = Matches /\ DOMAIN endJobs \subseteq Matches
    BY DEF Tree, PlayInv, JobsOK
<1>3. TreeOK'
    BY DEF TreeOK
<1>4. \A m \in DOMAIN endJobs : Full(bracket'[m])
    BY <1>2 DEF PlayInv, Played, Full, Grows
<1>5. Played'
    BY <1>2, <1>4 DEF PlayInv, Played, SameResults
<1>6. ASSUME NEW q \in Slots PROVE Found(proc'[q], bracket', endJobs')
    <2>1. CASE q = p
        BY <1>1, <2>1 DEF Found, Grows
    <2>2. CASE q # p
        <3> DEFINE h == proc[q]
        <3>1. proc'[q] = h /\ Found(h, bracket, endJobs)
            BY <1>1, <2>2 DEF PlayInv, StillFound
        <3>2. h.pc \in ProgLabels => h.m \in DOMAIN endJobs /\ h.m \in Matches /\ h.m # d
            BY <1>2, <2>2 DEF PlayInv, Assigned
        <3>3. h.pc \in {"complete", "advance", "fill", "notify"} => h.pc \in ProgLabels
            BY DEF ProgLabels
        <3>4. /\ h.pc \in {"advance", "fill", "notify"} => bracket'[h.m].next
              /\ h.pc = "complete" => ~bracket'[h.m].next
            BY <3>1, <3>2, <3>3 DEF Found, Grows
        <3>5. ASSUME h.pc \in {"complete", "advance", "fill"}
              PROVE  /\ Undecided(bracket'[h.m]) /\ endJobs'[h.m].winner # NoOne
                     /\ \E side \in Sides : bracket'[h.m].slot[side] = endJobs'[h.m].winner
            <4>1. h.m \in DOMAIN endJobs /\ h.m \in Matches /\ h.m # d
                BY <3>2, <3>3, <3>5
            <4>2. endJobs'[h.m].winner = endJobs[h.m].winner /\ endJobs[h.m].winner # NoOne
                BY <3>1, <3>5, <4>1 DEF SameResults, Found
            <4>3. Undecided(bracket'[h.m])
                BY <3>1, <3>5, <4>1 DEF Found, Grows, Undecided
            <4>4. PICK side \in Sides : bracket[h.m].slot[side] = endJobs[h.m].winner
                BY <3>1, <3>5 DEF Found
            <4>5. bracket'[h.m].slot[side] = endJobs'[h.m].winner
                BY <4>1, <4>2, <4>4 DEF Grows
            <4> QED BY <4>2, <4>3, <4>5
        <3> QED BY <3>1, <3>4, <3>5 DEF Found
    <2> QED BY <2>1, <2>2
<1> QED BY <1>3, <1>5, <1>6 DEF StillFound

-----------------------------------------------------------------------------
(* The steps keep the invariant. *)

LEMMA Moves ==
    ASSUME PlayInv, NEW p \in Slots, NEW k \in HandlerType, proc' = [proc EXCEPT ![p] = k],
           SameJob(proc[p], k), Found(k, bracket, endJobs), bracket' = bracket, endJobs' = endJobs,
           genJobs' = genJobs \/ genJobs' = Append(genJobs, NewJob), RowsOK'
    PROVE  PlayInv'
<1>1. JobsOK' /\ Assigned' /\ SameResults
    BY JobsKept DEF PlayInv
<1>2. k.pc \in {"complete", "advance", "fill"} => k.m \in DOMAIN endJobs
    BY DEF PlayInv, Assigned, SameJob, ProgLabels
<1>3. TreeOK' /\ Played' /\ StillFound'
    BY <1>1, <1>2, QuietTree
<1> QED BY <1>1, <1>3 DEF PlayInv

LEMMA Ends ==
    ASSUME PlayInv, NEW p \in Slots, proc[p].pc \in GenLabels \cup ProgLabels, Ending(p),
           bracket' = bracket, RowsOK'
    PROVE  PlayInv'
<1>1. JobsOK' /\ Assigned' /\ SameResults /\ proc' = [proc EXCEPT ![p] = Idle]
    BY JobSettled DEF PlayInv
<1>2. Found(Idle, bracket, endJobs) /\ Idle.pc \notin {"complete", "advance", "fill"}
    BY IdleOK DEF Found
<1>3. TreeOK' /\ Played' /\ StillFound'
    BY <1>1, <1>2, QuietTree
<1> QED BY <1>1, <1>3 DEF PlayInv

\* A request is over.
LEMMA Returns ==
    ASSUME PlayInv, NEW p \in Slots, Return(p), bracket' = bracket, endJobs' = endJobs,
           genJobs' = genJobs \/ genJobs' = Append(genJobs, NewJob), RowsOK'
    PROVE  PlayInv'
<1>1. Idle \in HandlerType /\ SameJob(proc[p], Idle) /\ Found(Idle, bracket, endJobs)
    BY IdleOK DEF SameJob, Found, GenLabels, ProgLabels
<1> QED BY <1>1, Moves DEF Return

LEMMA Relabels ==
    ASSUME PlayInv, NEW p \in Slots, NEW label \in Labels, Goto(p, label)
    PROVE  \E k \in HandlerType :
              /\ proc' = [proc EXCEPT ![p] = k]
              /\ k.pc = label /\ k.m = proc[p].m /\ k.job = proc[p].job /\ k.parent = proc[p].parent
<1> DEFINE k == [proc[p] EXCEPT !.pc = label]
<1>1. proc \in [Slots -> HandlerType]
    BY DEF PlayInv, JobsOK
<1>2. k \in HandlerType /\ k.pc = label /\ k.m = proc[p].m /\ k.job = proc[p].job /\ k.parent = proc[p].parent
    BY <1>1 DEF HandlerType
<1>3. proc' = [proc EXCEPT ![p] = k]
    BY <1>1 DEF Goto
<1> HIDE DEF k
<1> QED BY <1>2, <1>3

\* A handler goes on within its job, to a label at which nothing is known of the tree.
LEMMA GoesOn ==
    ASSUME PlayInv, NEW p \in Slots, NEW label \in Labels \ {"complete", "advance", "fill", "notify"},
           Goto(p, label), label \in GenLabels => proc[p].pc \in GenLabels,
           label \in ProgLabels => proc[p].pc \in ProgLabels,
           bracket' = bracket, endJobs' = endJobs,
           genJobs' = genJobs \/ genJobs' = Append(genJobs, NewJob), RowsOK'
    PROVE  PlayInv'
<1>1. PICK k \in HandlerType :
          /\ proc' = [proc EXCEPT ![p] = k]
          /\ k.pc = label /\ k.m = proc[p].m /\ k.job = proc[p].job
    BY Relabels
<1>2. SameJob(proc[p], k) /\ Found(k, bracket, endJobs)
    BY <1>1 DEF SameJob, Found
<1> QED BY <1>1, <1>2, Moves

\* Registering and leaving.
LEMMA RegistrationBounds ==
    ASSUME RowsOK, NEW u \in Users
    PROVE  /\ Cardinality(regs) < BracketSize => Cardinality(regs \cup {u}) <= BracketSize
           /\ Cardinality(regs \ {u}) <= BracketSize
           /\ regs \ {NoOne} = regs
<1>1. IsFiniteSet(regs) /\ Cardinality(regs) \in Nat /\ Cardinality(regs) <= BracketSize
    BY TournamentAssumption, FS_Subset, FS_CardinalityType DEF RowsOK
<1>2. Cardinality(regs \cup {u}) \in {Cardinality(regs), Cardinality(regs) + 1}
    BY <1>1, FS_AddElement
<1>3. Cardinality(regs \ {u}) \in {Cardinality(regs), Cardinality(regs) - 1}
    BY <1>1, FS_RemoveElement
<1> QED BY <1>1, <1>2, <1>3, SizeOK, TournamentAssumption DEF RowsOK

\* The requests of the API.
LEMMA RequestsKeepPlay ==
    ASSUME PlayInv, NEW p \in Slots,
           \/ Request(p) \/ DeleteRegistration(p) \/ CountPlayers(p) \/ SetInProgress(p)
           \/ EnqueueGenerateBracket(p) \/ EnqueueFails(p) \/ RollBack(p)
    PROVE  PlayInv'
<1>1. /\ UNCHANGED <<winnerId, bracket, endJobs, lock, notified>>
      /\ genJobs' = genJobs \/ genJobs' = Append(genJobs, NewJob)
    <2>1. CASE Request(p)
        BY <2>1 DEF Request, StartTournament, UnregisterPlayer, rows, jobs
    <2>2. CASE DeleteRegistration(p) \/ CountPlayers(p) \/ SetInProgress(p) \/ RollBack(p)
        BY <2>2 DEF DeleteRegistration, CountPlayers, SetInProgress, RollBack, rows, jobs
    <2>3. CASE EnqueueGenerateBracket(p) \/ EnqueueFails(p)
        BY <2>3 DEF EnqueueGenerateBracket, EnqueueFails, rows
    <2> QED BY <2>1, <2>2, <2>3
<1>2. RowsOK
    BY DEF PlayInv
<1>3. proc \in [Slots -> HandlerType]
    BY DEF PlayInv, JobsOK
<1>4. RowsOK'
    <2>1. CASE DeleteRegistration(p)
        <3>1. regs' = regs \ {proc[p].user} /\ UNCHANGED <<status, faults>>
            BY <2>1 DEF DeleteRegistration, counters
        <3>2. proc[p].user \in Users \/ proc[p].user = NoOne
            BY <1>3 DEF HandlerType
        <3>3. regs' \subseteq Users /\ Cardinality(regs') <= BracketSize
            BY <1>2, <3>1, <3>2, RegistrationBounds, TournamentAssumption DEF RowsOK
        <3> QED BY <1>1, <1>2, <3>1, <3>3 DEF RowsOK
    <2>2. CASE ~DeleteRegistration(p)
        <3>1. /\ regs' = regs /\ faults' \in {faults, faults + 1}
              /\ status' \in {status, "in_progress", "registration_open"}
            <4>1. CASE Request(p) \/ CountPlayers(p)
                BY <4>1 DEF Request, StartTournament, UnregisterPlayer, CountPlayers, rows, counters
            <4>2. CASE SetInProgress(p) \/ RollBack(p)
                BY <4>2 DEF SetInProgress, RollBack, counters
            <4>3. CASE EnqueueGenerateBracket(p) \/ EnqueueFails(p)
                BY <4>3 DEF EnqueueGenerateBracket, EnqueueFails, rows, counters
            <4> QED BY <2>2, <4>1, <4>2, <4>3
        <3>2. faults' \in Nat
            BY <1>2, <3>1 DEF RowsOK
        <3> QED BY <1>1, <1>2, <3>1, <3>2 DEF RowsOK
    <2> QED BY <2>1, <2>2
<1>5. CASE Request(p)
    <2>1. PICK k \in HandlerType : k.pc \in {"countPlayers", "unregister"} /\ proc' = [proc EXCEPT ![p] = k]
        <3>1. CASE StartTournament(p)
            <4> DEFINE k == [Idle EXCEPT !.pc = "countPlayers"]
            <4>1. k \in HandlerType /\ k.pc = "countPlayers" /\ proc' = [proc EXCEPT ![p] = k]
                BY <3>1 DEF StartTournament, Begin, Idle, HandlerType, Labels
            <4> QED BY <4>1
        <3>2. CASE \E u \in Users : UnregisterPlayer(p, u)
            <4>1. PICK u \in Users : UnregisterPlayer(p, u)
                BY <3>2
            <4> DEFINE k == [Idle EXCEPT !.pc = "unregister", !.user = u]
            <4>2. k \in HandlerType /\ k.pc = "unregister" /\ proc' = [proc EXCEPT ![p] = k]
                BY <4>1 DEF UnregisterPlayer, Begin, Idle, HandlerType, Labels
            <4> QED BY <4>2
        <3> QED BY <1>5, <3>1, <3>2 DEF Request
    <2>2. SameJob(proc[p], k) /\ Found(k, bracket, endJobs)
        BY <2>1 DEF SameJob, Found, GenLabels, ProgLabels
    <2> QED BY <1>1, <1>4, <2>1, <2>2, Moves
<1>6. CASE ~Request(p)
    <2>1. \/ Return(p)
          \/ \E label \in {"setInProgress", "enqueue", "rollback"} : Goto(p, label)
        BY <1>6 DEF DeleteRegistration, CountPlayers, SetInProgress, EnqueueGenerateBracket,
           EnqueueFails, RollBack
    <2>2. ASSUME NEW label \in {"setInProgress", "enqueue", "rollback"}, Goto(p, label) PROVE PlayInv'
        <3>1. /\ label \in Labels \ {"complete", "advance", "fill", "notify"}
              /\ label \notin GenLabels /\ label \notin ProgLabels
            BY DEF Labels, GenLabels, ProgLabels
        <3> QED BY <1>1, <1>4, <2>2, <3>1, GoesOn
    <2> QED BY <1>1, <1>4, <2>1, <2>2, Returns
<1> QED BY <1>5, <1>6

\* The tables of the tournament change only with registrations and its end.
LEMMA RowsKept ==
    ASSUME RowsOK, UNCHANGED <<status, winnerId, regs>>, faults' \in {faults, faults + 1},
           lock' \in Slots \cup {NoSlot}, notified' = notified
    PROVE  RowsOK'
<1>1. faults' \in Nat
    BY DEF RowsOK
<1> QED BY <1>1 DEF RowsOK

\* The generate-bracket job, up to its lock and after its transaction.
LEMMA GenerateKeepsPlay ==
    ASSUME PlayInv, NEW p \in Slots,
           \/ (\E j \in DOMAIN genJobs : GenerateBracket(p, j)) \/ LoadTournament(p) \/ CountMatches(p)
           \/ AcquireLock(p) \/ RecountMatches(p) \/ MailStarted(p) \/ ReleaseLock(p)
    PROVE  PlayInv'
<1>1. UNCHANGED <<status, winnerId, regs, bracket, faults, notified>>
    BY DEF GenerateBracket, LoadTournament, CountMatches, AcquireLock, RecountMatches, MailStarted,
       ReleaseLock, rows, counters
<1>2. RowsOK /\ lock \in Slots \cup {NoSlot}
    BY DEF PlayInv, RowsOK
<1>3. lock' \in Slots \cup {NoSlot}
    <2>1. lock' \in {lock, p, NoSlot}
        BY DEF GenerateBracket, LoadTournament, CountMatches, AcquireLock, RecountMatches, MailStarted,
           ReleaseLock
    <2> QED BY <1>2, <2>1
<1>4. RowsOK'
    BY <1>1, <1>2, <1>3, RowsKept
<1>5. proc \in [Slots -> HandlerType]
    BY DEF PlayInv, JobsOK
<1>6. ASSUME NEW j \in DOMAIN genJobs, GenerateBracket(p, j) PROVE PlayInv'
    <2> DEFINE k == [Idle EXCEPT !.pc = "load", !.job = j]
    <2>1. JobsOK' /\ Assigned' /\ SameResults
        BY <1>6, JobTaken DEF PlayInv
    <2>2. proc' = [proc EXCEPT ![p] = k] /\ k.pc = "load"
        BY <1>6 DEF GenerateBracket, Begin, Idle
    <2> HIDE DEF k
    <2>3. Found(k, bracket, endJobs) /\ k.pc \notin {"complete", "advance", "fill"}
        BY <2>2 DEF Found
    <2>4. TreeOK' /\ Played' /\ StillFound'
        BY <1>1, <2>1, <2>2, <2>3, QuietTree
    <2> QED BY <1>4, <2>1, <2>4 DEF PlayInv
<1>7. CASE LoadTournament(p) /\ status = "in_progress"
    <2> DEFINE k == [proc[p] EXCEPT !.pc = "count", !.regs = regs]
    <2>1. /\ proc' = [proc EXCEPT ![p] = k] /\ UNCHANGED jobs /\ proc[p].pc = "load"
          /\ k \in HandlerType /\ k.pc = "count" /\ k.job = proc[p].job
        BY <1>2, <1>5, <1>7 DEF LoadTournament, At, HandlerType, Labels, RowsOK
    <2> HIDE DEF k
    <2>2. SameJob(proc[p], k) /\ Found(k, bracket, endJobs)
        BY <2>1 DEF SameJob, Found, GenLabels, ProgLabels
    <2> QED BY <1>1, <1>4, <2>1, <2>2, Moves DEF jobs
<1>8. CASE /\ LoadTournament(p) \/ CountMatches(p) \/ AcquireLock(p) \/ RecountMatches(p)
              \/ MailStarted(p) \/ ReleaseLock(p)
           /\ ~(LoadTournament(p) /\ status = "in_progress")
    <2>1. proc[p].pc \in GenLabels
        BY <1>8 DEF LoadTournament, CountMatches, AcquireLock, RecountMatches, MailStarted, ReleaseLock,
           At, GenLabels
    <2>2. \/ Complete(p) \/ Throw(p) \/ Fail(p)
          \/ \E label \in {"lock", "recount", "create", "release"} : Goto(p, label) /\ UNCHANGED jobs
        BY <1>8 DEF LoadTournament, CountMatches, AcquireLock, RecountMatches, MailStarted, ReleaseLock
    <2>3. ASSUME NEW label \in {"lock", "recount", "create", "release"}, Goto(p, label), UNCHANGED jobs
          PROVE  PlayInv'
        <3>1. label \in Labels \ {"complete", "advance", "fill", "notify"} /\ label \notin ProgLabels
            BY DEF Labels, ProgLabels
        <3> QED BY <1>1, <1>4, <2>1, <2>3, <3>1, GoesOn DEF jobs
    <2> QED BY <1>1, <1>4, <2>1, <2>2, <2>3, Ends DEF Ending
<1> QED BY <1>6, <1>7, <1>8

\* The transaction that creates the bracket, when there is none.
LEMMA CreateKeepsPlay ==
    ASSUME BracketInv, PlayInv, NEW p \in Slots, CreateMatches(p)
    PROVE  PlayInv'
<1>1. proc[p].pc = "create" /\ bracket = NoBracket
    BY DEF CreateMatches, At, BracketInv, NoneYet
<1>2. RowsOK /\ proc \in [Slots -> HandlerType] /\ lock \in Slots \cup {NoSlot}
    BY DEF PlayInv, JobsOK, RowsOK
<1>3. RowsOK'
    <2>1. lock' \in {lock, NoSlot} /\ UNCHANGED <<status, winnerId, regs, notified, faults>>
        BY DEF CreateMatches, counters
    <2> QED BY <1>2, <2>1, RowsKept
<1>4. CASE proc[p].regs \subseteq regs
    <2>1. PICK seeds \in Seedings(proc[p].regs, Rating) : bracket' = buildBracketStructure(seeds)
        BY <1>4 DEF CreateMatches
    <2>2. Goto(p, "mail") /\ UNCHANGED jobs
        BY <1>4 DEF CreateMatches
    <2>3. PICK k \in HandlerType : proc' = [proc EXCEPT ![p] = k] /\ k.pc = "mail" /\ k.job = proc[p].job
        BY <2>2, Relabels DEF Labels
    <2>4. SameJob(proc[p], k)
        BY <1>1, <2>3 DEF SameJob, GenLabels, ProgLabels
    <2>5. JobsOK' /\ Assigned'
        BY <2>2, <2>3, <2>4, JobsKept DEF PlayInv, jobs
    <2>6. Tree(bracket') /\ \A m \in Matches : ~bracket'[m].linked
        <3>1. proc[p].regs \in SUBSET Users
            BY <1>2 DEF HandlerType
        <3> QED BY <2>1, <3>1, BuiltIsTree
    <2>7. DOMAIN endJobs = {} /\ endJobs' = endJobs
        BY <1>1, <2>2 DEF PlayInv, Played, NoBracket, jobs
    <2>8. DOMAIN bracket' = Matches
        BY <2>6 DEF Tree
    <2>9. TreeOK' /\ Played'
        BY <2>6, <2>7, <2>8 DEF TreeOK, Played
    <2>10. \A q \in Slots : proc'[q].pc \notin ProgLabels
        <3>1. \A q \in Slots : proc[q].pc \notin ProgLabels
            BY <2>7 DEF PlayInv, Assigned
        <3>2. "mail" \notin ProgLabels
            BY DEF ProgLabels
        <3> QED BY <1>2, <2>3, <3>1, <3>2
    <2>11. StillFound'
        BY <2>10 DEF StillFound, Found, ProgLabels
    <2> QED BY <1>3, <2>5, <2>9, <2>11 DEF PlayInv
<1>5. CASE ~(proc[p].regs \subseteq regs)
    <2>1. Throw(p) /\ bracket' = bracket /\ proc[p].pc \in GenLabels
        BY <1>1, <1>5 DEF CreateMatches, GenLabels
    <2> QED BY <1>3, <2>1, Ends DEF Ending
<1> QED BY <1>4, <1>5

\* A handler of a match-ended job works on a match with two players.
LEMMA ProgressFacts ==
    ASSUME PlayInv, NEW p \in Slots, proc[p].pc \in ProgLabels
    PROVE  /\ proc[p].m \in DOMAIN endJobs /\ proc[p].m \in Matches /\ endJobs[proc[p].m] \in EndJob
           /\ Tree(bracket) /\ Full(bracket[proc[p].m]) /\ bracket \in [Matches -> MatchRow]
           /\ proc \in [Slots -> HandlerType]
           /\ \A q \in Slots \ {p} : proc[q].pc \in ProgLabels => proc[q].m # proc[p].m
<1>1. proc[p].m \in DOMAIN endJobs
    BY DEF PlayInv, Assigned
<1>2. proc[p].m \in Matches /\ endJobs[proc[p].m] \in EndJob /\ proc \in [Slots -> HandlerType]
    BY <1>1 DEF PlayInv, JobsOK
<1>3. proc[p].m \in DOMAIN bracket /\ Full(bracket[proc[p].m])
    BY <1>1 DEF PlayInv, Played
<1>4. Tree(bracket)
    BY <1>3 DEF PlayInv, TreeOK, NoBracket
<1>5. \A q \in Slots \ {p} : proc[q].pc \in ProgLabels => proc[q].m # proc[p].m
    BY DEF PlayInv, Assigned
<1> QED BY <1>1, <1>2, <1>3, <1>4, <1>5 DEF Tree

\* The job is taken, links the match, and looks at it.
LEMMA FindKeepsPlay ==
    ASSUME PlayInv, NEW p \in Slots,
           (\E m \in DOMAIN endJobs : MatchEnded(p, m)) \/ PersistMatchEnded(p) \/ FindTournamentMatch(p)
    PROVE  PlayInv'
<1>1. UNCHANGED <<status, winnerId, regs, faults, lock, notified>>
    BY DEF MatchEnded, PersistMatchEnded, FindTournamentMatch, rows, counters
<1>2. RowsOK'
    BY <1>1 DEF PlayInv, RowsOK
<1>3. ASSUME NEW m \in DOMAIN endJobs, MatchEnded(p, m) PROVE PlayInv'
    <2> DEFINE k == [Idle EXCEPT !.pc = "persist", !.m = m]
    <2>1. JobsOK' /\ Assigned' /\ SameResults
        BY <1>3, EndJobTaken DEF PlayInv
    <2>2. proc' = [proc EXCEPT ![p] = k] /\ k.pc = "persist" /\ bracket' = bracket
        BY <1>3 DEF MatchEnded, Begin, Idle, rows
    <2> HIDE DEF k
    <2>3. Found(k, bracket, endJobs) /\ k.pc \notin {"complete", "advance", "fill"}
        BY <2>2 DEF Found
    <2>4. TreeOK' /\ Played' /\ StillFound'
        BY <2>1, <2>2, <2>3, QuietTree
    <2> QED BY <1>2, <2>1, <2>4 DEF PlayInv
<1>4. CASE PersistMatchEnded(p)
    <2> DEFINE m == proc[p].m
    <2>1. /\ proc[p].pc = "persist" /\ Goto(p, "find") /\ UNCHANGED jobs
          /\ bracket' = [bracket EXCEPT ![m].linked = TRUE]
        BY <1>4 DEF PersistMatchEnded, At
    <2>2. proc[p].pc \in ProgLabels
        BY <2>1 DEF ProgLabels
    <2>3. PICK k \in HandlerType : proc' = [proc EXCEPT ![p] = k] /\ k.pc = "find" /\ k.m = m
        BY <2>1, Relabels DEF Labels
    <2>4. SameJob(proc[p], k)
        BY <2>2, <2>3 DEF SameJob, GenLabels
    <2>5. JobsOK' /\ Assigned' /\ SameResults
        BY <2>1, <2>3, <2>4, JobsKept DEF PlayInv, jobs
    <2>6. /\ m \in DOMAIN endJobs /\ m \in Matches /\ Tree(bracket)
          /\ \A q \in Slots \ {p} : proc[q].pc \in ProgLabels => proc[q].m # m
        BY <2>2, ProgressFacts
    <2>7. /\ bracket' \in [Matches -> MatchRow]
          /\ \A n \in Matches :
                /\ bracket'[n].slot = bracket[n].slot /\ bracket'[n].winnerSlot = bracket[n].winnerSlot
                /\ bracket'[n].next = bracket[n].next
                /\ n # m => bracket'[n].linked = bracket[n].linked
        BY <2>1, <2>6 DEF Tree, MatchRow
    <2>8. Tree(bracket') /\ Grows(bracket, bracket', m)
        BY <2>6, <2>7, LinkKeepsTree
    <2>9. k.pc \notin {"complete", "advance", "fill", "notify"}
        BY <2>3
    <2>10. TreeOK' /\ Played' /\ StillFound'
        BY <2>3, <2>5, <2>6, <2>7, <2>8, <2>9, GrowingTree
    <2> QED BY <1>2, <2>5, <2>10 DEF PlayInv
<1>5. CASE FindTournamentMatch(p)
    <2> DEFINE m == proc[p].m
    <2>1. proc[p].pc \in ProgLabels /\ bracket' = bracket
        BY <1>5 DEF FindTournamentMatch, At, ProgLabels, rows
    <2>2. CASE Complete(p)
        BY <1>2, <2>1, <2>2, Ends DEF Ending
    <2>3. CASE ~Complete(p)
        <3>1. /\ endJobs[m].winner # NoOne /\ Undecided(bracket[m]) /\ WinnerSide(p) # {}
              /\ Goto(p, IF bracket[m].next THEN "advance" ELSE "complete") /\ UNCHANGED jobs
            BY <1>5, <2>3 DEF FindTournamentMatch
        <3> DEFINE label == IF bracket[m].next THEN "advance" ELSE "complete"
        <3>2. label \in Labels /\ label \in ProgLabels /\ label \notin GenLabels
            BY DEF Labels, ProgLabels, GenLabels
        <3>3. PICK k \in HandlerType : proc' = [proc EXCEPT ![p] = k] /\ k.pc = label /\ k.m = m
            BY <3>1, <3>2, Relabels
        <3>4. SameJob(proc[p], k)
            BY <2>1, <3>2, <3>3 DEF SameJob
        <3>5. \E side \in Sides : bracket[m].slot[side] = endJobs[m].winner
            BY <3>1 DEF WinnerSide
        <3>6. Found(k, bracket, endJobs)
            BY <3>1, <3>3, <3>5 DEF Found
        <3> HIDE DEF label
        <3> QED BY <1>2, <2>1, <3>1, <3>3, <3>4, <3>6, Moves DEF jobs
    <2> QED BY <2>2, <2>3
<1> QED BY <1>3, <1>4, <1>5

\* What the handler may rely on when it decides the match.
LEMMA DecisionFacts ==
    ASSUME PlayInv, NEW p \in Slots, proc[p].pc \in {"complete", "advance", "fill"}
    PROVE  /\ proc[p].pc \in ProgLabels /\ Undecided(bracket[proc[p].m])
           /\ endJobs[proc[p].m].winner \in Users \cup {NoOne} /\ endJobs[proc[p].m].winner # NoOne
           /\ WinnerSide(p) # {} /\ WinnerSide(p) \subseteq Sides
           /\ \A side \in WinnerSide(p) : bracket[proc[p].m].slot[side] = endJobs[proc[p].m].winner
<1>1. proc[p].pc \in ProgLabels
    BY DEF ProgLabels
<1>2. Found(proc[p], bracket, endJobs)
    BY DEF PlayInv, StillFound
<1>3. endJobs[proc[p].m] \in EndJob
    BY <1>1, ProgressFacts
<1> QED BY <1>1, <1>2, <1>3 DEF Found, WinnerSide, EndJob

\* The final is decided.
LEMMA CompleteKeepsPlay ==
    ASSUME PlayInv, NEW p \in Slots, CompleteTournament(p)
    PROVE  PlayInv'
<1> DEFINE m == proc[p].m
<1>1. /\ proc[p].pc = "complete" /\ Goto(p, "crown") /\ UNCHANGED jobs
      /\ winnerId' = endJobs[m].winner /\ status' = "completed"
      /\ UNCHANGED <<regs, lock, notified, faults>>
    BY DEF CompleteTournament, At, counters
<1>2. PICK w \in WinnerSide(p) : bracket' = [bracket EXCEPT ![m].winnerSlot = w]
    BY DEF CompleteTournament
<1>3. /\ proc[p].pc \in ProgLabels /\ Undecided(bracket[m]) /\ w \in Sides
      /\ endJobs[m].winner \in Users \cup {NoOne} /\ bracket[m].slot[w] # NoOne
    BY <1>1, <1>2, DecisionFacts
<1>4. /\ m \in Matches /\ Tree(bracket) /\ bracket \in [Matches -> MatchRow]
      /\ \A q \in Slots \ {p} : proc[q].pc \in ProgLabels => proc[q].m # m
    BY <1>3, ProgressFacts
<1>5. RowsOK'
    BY <1>1, <1>3 DEF PlayInv, RowsOK
<1>6. PICK k \in HandlerType : proc' = [proc EXCEPT ![p] = k] /\ k.pc = "crown" /\ k.m = m
    BY <1>1, Relabels DEF Labels
<1>7. SameJob(proc[p], k)
    BY <1>3, <1>6 DEF SameJob, GenLabels
<1>8. JobsOK' /\ Assigned' /\ SameResults
    BY <1>1, <1>6, <1>7, JobsKept DEF PlayInv, jobs
<1>9. /\ bracket' \in [Matches -> MatchRow] /\ bracket'[m].winnerSlot = w
      /\ \A n \in Matches :
            /\ bracket'[n].slot = bracket[n].slot /\ bracket'[n].next = bracket[n].next
            /\ bracket'[n].linked = bracket[n].linked
            /\ n # m => bracket'[n].winnerSlot = bracket[n].winnerSlot
    BY <1>2, <1>3, <1>4 DEF MatchRow
<1>10. Tree(bracket') /\ Grows(bracket, bracket', m)
    BY <1>3, <1>4, <1>9, DecideKeepsTree
<1>11. k.pc \notin {"complete", "advance", "fill", "notify"}
    BY <1>6
<1>12. TreeOK' /\ Played' /\ StillFound'
    BY <1>4, <1>6, <1>8, <1>9, <1>10, <1>11, GrowingTree
<1> QED BY <1>5, <1>8, <1>12 DEF PlayInv

\* The parent is read while the slot the winner goes to is empty.
LEMMA ReadKeepsPlay ==
    ASSUME PlayInv, NEW p \in Slots, ReadParent(p)
    PROVE  PlayInv'
<1> DEFINE m == proc[p].m
           k == [proc[p] EXCEPT !.pc = "fill", !.parent = bracket[Parent(m)]]
<1>1. /\ proc[p].pc = "advance" /\ proc' = [proc EXCEPT ![p].pc = "fill", ![p].parent = bracket[Parent(m)]]
      /\ UNCHANGED <<status, winnerId, regs, bracket, lock, notified, faults, genJobs, endJobs>>
    BY DEF ReadParent, At, rows, jobs, counters
<1>2. RowsOK'
    BY <1>1 DEF PlayInv, RowsOK
<1>3. Undecided(bracket[m]) /\ proc[p].pc \in ProgLabels
    BY <1>1, DecisionFacts
<1>4. m \in Matches /\ Tree(bracket) /\ bracket \in [Matches -> MatchRow] /\ proc \in [Slots -> HandlerType]
    BY <1>3, ProgressFacts
<1>5. Found(proc[p], bracket, endJobs) /\ bracket[m].next
    BY <1>1 DEF PlayInv, StillFound, Found
<1>6. Parent(m) \in Matches /\ bracket[Parent(m)].slot[FedSide(m)] = NoOne
    BY <1>3, <1>4, <1>5, OpenFeedsNobody
<1>7. bracket[Parent(m)] \in MatchRow
    BY <1>4, <1>6
<1>8. /\ proc' = [proc EXCEPT ![p] = k] /\ k \in HandlerType /\ k.pc = "fill" /\ k.m = m
      /\ k.parent = bracket[Parent(m)]
    BY <1>1, <1>4, <1>7 DEF HandlerType, Labels
<1> HIDE DEF k
<1>9. SameJob(proc[p], k)
    BY <1>3, <1>8 DEF SameJob, GenLabels
<1>10. Found(k, bracket, endJobs)
    BY <1>1, <1>5, <1>6, <1>7, <1>8 DEF Found
<1> QED BY <1>1, <1>2, <1>8, <1>9, <1>10, Moves

\* The transaction decides the match and fills at most the slot it feeds.  When this gives
\* the parent its second player, the mails follow.
LEMMA FillEffect ==
    ASSUME PlayInv, NEW p \in Slots, FillParent(p)
    PROVE  LET m == proc[p].m IN
           /\ proc[p].pc = "fill" /\ m \in Matches /\ Undecided(bracket[m]) /\ bracket[m].next
           /\ bracket' \in [Matches -> MatchRow]
           /\ \A n \in Matches :
                 /\ bracket'[n].next = bracket[n].next /\ bracket'[n].linked = bracket[n].linked
                 /\ n # m => bracket'[n].winnerSlot = bracket[n].winnerSlot
           /\ \E w \in Sides :
                 /\ bracket[m].slot[w] # NoOne /\ bracket'[m].winnerSlot = w
                 /\ \A n \in Matches, s \in Sides :
                       \/ bracket'[n].slot[s] = bracket[n].slot[s]
                       \/ /\ n = Parent(m) /\ s = FedSide(m) /\ bracket'[n].slot[s] = bracket[m].slot[w]
                          /\ Playable(bracket'[n]) /\ ~bracket'[n].linked => Goto(p, "notify")
           /\ Complete(p) \/ (Goto(p, "notify") /\ UNCHANGED jobs)
<1> DEFINE m == proc[p].m
           player == endJobs[m].winner
           target == feederTarget(m, proc[p].parent, player)
           w == CHOOSE side \in WinnerSide(p) : TRUE
           b == [bracket EXCEPT ![m].winnerSlot = w]
<1>1. proc[p].pc = "fill"
    BY DEF FillParent, At
<1>2. /\ proc[p].pc \in ProgLabels /\ Undecided(bracket[m]) /\ player \in Users \cup {NoOne}
      /\ player # NoOne /\ WinnerSide(p) # {} /\ WinnerSide(p) \subseteq Sides
      /\ \A side \in WinnerSide(p) : bracket[m].slot[side] = player
    BY <1>1, DecisionFacts
<1>3. m \in Matches /\ Tree(bracket) /\ bracket \in [Matches -> MatchRow]
    BY <1>2, ProgressFacts
<1>4. bracket[m].next /\ proc[p].parent \in MatchRow /\ proc[p].parent.slot[FedSide(m)] = NoOne
    BY <1>1 DEF PlayInv, StillFound, Found
<1>5. w \in Sides /\ bracket[m].slot[w] = player
    BY <1>2
<1>6. Parent(m) \in Matches /\ Parent(m) # m /\ FedSide(m) \in Sides
    BY <1>2, <1>3, <1>4, OpenFeedsNobody
<1>7. target \subseteq {FedSide(m)}
    BY <1>4 DEF feederTarget
<1>8. \/ bracket' = b /\ Complete(p)
      \/ \E side \in target :
            /\ bracket' = [b EXCEPT ![Parent(m)].slot[side] = player]
            /\ IF BecomesReady(proc[p].parent, bracket'[Parent(m)], side)
               THEN Goto(p, "notify") /\ UNCHANGED jobs
               ELSE Complete(p)
    BY DEF FillParent
<1> HIDE DEF w
<1>9. /\ b \in [Matches -> MatchRow] /\ b[m].winnerSlot = w
      /\ \A n \in Matches :
            /\ b[n].slot = bracket[n].slot /\ b[n].next = bracket[n].next /\ b[n].linked = bracket[n].linked
            /\ n # m => b[n].winnerSlot = bracket[n].winnerSlot
    BY <1>3, <1>5 DEF MatchRow
<1> HIDE DEF m, player, target, b
<1>10. CASE bracket' = b /\ Complete(p)
    BY <1>1, <1>2, <1>3, <1>4, <1>5, <1>9, <1>10 DEF m
<1>11. ASSUME NEW side \in target, bracket' = [b EXCEPT ![Parent(m)].slot[side] = player],
              IF BecomesReady(proc[p].parent, bracket'[Parent(m)], side)
              THEN Goto(p, "notify") /\ UNCHANGED jobs
              ELSE Complete(p)
       PROVE  /\ bracket' \in [Matches -> MatchRow] /\ bracket'[m].winnerSlot = w
              /\ \A n \in Matches :
                    /\ bracket'[n].next = bracket[n].next /\ bracket'[n].linked = bracket[n].linked
                    /\ n # m => bracket'[n].winnerSlot = bracket[n].winnerSlot
              /\ \A n \in Matches, s \in Sides :
                    \/ bracket'[n].slot[s] = bracket[n].slot[s]
                    \/ /\ n = Parent(m) /\ s = FedSide(m) /\ bracket'[n].slot[s] = bracket[m].slot[w]
                       /\ Playable(bracket'[n]) /\ ~bracket'[n].linked => Goto(p, "notify")
              /\ Complete(p) \/ (Goto(p, "notify") /\ UNCHANGED jobs)
    <2>1. side = FedSide(m) /\ side \in Sides
        BY <1>6, <1>7, <1>11
    <2> DEFINE old == b[Parent(m)]
               new == [old EXCEPT !.slot[side] = player]
    <2>2. bracket' = [b EXCEPT ![Parent(m)] = new]
        BY <1>11
    <2>3. old \in MatchRow
        BY <1>6, <1>9
    <2>4. /\ new \in MatchRow /\ new.next = old.next /\ new.linked = old.linked
          /\ new.winnerSlot = old.winnerSlot
          /\ \A s \in Sides : new.slot[s] = IF s = side THEN player ELSE old.slot[s]
        <3> HIDE DEF old
        <3> QED BY <1>2, <2>1, <2>3 DEF MatchRow
    <2> HIDE DEF new
    <2>5. bracket' \in [Matches -> MatchRow]
        BY <1>9, <2>2, <2>4
    <2>6. \A n \in Matches : bracket'[n] = IF n = Parent(m) THEN new ELSE b[n]
        BY <1>9, <2>2
    <2>7. \A n \in Matches :
              /\ bracket'[n].next = bracket[n].next /\ bracket'[n].linked = bracket[n].linked
              /\ n # m => bracket'[n].winnerSlot = bracket[n].winnerSlot
        BY <1>6, <1>9, <2>4, <2>6
    <2>8. bracket'[m].winnerSlot = w
        BY <1>3, <1>6, <1>9, <2>6
    <2>9. Playable(bracket'[Parent(m)]) /\ ~bracket'[Parent(m)].linked => Goto(p, "notify")
        BY <1>11 DEF BecomesReady
    <2>10. \A n \in Matches, s \in Sides :
              \/ bracket'[n].slot[s] = bracket[n].slot[s]
              \/ /\ n = Parent(m) /\ s = FedSide(m) /\ bracket'[n].slot[s] = bracket[m].slot[w]
                 /\ Playable(bracket'[n]) /\ ~bracket'[n].linked => Goto(p, "notify")
        BY <1>5, <1>6, <1>9, <2>1, <2>4, <2>6, <2>9
    <2>11. Complete(p) \/ (Goto(p, "notify") /\ UNCHANGED jobs)
        BY <1>11
    <2> QED BY <2>5, <2>7, <2>8, <2>10, <2>11
<1>12. CASE \E side \in target :
            /\ bracket' = [b EXCEPT ![Parent(m)].slot[side] = player]
            /\ IF BecomesReady(proc[p].parent, bracket'[Parent(m)], side)
               THEN Goto(p, "notify") /\ UNCHANGED jobs
               ELSE Complete(p)
    <2>1. /\ bracket' \in [Matches -> MatchRow] /\ bracket'[m].winnerSlot = w
          /\ \A n \in Matches :
                /\ bracket'[n].next = bracket[n].next /\ bracket'[n].linked = bracket[n].linked
                /\ n # m => bracket'[n].winnerSlot = bracket[n].winnerSlot
          /\ \A n \in Matches, s \in Sides :
                \/ bracket'[n].slot[s] = bracket[n].slot[s]
                \/ /\ n = Parent(m) /\ s = FedSide(m) /\ bracket'[n].slot[s] = bracket[m].slot[w]
                   /\ Playable(bracket'[n]) /\ ~bracket'[n].linked => Goto(p, "notify")
          /\ Complete(p) \/ (Goto(p, "notify") /\ UNCHANGED jobs)
        BY <1>11, <1>12
    <2> QED BY <1>1, <1>2, <1>3, <1>4, <1>5, <2>1 DEF m
<1> QED BY <1>8, <1>10, <1>12

LEMMA FillKeepsPlay ==
    ASSUME PlayInv, NEW p \in Slots, FillParent(p)
    PROVE  PlayInv'
<1> DEFINE m == proc[p].m
<1>1. /\ proc[p].pc = "fill" /\ m \in Matches /\ Undecided(bracket[m]) /\ bracket[m].next
      /\ bracket' \in [Matches -> MatchRow]
      /\ \A n \in Matches :
            /\ bracket'[n].next = bracket[n].next /\ bracket'[n].linked = bracket[n].linked
            /\ n # m => bracket'[n].winnerSlot = bracket[n].winnerSlot
    BY FillEffect
<1>2. PICK w \in Sides :
          /\ bracket[m].slot[w] # NoOne /\ bracket'[m].winnerSlot = w
          /\ \A n \in Matches, s \in Sides :
                \/ bracket'[n].slot[s] = bracket[n].slot[s]
                \/ n = Parent(m) /\ s = FedSide(m) /\ bracket'[n].slot[s] = bracket[m].slot[w]
    BY FillEffect
<1>3. Complete(p) \/ (Goto(p, "notify") /\ UNCHANGED jobs)
    BY FillEffect
<1>4. proc[p].pc \in ProgLabels
    BY <1>1 DEF ProgLabels
<1>5. Tree(bracket) /\ \A q \in Slots \ {p} : proc[q].pc \in ProgLabels => proc[q].m # m
    BY <1>4, ProgressFacts
<1>6. Tree(bracket') /\ Grows(bracket, bracket', m)
    BY <1>1, <1>2, <1>5, DecideKeepsTree
<1>7. RowsOK'
    <2>1. UNCHANGED <<status, winnerId, regs, lock, notified, faults>>
        BY DEF FillParent, counters
    <2> QED BY <2>1 DEF PlayInv, RowsOK
<1>8. CASE Complete(p)
    <2>1. JobsOK' /\ Assigned' /\ SameResults /\ proc' = [proc EXCEPT ![p] = Idle]
        BY <1>4, <1>8, JobSettled DEF PlayInv, Ending
    <2>2. Idle.pc \notin {"complete", "advance", "fill", "notify"}
        BY IdleOK
    <2>3. TreeOK' /\ Played' /\ StillFound'
        BY <1>1, <1>5, <1>6, <2>1, <2>2, GrowingTree
    <2> QED BY <1>7, <2>1, <2>3 DEF PlayInv
<1>9. CASE Goto(p, "notify") /\ UNCHANGED jobs
    <2>1. PICK k \in HandlerType : proc' = [proc EXCEPT ![p] = k] /\ k.pc = "notify" /\ k.m = m
        BY <1>9, Relabels DEF Labels
    <2>2. SameJob(proc[p], k)
        BY <1>4, <2>1 DEF SameJob, GenLabels
    <2>3. JobsOK' /\ Assigned' /\ SameResults
        BY <1>9, <2>1, <2>2, JobsKept DEF PlayInv, jobs
    <2>4. k.pc \notin {"complete", "advance", "fill"} /\ bracket[k.m].next /\ k.m \in Matches
        BY <1>1, <2>1
    <2>5. TreeOK' /\ Played' /\ StillFound'
        BY <1>1, <1>5, <1>6, <2>1, <2>3, <2>4, GrowingTree
    <2> QED BY <1>7, <2>3, <2>5 DEF PlayInv
<1> QED BY <1>3, <1>8, <1>9

\* The mails at the end of the job.
LEMMA MailsKeepPlay ==
    ASSUME PlayInv, NEW p \in Slots, CrownWinner(p) \/ NotifyReadyMatch(p)
    PROVE  PlayInv'
<1>1. /\ proc[p].pc \in {"crown", "notify"} /\ Complete(p)
      /\ UNCHANGED <<status, winnerId, regs, bracket, lock, faults>>
      /\ notified' = notified \/ (proc[p].pc = "notify" /\ notified' = notified \cup {Parent(proc[p].m)})
    BY DEF CrownWinner, NotifyReadyMatch, At, rows, counters
<1>2. proc[p].pc \in ProgLabels
    BY <1>1 DEF ProgLabels
<1>3. proc[p].m \in Matches /\ Tree(bracket)
    BY <1>2, ProgressFacts
<1>4. proc[p].pc = "notify" => Round(proc[p].m) < Rounds
    BY <1>3 DEF PlayInv, StillFound, Found, Tree
<1>5. proc[p].pc = "notify" => Parent(proc[p].m) \in Matches
    BY <1>3, <1>4, ParentIsMatch
<1>6. RowsOK'
    BY <1>1, <1>5 DEF PlayInv, RowsOK
<1> QED BY <1>1, <1>2, <1>6, Ends DEF Ending

\* A match is played.
LEMMA PlayMatchKeeps ==
    ASSUME PlayInv, NEW m \in Matches, PlayMatch(m)
    PROVE  PlayInv'
<1>1. /\ m \in DOMAIN bracket /\ m \notin DOMAIN endJobs /\ Playable(bracket[m])
      /\ UNCHANGED <<status, winnerId, regs, bracket, genJobs, lock, proc, notified, faults>>
    BY DEF PlayMatch, rows
<1>2. PICK winner \in Users \cup {NoOne} :
          endJobs' = [n \in DOMAIN endJobs \cup {m} |->
              IF n # m THEN endJobs[n] ELSE [state |-> "waiting", attempts |-> 0, winner |-> winner]]
    <2>1. PICK result \in Sides \cup {"none"} :
              endJobs' = [n \in DOMAIN endJobs \cup {m} |->
                IF n # m THEN endJobs[n]
                ELSE [state |-> "waiting", attempts |-> 0,
                      winner |-> IF result = "none" THEN NoOne ELSE bracket[m].slot[result]]]
        BY DEF PlayMatch
    <2>2. bracket[m] \in MatchRow
        BY <1>1 DEF PlayInv, TreeOK, Tree, NoBracket
    <2>3. (IF result = "none" THEN NoOne ELSE bracket[m].slot[result]) \in Users \cup {NoOne}
        BY <2>2 DEF MatchRow
    <2> QED BY <2>1, <2>3
<1>3. [state |-> "waiting", attempts |-> 0, winner |-> winner] \in EndJob
    BY DEF EndJob, JobStates, HasAttempt, ATTEMPTS
<1>4. /\ DOMAIN endJobs' = DOMAIN endJobs \cup {m} /\ endJobs' \in [DOMAIN endJobs' -> EndJob]
      /\ \A n \in DOMAIN endJobs : endJobs'[n] = endJobs[n]
    BY <1>1, <1>2, <1>3 DEF PlayInv, JobsOK
<1>5. RowsOK' /\ TreeOK'
    BY <1>1 DEF PlayInv, RowsOK, TreeOK
<1>6. JobsOK'
    BY <1>1, <1>4 DEF PlayInv, JobsOK
<1>7. Assigned'
    BY <1>1, <1>4 DEF PlayInv, Assigned
<1>8. Full(bracket[m])
    BY <1>1 DEF Playable, Filled, Full
<1>9. Played'
    BY <1>1, <1>4, <1>8 DEF PlayInv, Played
<1>10. ASSUME NEW q \in Slots PROVE Found(proc[q], bracket, endJobs')
    <2>1. Found(proc[q], bracket, endJobs)
        BY DEF PlayInv, StillFound
    <2>2. proc[q].pc \in {"complete", "advance", "fill"} => proc[q].m \in DOMAIN endJobs
        BY DEF PlayInv, Assigned, ProgLabels
    <2> QED BY <1>4, <2>1, <2>2 DEF Found
<1>11. StillFound'
    BY <1>1, <1>10 DEF StillFound
<1> QED BY <1>5, <1>6, <1>7, <1>9, <1>11 DEF PlayInv

\* Commands fail and processes die.
LEMMA FailuresKeepPlay ==
    ASSUME PlayInv, NEW p \in Slots, CommandFails(p) \/ Crash(p)
    PROVE  PlayInv'
<1>1. UNCHANGED <<status, winnerId, regs, bracket, notified>> /\ faults' = faults + 1 /\ lock' \in {lock, NoSlot}
    BY DEF CommandFails, Crash, rows
<1>2. RowsOK'
    BY <1>1, RowsKept DEF PlayInv, RowsOK
<1>3. CASE proc[p].pc \in GenLabels \cup ProgLabels
    <2>1. Generating(p) \/ Progressing(p)
        BY <1>3, LabelSets
    <2>2. Ending(p)
        BY <2>1 DEF CommandFails, Crash, Ending
    <2> QED BY <1>1, <1>2, <1>3, <2>2, Ends
<1>4. CASE proc[p].pc \notin GenLabels \cup ProgLabels
    <2>1. ~Generating(p) /\ ~Progressing(p)
        BY <1>4, LabelSets
    <2>2. Return(p) /\ UNCHANGED jobs
        BY <2>1 DEF CommandFails, Crash
    <2> QED BY <1>1, <1>2, <2>2, Returns DEF jobs
<1> QED BY <1>3, <1>4

LEMMA PlayInvariant == BracketInv /\ PlayInv /\ [Next]_vars => PlayInv'
<1> SUFFICES ASSUME BracketInv, PlayInv, [Next]_vars PROVE PlayInv'
    OBVIOUS
<1>1. CASE OpenRegistration \/ (\E u \in Users : RegisterPlayer(u)) \/ LockExpire \/ UNCHANGED vars
    <2>1. UNCHANGED <<winnerId, bracket, genJobs, endJobs, proc, notified, faults>>
        BY <1>1 DEF OpenRegistration, RegisterPlayer, LockExpire, vars, rows, jobs, counters
    <2>2. lock' \in {lock, NoSlot} /\ status' \in {status, "registration_open"}
        BY <1>1 DEF OpenRegistration, RegisterPlayer, LockExpire, vars, rows
    <2>3. regs' \subseteq Users /\ Cardinality(regs') <= BracketSize
        <3>1. \/ regs' = regs
              \/ \E u \in Users : Cardinality(regs) < BracketSize /\ regs' = regs \cup {u}
            BY <1>1 DEF OpenRegistration, RegisterPlayer, LockExpire, vars, rows
        <3> QED BY <3>1, RegistrationBounds DEF PlayInv, RowsOK
    <2>4. RowsOK'
        BY <2>1, <2>2, <2>3 DEF PlayInv, RowsOK
    <2>5. TreeOK' /\ JobsOK'
        BY <2>1 DEF PlayInv, TreeOK, JobsOK
    <2>6. Assigned'
        BY <2>1 DEF PlayInv, Assigned
    <2>7. Played' /\ StillFound'
        BY <2>1 DEF PlayInv, Played, StillFound
    <2> QED BY <2>4, <2>5, <2>6, <2>7 DEF PlayInv
<1>2. ASSUME NEW p \in Slots, Request(p) \/ TakeJob(p) \/ Step(p) PROVE PlayInv'
    BY <1>2, RequestsKeepPlay, GenerateKeepsPlay, CreateKeepsPlay, FindKeepsPlay, CompleteKeepsPlay,
       ReadKeepsPlay, FillKeepsPlay, MailsKeepPlay DEF TakeJob, Step
<1>3. ASSUME NEW p \in Slots, EnqueueFails(p) \/ CommandFails(p) \/ Crash(p) PROVE PlayInv'
    BY <1>3, RequestsKeepPlay, FailuresKeepPlay
<1>4. ASSUME NEW m \in Matches, PlayMatch(m) PROVE PlayInv'
    BY <1>4, PlayMatchKeeps
<1> QED BY <1>1, <1>2, <1>3, <1>4 DEF Next

LEMMA PlayInit == Init => PlayInv
<1> SUFFICES ASSUME Init PROVE PlayInv
    OBVIOUS
<1>1. proc = [p \in Slots |-> Idle] /\ bracket = NoBracket /\ genJobs = <<>> /\ endJobs = [m \in {} |-> NewJob]
    BY DEF Init
<1>2. RowsOK
    <2>1. Cardinality({}) = 0
        BY FS_EmptySet
    <2> QED BY <2>1, SizeOK DEF Init, RowsOK
<1>3. JobsOK
    BY <1>1, IdleOK DEF JobsOK
<1>4. \A p \in Slots : proc[p].pc = "idle"
    BY <1>1, IdleOK
<1>5. Assigned /\ StillFound
    BY <1>4 DEF Assigned, StillFound, Found, GenLabels, ProgLabels
<1>6. Played /\ TreeOK
    BY <1>1 DEF Played, TreeOK, NoBracket
<1> QED BY <1>2, <1>3, <1>5, <1>6 DEF PlayInv

-----------------------------------------------------------------------------
(* The announcement of a match that can be played. *)

Told(n) == n \in notified \/ \E p \in Slots : At(p, "notify") /\ Parent(proc[p].m) = n

\* The steps of one slot leave the others alone, and nobody's mail is taken back.
Beside(p) ==
    /\ \A q \in Slots : q # p => proc'[q] = proc[q]
    /\ DOMAIN endJobs' = DOMAIN endJobs /\ notified \subseteq notified'
    /\ proc[p].pc = "notify" => faults' # 0 \/ Parent(proc[p].m) \in notified'
    /\ faults' = 0 => faults = 0

LEMMA StepsBeside ==
    ASSUME PlayInv, NEW p \in Slots,
           \/ Request(p) \/ TakeJob(p) \/ Step(p)
           \/ EnqueueFails(p) \/ CommandFails(p) \/ Crash(p)
    PROVE  Beside(p)
<1>1. proc \in [Slots -> HandlerType] /\ faults \in Nat
    BY DEF PlayInv, JobsOK, RowsOK
<1>2. faults' = faults \/ (faults' = faults + 1 /\ faults' # 0)
    <2>1. CASE EnqueueFails(p) \/ CommandFails(p) \/ Crash(p)
        BY <1>1, <2>1 DEF EnqueueFails, CommandFails, Crash
    <2>2. CASE Request(p) \/ TakeJob(p)
        BY <2>2 DEF Request, StartTournament, UnregisterPlayer, TakeJob, GenerateBracket, MatchEnded, counters
    <2>3. CASE Step(p)
        <3>1. UNCHANGED counters
            BY <2>3, Zenon DEF Step, DeleteRegistration, CountPlayers, SetInProgress, EnqueueGenerateBracket,
               RollBack, LoadTournament, CountMatches, AcquireLock, RecountMatches, CreateMatches, MailStarted,
               ReleaseLock, PersistMatchEnded, FindTournamentMatch, CompleteTournament, CrownWinner,
               ReadParent, FillParent, NotifyReadyMatch
        <3> QED BY <3>1 DEF counters
    <2> QED BY <2>1, <2>2, <2>3
<1>3. ASSUME Ending(p) PROVE DOMAIN endJobs' = DOMAIN endJobs /\ Return(p)
    <2>1. Return(p) /\ \E job : Settle(p, job)
        BY <1>3 DEF Ending, Complete, Throw, Fail
    <2> QED BY <2>1 DEF Settle
<1>4. ASSUME Return(p) \/ \E label : Goto(p, label) PROVE \A q \in Slots : q # p => proc'[q] = proc[q]
    BY <1>1, <1>4 DEF Return, Goto
<1>5. CASE Request(p) \/ TakeJob(p)
    <2>1. \A q \in Slots : q # p => proc'[q] = proc[q]
        BY <1>1, <1>5 DEF Request, StartTournament, UnregisterPlayer, TakeJob, GenerateBracket, MatchEnded, Begin
    <2>2. DOMAIN endJobs' = DOMAIN endJobs
        BY <1>5 DEF Request, StartTournament, UnregisterPlayer, TakeJob, GenerateBracket, MatchEnded, jobs
    <2>3. notified' = notified /\ proc[p].pc = "idle"
        BY <1>5 DEF Request, StartTournament, UnregisterPlayer, TakeJob, GenerateBracket, MatchEnded, Begin, At
    <2> QED BY <1>2, <2>1, <2>2, <2>3 DEF Beside
<1>6. CASE \/ DeleteRegistration(p) \/ CountPlayers(p) \/ SetInProgress(p) \/ EnqueueGenerateBracket(p)
           \/ RollBack(p) \/ EnqueueFails(p)
    <2>1. Return(p) \/ \E label : Goto(p, label)
        BY <1>6 DEF DeleteRegistration, CountPlayers, SetInProgress, EnqueueGenerateBracket, RollBack, EnqueueFails
    <2>2. endJobs' = endJobs /\ notified' = notified /\ proc[p].pc # "notify"
        BY <1>6 DEF DeleteRegistration, CountPlayers, SetInProgress, EnqueueGenerateBracket, RollBack,
           EnqueueFails, jobs, At
    <2> QED BY <1>2, <1>4, <2>1, <2>2 DEF Beside
<1>7. CASE LoadTournament(p) /\ status = "in_progress"
    <2>1. \A q \in Slots : q # p => proc'[q] = proc[q]
        BY <1>1, <1>7 DEF LoadTournament
    <2>2. endJobs' = endJobs /\ notified' = notified /\ proc[p].pc # "notify"
        BY <1>7 DEF LoadTournament, jobs, At
    <2> QED BY <1>2, <2>1, <2>2 DEF Beside
<1>8. CASE \/ LoadTournament(p) /\ status # "in_progress"
           \/ CountMatches(p) \/ AcquireLock(p) \/ RecountMatches(p)
           \/ CreateMatches(p) \/ MailStarted(p) \/ ReleaseLock(p)
    <2>1. Ending(p) \/ (endJobs' = endJobs /\ \E label : Goto(p, label))
        BY <1>8 DEF LoadTournament, CountMatches, AcquireLock, RecountMatches, CreateMatches, MailStarted,
           ReleaseLock, Ending, jobs
    <2>2. notified' = notified /\ proc[p].pc # "notify"
        BY <1>8 DEF LoadTournament, CountMatches, AcquireLock, RecountMatches, CreateMatches, MailStarted,
           ReleaseLock, At
    <2> QED BY <1>2, <1>3, <1>4, <2>1, <2>2 DEF Beside
<1>9. CASE PersistMatchEnded(p) \/ FindTournamentMatch(p) \/ CompleteTournament(p) \/ CrownWinner(p) \/ FillParent(p)
    <2>1. Ending(p) \/ (endJobs' = endJobs /\ \E label : Goto(p, label))
        BY <1>9 DEF PersistMatchEnded, FindTournamentMatch, CompleteTournament, CrownWinner, FillParent, Ending, jobs
    <2>2. notified' = notified /\ proc[p].pc # "notify"
        BY <1>9 DEF PersistMatchEnded, FindTournamentMatch, CompleteTournament, CrownWinner, FillParent, At
    <2> QED BY <1>2, <1>3, <1>4, <2>1, <2>2 DEF Beside
<1>10. CASE ReadParent(p)
    <2>1. \A q \in Slots : q # p => proc'[q] = proc[q]
        BY <1>1, <1>10 DEF ReadParent
    <2>2. endJobs' = endJobs /\ notified' = notified /\ proc[p].pc # "notify"
        BY <1>10 DEF ReadParent, jobs, At
    <2> QED BY <1>2, <2>1, <2>2 DEF Beside
<1>11. CASE NotifyReadyMatch(p)
    <2>1. Ending(p) /\ notified' = notified \cup {Parent(proc[p].m)}
        BY <1>11 DEF NotifyReadyMatch, Ending
    <2> QED BY <1>2, <1>3, <1>4, <2>1 DEF Beside
<1>12. CASE CommandFails(p) \/ Crash(p)
    <2>1. faults' # 0 /\ notified' = notified /\ Return(p)
        BY <1>1, <1>12 DEF CommandFails, Crash, Throw
    <2>2. Ending(p) \/ endJobs' = endJobs
        BY <1>12 DEF CommandFails, Crash, Ending, jobs
    <2> QED BY <1>3, <1>4, <2>1, <2>2 DEF Beside
<1> QED BY <1>5, <1>6, <1>7, <1>8, <1>9, <1>10, <1>11, <1>12 DEF Step

\* As long as no match becomes playable without its mail, nothing is left out.
LEMMA AnnouncedKept ==
    ASSUME ReadyIsAnnounced, NEW p \in Slots, Beside(p), DOMAIN bracket' = DOMAIN bracket,
           faults' = 0 => \A n \in DOMAIN bracket : Playable(bracket'[n]) => Playable(bracket[n]) \/ Told(n)'
    PROVE  ReadyIsAnnounced'
<1> SUFFICES ASSUME faults' = 0, NEW n \in DOMAIN bracket, Playable(bracket'[n]), Round(n) > 1,
                    NEW side \in Sides, Feeder(n, side) \in DOMAIN endJobs
             PROVE  Told(n)'
    BY DEF ReadyIsAnnounced, Told, Beside
<1>1. CASE Told(n)'
    BY <1>1
<1>2. CASE Playable(bracket[n])
    <2>1. Told(n)
        BY <1>2 DEF ReadyIsAnnounced, Told, Beside
    <2>2. CASE n \in notified
        BY <2>2 DEF Told, Beside
    <2>3. ASSUME NEW q \in Slots, At(q, "notify"), Parent(proc[q].m) = n PROVE Told(n)'
        <3>1. CASE q = p
            BY <2>3, <3>1 DEF At, Told, Beside
        <3>2. CASE q # p
            BY <2>3, <3>2 DEF At, Told, Beside
        <3> QED BY <3>1, <3>2
    <2> QED BY <2>1, <2>2, <2>3 DEF Told
<1> QED BY <1>1, <1>2

\* The step that gives a match its second player goes on to its mails.
LEMMA FillAnnounces ==
    ASSUME PlayInv, NEW p \in Slots, FillParent(p), NEW n \in DOMAIN bracket, Playable(bracket'[n])
    PROVE  Playable(bracket[n]) \/ Told(n)'
<1> DEFINE m == proc[p].m
<1>1. /\ proc[p].pc = "fill" /\ m \in Matches /\ Undecided(bracket[m]) /\ bracket[m].next
      /\ \A x \in Matches : bracket'[x].linked = bracket[x].linked
      /\ \A x \in Matches : x # m => bracket'[x].winnerSlot = bracket[x].winnerSlot
    BY FillEffect
<1>2. PICK w \in Sides :
          /\ bracket'[m].winnerSlot = w
          /\ \A x \in Matches, s \in Sides :
                \/ bracket'[x].slot[s] = bracket[x].slot[s]
                \/ /\ x = Parent(m) /\ s = FedSide(m)
                   /\ Playable(bracket'[x]) /\ ~bracket'[x].linked => Goto(p, "notify")
    BY FillEffect
<1>3. Tree(bracket) /\ proc \in [Slots -> HandlerType]
    BY <1>1, ProgressFacts DEF ProgLabels
<1>4. n \in Matches /\ DOMAIN bracket = Matches
    BY <1>3 DEF Tree
<1>5. n # m
    BY <1>2 DEF Playable, Undecided, Sides
<1>6. Undecided(bracket[n])
    BY <1>1, <1>4, <1>5 DEF Playable, Undecided
<1>7. CASE \A s \in Sides : bracket'[n].slot[s] = bracket[n].slot[s]
    BY <1>6, <1>7 DEF Playable, Filled
<1>8. CASE ~Full(bracket[n]) /\ ~(\A s \in Sides : bracket'[n].slot[s] = bracket[n].slot[s])
    <2>1. ~bracket[n].linked
        BY <1>8 DEF PlayInv, Played
    <2>2. n = Parent(m) /\ Goto(p, "notify")
        BY <1>1, <1>2, <1>4, <1>8, <2>1
    <2>3. proc'[p].pc = "notify" /\ proc'[p].m = m
        BY <1>3, <2>2 DEF Goto, HandlerType
    <2> QED BY <2>2, <2>3 DEF Told, At
<1>9. CASE Full(bracket[n])
    BY <1>6, <1>9 DEF Full, Playable, Filled
<1> QED BY <1>7, <1>8, <1>9

LEMMA AnnouncedInvariant ==
    BracketInv /\ PlayInv /\ ReadyIsAnnounced /\ [Next]_vars => ReadyIsAnnounced'
<1> SUFFICES ASSUME BracketInv, PlayInv, ReadyIsAnnounced, [Next]_vars PROVE ReadyIsAnnounced'
    OBVIOUS
<1>1. CASE OpenRegistration \/ (\E u \in Users : RegisterPlayer(u)) \/ LockExpire \/ UNCHANGED vars
    <2>1. UNCHANGED <<bracket, endJobs, proc, notified, faults>>
        BY <1>1 DEF OpenRegistration, RegisterPlayer, LockExpire, vars, rows, jobs, counters
    <2> QED BY <2>1 DEF ReadyIsAnnounced, At
<1>2. ASSUME NEW f \in Matches, PlayMatch(f) PROVE ReadyIsAnnounced'
    <2>1. UNCHANGED <<bracket, proc, notified, faults>> /\ Undecided(bracket[f]) /\ f \in DOMAIN bracket
        BY <1>2 DEF PlayMatch, rows, Playable
    <2>2. DOMAIN endJobs' = DOMAIN endJobs \cup {f}
        BY <1>2 DEF PlayMatch
    <2>3. Tree(bracket) /\ DOMAIN bracket = Matches
        BY <2>1 DEF PlayInv, TreeOK, Tree, NoBracket
    <2>4. ASSUME NEW n \in DOMAIN bracket, Playable(bracket[n]), Round(n) > 1, NEW side \in Sides
          PROVE  Feeder(n, side) # f
        <3>1. bracket[n].slot[side] # NoOne
            BY <2>4 DEF Playable, Filled
        <3>2. Fed(bracket, n, side)
            BY <2>3, <2>4, <3>1 DEF Tree, Follows
        <3> QED BY <2>1, <3>2 DEF Fed
    <2> QED BY <2>1, <2>2, <2>4 DEF ReadyIsAnnounced, At
<1>3. ASSUME NEW p \in Slots,
             \/ Request(p) \/ TakeJob(p) \/ Step(p)
             \/ EnqueueFails(p) \/ CommandFails(p) \/ Crash(p)
      PROVE  ReadyIsAnnounced'
    <2>1. Beside(p)
        BY <1>3, StepsBeside
    <2>2. CASE bracket' = bracket
        BY <2>1, <2>2, AnnouncedKept
    <2>3. CASE CreateMatches(p)
        <3>1. bracket = NoBracket
            BY <2>3 DEF CreateMatches, At, BracketInv, NoneYet
        <3>2. DOMAIN endJobs = {}
            BY <3>1 DEF PlayInv, Played, NoBracket
        <3> QED BY <2>1, <3>2 DEF ReadyIsAnnounced, Beside
    <2>4. CASE PersistMatchEnded(p) \/ CompleteTournament(p)
        <3> DEFINE m == proc[p].m
        <3>1. proc[p].pc \in ProgLabels
            BY <2>4 DEF PersistMatchEnded, CompleteTournament, At, ProgLabels
        <3>2. m \in Matches /\ bracket \in [Matches -> MatchRow]
            BY <3>1, ProgressFacts
        <3>3. \/ bracket' = [bracket EXCEPT ![m].linked = TRUE]
              \/ \E w \in Sides : bracket' = [bracket EXCEPT ![m].winnerSlot = w]
            BY <2>4 DEF PersistMatchEnded, CompleteTournament, WinnerSide
        <3>4. DOMAIN bracket' = DOMAIN bracket
            BY <3>3
        <3>5. \A n \in Matches :
                  /\ bracket'[n].slot = bracket[n].slot
                  /\ bracket'[n].winnerSlot = bracket[n].winnerSlot \/ bracket'[n].winnerSlot \in Sides
            <4>1. CASE bracket' = [bracket EXCEPT ![m].linked = TRUE]
                BY <3>2, <4>1 DEF MatchRow
            <4>2. ASSUME NEW w \in Sides, bracket' = [bracket EXCEPT ![m].winnerSlot = w]
                  PROVE  \A n \in Matches : /\ bracket'[n].slot = bracket[n].slot
                                            /\ \/ bracket'[n].winnerSlot = bracket[n].winnerSlot
                                               \/ bracket'[n].winnerSlot \in Sides
                BY <3>2, <4>2 DEF MatchRow
            <4> QED BY <3>3, <4>1, <4>2
        <3>6. ASSUME NEW n \in Matches, Playable(bracket'[n]) PROVE Playable(bracket[n])
            <4>1. bracket'[n].winnerSlot \notin Sides
                BY <3>6 DEF Playable, Undecided, Sides
            <4> QED BY <3>5, <3>6, <4>1 DEF Playable, Undecided, Filled
        <3> QED BY <2>1, <3>2, <3>4, <3>6, AnnouncedKept
    <2>5. CASE FillParent(p)
        <3>1. DOMAIN bracket' = DOMAIN bracket
            <4>1. proc[p].pc \in ProgLabels
                BY <2>5 DEF FillParent, At, ProgLabels
            <4>2. DOMAIN bracket = Matches
                BY <4>1, ProgressFacts
            <4>3. DOMAIN bracket' = Matches
                BY <2>5, FillEffect
            <4> QED BY <4>2, <4>3
        <3> QED BY <2>1, <2>5, <3>1, FillAnnounces, AnnouncedKept
    <2>6. \/ bracket' = bracket \/ CreateMatches(p) \/ PersistMatchEnded(p) \/ CompleteTournament(p)
          \/ FillParent(p)
        <3>1. CASE Request(p) \/ TakeJob(p)
            BY <3>1 DEF Request, StartTournament, UnregisterPlayer, TakeJob, GenerateBracket, MatchEnded, rows
        <3>2. CASE EnqueueFails(p) \/ CommandFails(p) \/ Crash(p)
            BY <3>2 DEF EnqueueFails, CommandFails, Crash, rows
        <3>3. CASE \/ DeleteRegistration(p) \/ CountPlayers(p) \/ SetInProgress(p) \/ EnqueueGenerateBracket(p)
                   \/ RollBack(p)
            BY <3>3 DEF DeleteRegistration, CountPlayers, SetInProgress, EnqueueGenerateBracket, RollBack, rows
        <3>4. CASE \/ LoadTournament(p) \/ CountMatches(p) \/ AcquireLock(p) \/ RecountMatches(p)
                   \/ MailStarted(p) \/ ReleaseLock(p)
            BY <3>4 DEF LoadTournament, CountMatches, AcquireLock, RecountMatches, MailStarted, ReleaseLock, rows
        <3>5. CASE FindTournamentMatch(p) \/ CrownWinner(p) \/ ReadParent(p) \/ NotifyReadyMatch(p)
            BY <3>5 DEF FindTournamentMatch, CrownWinner, ReadParent, NotifyReadyMatch, rows
        <3> QED BY <1>3, <3>1, <3>2, <3>3, <3>4, <3>5 DEF Step
    <2> QED BY <2>2, <2>3, <2>4, <2>5, <2>6
<1> QED BY <1>1, <1>2, <1>3 DEF Next

-----------------------------------------------------------------------------
LEMMA BracketInit == Init => BracketInv
<1> SUFFICES ASSUME Init PROVE BracketInv
    OBVIOUS
<1>1. \A p \in Slots : proc[p].pc = "idle" /\ "pc" \in DOMAIN proc[p]
    BY DEF Init, Idle
<1>2. bracket = NoBracket /\ created = 0 /\ proc = [p \in Slots |-> proc[p]]
    BY DEF Init
<1>3. bracket = [m \in DOMAIN bracket |-> bracket[m]]
    BY <1>2 DEF NoBracket
<1> QED BY <1>1, <1>2, <1>3 DEF BracketInv, Shape, Exclusive, NoneYet, Accounted, Locked

\* The rows of a bracket are created once, however many generate-bracket jobs are queued,
\* retried, or taken over from a crashed worker.
THEOREM BracketIsCreatedOnce == Spec => []OneBracket
<1>1. BracketInv => OneBracket
    BY DEF BracketInv, Shape, Accounted, OneBracket
<1> QED BY <1>1, BracketInit, BracketInvariant, PTL DEF Spec

\* Every row and every job of a tournament stays well formed, for every number of players
\* and slots and every size of a bracket: no job is tried more often than its attempts, no
\* more players register than there is room for, and a match is decided for one in it.
THEOREM TournamentTypeCorrect == Spec => []TypeOK
<1>1. PlayInv => TypeOK
    <2> SUFFICES ASSUME PlayInv PROVE TypeOK
        OBVIOUS
    <2>1. /\ DOMAIN bracket \in {{}, Matches} /\ bracket \in [DOMAIN bracket -> MatchRow]
          /\ \A m \in DOMAIN bracket : Undecided(bracket[m]) \/ bracket[m].winnerSlot \in Filled(bracket[m])
        BY DEF PlayInv, TreeOK, Tree, Decided, NoBracket
    <2>2. \A j \in DOMAIN genJobs : genJobs[j].attempts \in 0..ATTEMPTS
        <3>1. \A j \in DOMAIN genJobs : genJobs[j] \in GenJob
            BY DEF PlayInv, JobsOK
        <3> QED BY <3>1 DEF GenJob
    <2>3. \A m \in DOMAIN endJobs : m \in Matches /\ endJobs[m].attempts \in 0..ATTEMPTS
        BY DEF PlayInv, JobsOK, EndJob
    <2>4. \A p \in Slots : proc[p].pc \in Labels
        BY DEF PlayInv, JobsOK, HandlerType
    <2> QED BY <2>1, <2>2, <2>3, <2>4 DEF PlayInv, RowsOK, TypeOK
<1> QED BY <1>1, BracketInit, BracketInvariant, PlayInit, PlayInvariant, PTL DEF Spec

\* A player is in a slot of a later round exactly because of winning the match that feeds
\* it, in whatever order matches end, jobs run and commands fail: advanceWinner decides the
\* match and fills the slot in one transaction, and never the slot of another feeder.
THEOREM WinnersMoveOn == Spec => []SlotsFollowFeeders
<1>1. PlayInv => SlotsFollowFeeders
    <2> SUFFICES ASSUME PlayInv, NEW m \in DOMAIN bracket, NEW side \in Filled(bracket[m]), Round(m) > 1
                 PROVE  Fed(bracket, m, side)
        BY DEF SlotsFollowFeeders, Fed
    <2>1. Tree(bracket) /\ m \in Matches
        BY DEF PlayInv, TreeOK, Tree, NoBracket
    <2> QED BY <2>1 DEF Tree, Follows, Filled
<1> QED BY <1>1, BracketInit, BracketInvariant, PlayInit, PlayInvariant, PTL DEF Spec

\* Without failures the players of a match are sent the mail when the second of them comes
\* in, even if two jobs fill it at the same time: the row the update returns decides.
THEOREM SecondPlayerIsAnnounced == Spec => []ReadyIsAnnounced
<1>1. Init => ReadyIsAnnounced
    BY DEF Init, ReadyIsAnnounced, NoBracket
<1> QED BY <1>1, BracketInit, BracketInvariant, PlayInit, PlayInvariant, AnnouncedInvariant, PTL DEF Spec


-----------------------------------------------------------------------------
(* Single elimination. *)

\* Nobody is twice in a round.
OncePerRound(b, r) ==
    \A m, n \in Matches, s, t \in Sides :
        Round(m) = r /\ Round(n) = r /\ b[m].slot[s] # NoOne /\ b[m].slot[s] = b[n].slot[t]
        => m = n /\ s = t

\* Who is in a match of round r has won every match of an earlier round he is in.
WonBefore(b, r) ==
    \A n, m \in Matches, t, s \in Sides :
        Round(n) = r /\ b[n].slot[t] # NoOne /\ b[m].slot[s] = b[n].slot[t] /\ Round(m) < r
        => ~Undecided(b[m]) /\ b[m].slot[b[m].winnerSlot] = b[m].slot[s]

\* The player of a slot of a later round won its feeder.
LEMMA FeederWon ==
    ASSUME NEW b, Tree(b), NEW m \in Matches, NEW s \in Sides, Round(m) > 1, b[m].slot[s] # NoOne
    PROVE  LET f == Feeder(m, s) IN
           /\ f \in Matches /\ Round(f) = Round(m) - 1 /\ Parent(f) = m /\ FedSide(f) = s
           /\ ~Undecided(b[f]) /\ b[f].winnerSlot \in Sides /\ b[f].slot[b[f].winnerSlot] = b[m].slot[s]
<1> DEFINE f == Feeder(m, s)
<1>1. f \in Matches /\ Round(f) = Round(m) - 1 /\ Parent(f) = m /\ FedSide(f) = s
    BY FeederIsMatch
<1>2. ~Undecided(b[f]) /\ b[f].slot[b[f].winnerSlot] = b[m].slot[s]
    BY DEF Tree, Follows, Fed
<1>3. b[f].winnerSlot \in Sides
    BY <1>1, <1>2 DEF Tree, Decided, Filled
<1> QED BY <1>1, <1>2, <1>3

\* One round after the other: who were twice in a round would have won the same match for
\* two parents.
LEMMA RoundsInOrder ==
    ASSUME NEW b, Tree(b)
    PROVE  \A r \in 0..10 : OncePerRound(b, r) /\ WonBefore(b, r)
<1> DEFINE S == {r \in 0..10 : OncePerRound(b, r) /\ WonBefore(b, r)}
<1>1. \A m \in Matches : Round(m) \in Nat /\ Round(m) >= 1
    BY MatchParts, RoundsOK DEF Round
<1>2. 0 \in S
    <2>1. OncePerRound(b, 0) /\ WonBefore(b, 0)
        BY <1>1 DEF OncePerRound, WonBefore
    <2> QED BY <2>1
<1>3. ASSUME NEW r \in 1..10, r - 1 \in S PROVE r \in S
    <2>1. OncePerRound(b, r - 1) /\ WonBefore(b, r - 1)
        BY <1>3
    <2>2. CASE r = 1
        <3>1. OncePerRound(b, 1)
            BY DEF Tree, DrawnOnce, OncePerRound
        <3>2. WonBefore(b, 1)
            BY <1>1 DEF WonBefore
        <3> QED BY <2>2, <3>1, <3>2
    <2>3. CASE r > 1
        <3>1. ASSUME NEW m \in Matches, NEW n \in Matches, NEW s \in Sides, NEW t \in Sides,
                     Round(m) = r, Round(n) = r, b[m].slot[s] # NoOne, b[m].slot[s] = b[n].slot[t]
              PROVE  m = n /\ s = t
            <4> DEFINE f == Feeder(m, s)
                       g == Feeder(n, t)
            <4>1. /\ f \in Matches /\ Round(f) = r - 1 /\ Parent(f) = m /\ FedSide(f) = s
                  /\ b[f].winnerSlot \in Sides /\ b[f].slot[b[f].winnerSlot] = b[m].slot[s]
                BY <2>3, <3>1, FeederWon
            <4>2. /\ g \in Matches /\ Round(g) = r - 1 /\ Parent(g) = n /\ FedSide(g) = t
                  /\ b[g].winnerSlot \in Sides /\ b[g].slot[b[g].winnerSlot] = b[m].slot[s]
                BY <2>3, <3>1, FeederWon
            <4> HIDE DEF f, g
            <4>3. f = g
                BY <2>1, <3>1, <4>1, <4>2 DEF OncePerRound
            <4> QED BY <4>1, <4>2, <4>3
        <3>2. ASSUME NEW n \in Matches, NEW m \in Matches, NEW t \in Sides, NEW s \in Sides,
                     Round(n) = r, b[n].slot[t] # NoOne, b[m].slot[s] = b[n].slot[t], Round(m) < r
              PROVE  ~Undecided(b[m]) /\ b[m].slot[b[m].winnerSlot] = b[m].slot[s]
            <4> DEFINE g == Feeder(n, t)
            <4>1. /\ g \in Matches /\ Round(g) = r - 1 /\ ~Undecided(b[g])
                  /\ b[g].winnerSlot \in Sides /\ b[g].slot[b[g].winnerSlot] = b[n].slot[t]
                BY <2>3, <3>2, FeederWon
            <4> HIDE DEF g
            <4>2. CASE Round(m) = r - 1
                <5>1. m = g
                    BY <2>1, <3>2, <4>1, <4>2 DEF OncePerRound
                <5> QED BY <3>2, <4>1, <5>1
            <4>3. CASE Round(m) < r - 1
                BY <2>1, <3>2, <4>1, <4>3 DEF WonBefore
            <4> QED BY <1>1, <3>2, <4>2, <4>3
        <3>3. OncePerRound(b, r)
            BY <3>1 DEF OncePerRound
        <3>4. WonBefore(b, r)
            BY <3>2 DEF WonBefore
        <3> QED BY <3>3, <3>4
    <2> QED BY <2>2, <2>3
<1> HIDE DEF S
<1>4. \A r \in 0..10 : r \in S
    BY <1>2, <1>3, TenSteps
<1> QED BY <1>4 DEF S

\* What a lost match says.
LEMMA LostFacts ==
    ASSUME Tree(bracket), NEW m \in Matches, NEW u, Lost(m, u)
    PROVE  /\ u # NoOne /\ ~Undecided(bracket[m]) /\ bracket[m].winnerSlot \in Sides
           /\ \E s \in Sides : s # bracket[m].winnerSlot /\ bracket[m].slot[s] = u
<1>1. Filled(bracket[m]) = Sides /\ ~Undecided(bracket[m]) /\ bracket[m].slot[Other(bracket[m].winnerSlot)] = u
    BY DEF Lost
<1>2. bracket[m].winnerSlot \in Sides
    BY <1>1 DEF Tree, Decided, Filled
<1>3. Other(bracket[m].winnerSlot) \in Sides /\ Other(bracket[m].winnerSlot) # bracket[m].winnerSlot
    BY <1>2, SidesAre DEF Other
<1>4. u # NoOne
    BY <1>1, <1>3 DEF Filled
<1> QED BY <1>1, <1>2, <1>3, <1>4

\* The loser of a match is in no other match from its round on.
LEMMA LoserIsOut ==
    ASSUME Tree(bracket), NEW m \in Matches, NEW n \in Matches, NEW side \in Sides,
           Lost(m, bracket[n].slot[side]), Round(n) >= Round(m)
    PROVE  n = m
<1> DEFINE u == bracket[n].slot[side]
<1>1. u # NoOne /\ ~Undecided(bracket[m]) /\ bracket[m].winnerSlot \in Sides
    BY LostFacts
<1>2. PICK s \in Sides : s # bracket[m].winnerSlot /\ bracket[m].slot[s] = u
    BY LostFacts
<1>3. Round(m) \in 0..10 /\ Round(n) \in 0..10 /\ Round(m) \in Int /\ Round(n) \in Int
    BY MatchParts, RoundsOK DEF Round
<1>4. /\ OncePerRound(bracket, Round(m)) /\ OncePerRound(bracket, Round(n))
      /\ WonBefore(bracket, Round(n))
    BY <1>3, RoundsInOrder
<1> HIDE DEF u
<1>5. CASE Round(n) = Round(m)
    BY <1>1, <1>2, <1>4, <1>5 DEF OncePerRound, u
<1>6. CASE Round(m) < Round(n)
    <2>1. bracket[m].slot[bracket[m].winnerSlot] = bracket[m].slot[s]
        BY <1>1, <1>2, <1>4, <1>6 DEF WonBefore, u
    <2> QED BY <1>1, <1>2, <1>4, <2>1 DEF OncePerRound
<1> QED BY <1>3, <1>5, <1>6

\* Whoever is crowned has won a match that leads nowhere.
CrownedAt(b, m, u) ==
    /\ ~Undecided(b[m]) /\ ~b[m].next
    /\ b[m].winnerSlot \in Sides /\ b[m].slot[b[m].winnerSlot] = u
Crowned == winnerId # NoOne => \E m \in Matches : m \in DOMAIN bracket /\ CrownedAt(bracket, m, winnerId)

\* He is in no later round, and has won everything before.
LEMMA CrownedIsUnbeaten ==
    ASSUME Tree(bracket), NEW c \in Matches, CrownedAt(bracket, c, winnerId), winnerId # NoOne, NEW m \in Matches
    PROVE  ~Lost(m, winnerId)
<1> SUFFICES ASSUME Lost(m, winnerId) PROVE FALSE
    OBVIOUS
<1>1. ~Undecided(bracket[m]) /\ bracket[m].winnerSlot \in Sides
    BY LostFacts
<1>2. PICK s \in Sides : s # bracket[m].winnerSlot /\ bracket[m].slot[s] = winnerId
    BY LostFacts
<1> DEFINE w == bracket[c].winnerSlot
<1>3. ~Undecided(bracket[c]) /\ ~bracket[c].next /\ w \in Sides /\ bracket[c].slot[w] = winnerId
    BY DEF CrownedAt
<1>4. \A x \in Matches : Round(x) \in 0..10 /\ Round(x) \in Int /\ Round(x) <= Rounds
    BY MatchParts, RoundsOK DEF Round
<1>5. \A x \in Matches : OncePerRound(bracket, Round(x)) /\ WonBefore(bracket, Round(x))
    BY <1>4, RoundsInOrder
<1> HIDE DEF w
<1>6. CASE Round(m) = Round(c)
    <2>1. m = c /\ s = w
        BY <1>2, <1>3, <1>5, <1>6 DEF OncePerRound
    <2> QED BY <1>2, <2>1 DEF w
<1>7. CASE Round(m) < Round(c)
    <2>1. bracket[m].slot[bracket[m].winnerSlot] = bracket[m].slot[s]
        BY <1>2, <1>3, <1>5, <1>7 DEF WonBefore
    <2> QED BY <1>1, <1>2, <1>5, <2>1 DEF OncePerRound
<1>8. CASE Round(m) > Round(c)
    <2> DEFINE S == {r \in 0..10 : \A x \in Matches, t \in Sides :
                        Round(x) = r /\ r > Round(c) => bracket[x].slot[t] # winnerId}
    <2>1. 0 \in S
        BY <1>4
    <2>2. ASSUME NEW r \in 1..10, r - 1 \in S PROVE r \in S
        <3> SUFFICES ASSUME NEW x \in Matches, NEW t \in Sides, Round(x) = r, r > Round(c),
                            bracket[x].slot[t] = winnerId
                     PROVE  FALSE
            OBVIOUS
        <3> DEFINE f == Feeder(x, t)
        <3>1. Round(x) > 1
            <4>1. Round(c) >= 1
                BY MatchParts, RoundsOK DEF Round
            <4> QED BY <1>4, <4>1
        <3>2. /\ f \in Matches /\ Round(f) = r - 1 /\ Parent(f) = x /\ FedSide(f) = t
              /\ bracket[f].winnerSlot \in Sides /\ bracket[f].slot[bracket[f].winnerSlot] = winnerId
            BY <3>1, FeederWon
        <3> HIDE DEF f
        <3>3. CASE r - 1 > Round(c)
            BY <2>2, <3>2, <3>3
        <3>4. CASE r - 1 = Round(c)
            <4>1. f = c
                BY <1>3, <1>5, <3>2, <3>4 DEF OncePerRound
            <4>2. Round(c) < Rounds
                BY <1>4, <3>4, RoundsOK
            <4>3. bracket[x].slot[t] = NoOne
                BY <1>3, <3>2, <4>1, <4>2 DEF Tree, DeadEnds
            <4> QED BY <4>3
        <3> QED BY <1>4, <3>3, <3>4
    <2> HIDE DEF S
    <2>3. \A r \in 0..10 : r \in S
        BY <2>1, <2>2, TenSteps
    <2> QED BY <1>2, <1>4, <1>8, <2>3 DEF S
<1> QED BY <1>4, <1>6, <1>7, <1>8

\* A match that was decided stays as it is.
LEMMA CrownStays ==
    ASSUME Crowned, NEW d, Tree(bracket), Tree(bracket'), Grows(bracket, bracket', d), winnerId' = winnerId,
           d \in Matches => Undecided(bracket[d]) \/ bracket'[d].winnerSlot = bracket[d].winnerSlot
    PROVE  Crowned'
<1> SUFFICES ASSUME winnerId # NoOne
             PROVE  \E m \in Matches : m \in DOMAIN bracket' /\ CrownedAt(bracket', m, winnerId')
    BY DEF Crowned
<1>1. PICK m \in Matches : CrownedAt(bracket, m, winnerId)
    BY DEF Crowned
<1>2. /\ ~Undecided(bracket[m]) /\ ~bracket[m].next
      /\ bracket[m].winnerSlot \in Sides /\ bracket[m].slot[bracket[m].winnerSlot] = winnerId
    BY <1>1 DEF CrownedAt
<1>3. bracket'[m].winnerSlot = bracket[m].winnerSlot /\ bracket'[m].next = bracket[m].next
    BY <1>2 DEF Grows
<1>4. bracket'[m].slot[bracket[m].winnerSlot] = winnerId
    BY <1>2 DEF Grows
<1>5. m \in DOMAIN bracket'
    BY DEF Tree
<1> QED BY <1>2, <1>3, <1>4, <1>5 DEF CrownedAt, Undecided

LEMMA CrownInvariant == BracketInv /\ PlayInv /\ Crowned /\ [Next]_vars => Crowned'
<1> SUFFICES ASSUME BracketInv, PlayInv, Crowned, [Next]_vars PROVE Crowned'
    OBVIOUS
<1>1. CASE bracket' = bracket /\ winnerId' = winnerId
    BY <1>1 DEF Crowned, CrownedAt
<1>2. ASSUME NEW p \in Slots, CreateMatches(p) PROVE Crowned'
    <2>1. bracket = NoBracket /\ winnerId' = winnerId
        BY <1>2 DEF CreateMatches, At, BracketInv, NoneYet
    <2>2. winnerId = NoOne
        BY <2>1 DEF Crowned, NoBracket
    <2> QED BY <2>1, <2>2 DEF Crowned
<1>3. ASSUME NEW p \in Slots, PersistMatchEnded(p) PROVE Crowned'
    <2> DEFINE m == proc[p].m
    <2>1. bracket' = [bracket EXCEPT ![m].linked = TRUE] /\ winnerId' = winnerId /\ proc[p].pc \in ProgLabels
        BY <1>3 DEF PersistMatchEnded, At, ProgLabels
    <2>2. m \in Matches /\ Tree(bracket) /\ bracket \in [Matches -> MatchRow]
        BY <2>1, ProgressFacts
    <2>3. /\ bracket' \in [Matches -> MatchRow]
          /\ \A n \in Matches :
                /\ bracket'[n].slot = bracket[n].slot /\ bracket'[n].winnerSlot = bracket[n].winnerSlot
                /\ bracket'[n].next = bracket[n].next
        BY <2>1, <2>2 DEF MatchRow
    <2>4. Tree(bracket') /\ Grows(bracket, bracket', m)
        BY <2>2, <2>3, LinkKeepsTree
    <2> QED BY <2>1, <2>2, <2>3, <2>4, CrownStays
<1>4. ASSUME NEW p \in Slots, FillParent(p) PROVE Crowned'
    <2> DEFINE m == proc[p].m
    <2>1. /\ proc[p].pc = "fill" /\ m \in Matches /\ Undecided(bracket[m]) /\ bracket[m].next
          /\ bracket' \in [Matches -> MatchRow]
          /\ \A n \in Matches :
                bracket'[n].next = bracket[n].next /\ (n # m => bracket'[n].winnerSlot = bracket[n].winnerSlot)
        BY <1>4, FillEffect
    <2>2. PICK w \in Sides :
              /\ bracket[m].slot[w] # NoOne /\ bracket'[m].winnerSlot = w
              /\ \A n \in Matches, s \in Sides :
                    \/ bracket'[n].slot[s] = bracket[n].slot[s]
                    \/ n = Parent(m) /\ s = FedSide(m) /\ bracket'[n].slot[s] = bracket[m].slot[w]
        BY <1>4, FillEffect
    <2>3. Tree(bracket)
        BY <2>1, ProgressFacts DEF ProgLabels
    <2>4. Tree(bracket') /\ Grows(bracket, bracket', m)
        BY <2>1, <2>2, <2>3, DecideKeepsTree
    <2>5. winnerId' = winnerId
        BY <1>4 DEF FillParent
    <2> QED BY <2>1, <2>3, <2>4, <2>5, CrownStays
<1>5. ASSUME NEW p \in Slots, CompleteTournament(p) PROVE Crowned'
    <2> DEFINE m == proc[p].m
    <2>1. proc[p].pc = "complete" /\ winnerId' = endJobs[m].winner
        BY <1>5 DEF CompleteTournament, At
    <2>2. PICK w \in WinnerSide(p) : bracket' = [bracket EXCEPT ![m].winnerSlot = w]
        BY <1>5 DEF CompleteTournament
    <2>3. proc[p].pc \in ProgLabels /\ w \in Sides /\ bracket[m].slot[w] = endJobs[m].winner
        BY <2>1, <2>2, DecisionFacts
    <2>4. m \in Matches /\ bracket \in [Matches -> MatchRow]
        BY <2>3, ProgressFacts
    <2>5. ~bracket[m].next
        BY <2>1 DEF PlayInv, StillFound, Found
    <2>6. bracket'[m].winnerSlot = w /\ bracket'[m].slot = bracket[m].slot /\ bracket'[m].next = bracket[m].next
        BY <2>2, <2>4 DEF MatchRow
    <2>7. CrownedAt(bracket', m, winnerId')
        BY <2>1, <2>3, <2>5, <2>6, SidesAre DEF CrownedAt, Undecided
    <2>8. m \in DOMAIN bracket'
        BY <2>2, <2>4
    <2> QED BY <2>4, <2>7, <2>8 DEF Crowned
<1>6. \/ bracket' = bracket /\ winnerId' = winnerId
      \/ \E p \in Slots : \/ CreateMatches(p) \/ PersistMatchEnded(p) \/ FillParent(p)
                          \/ CompleteTournament(p)
    <2>1. CASE \/ OpenRegistration \/ (\E u \in Users : RegisterPlayer(u)) \/ LockExpire \/ UNCHANGED vars
               \/ \E m \in Matches : PlayMatch(m)
        BY <2>1 DEF OpenRegistration, RegisterPlayer, LockExpire, PlayMatch, vars, rows
    <2>2. ASSUME NEW p \in Slots, Request(p) \/ TakeJob(p) \/ EnqueueFails(p) \/ CommandFails(p) \/ Crash(p)
          PROVE  bracket' = bracket /\ winnerId' = winnerId
        BY <2>2 DEF Request, StartTournament, UnregisterPlayer, TakeJob, GenerateBracket, MatchEnded,
           EnqueueFails, CommandFails, Crash, rows
    <2>3. ASSUME NEW p \in Slots, Step(p),
                 ~(CreateMatches(p) \/ PersistMatchEnded(p) \/ FillParent(p) \/ CompleteTournament(p))
          PROVE  bracket' = bracket /\ winnerId' = winnerId
        BY <2>3, Zenon DEF Step, DeleteRegistration, CountPlayers, SetInProgress, EnqueueGenerateBracket,
           RollBack, LoadTournament, CountMatches, AcquireLock, RecountMatches, MailStarted,
           ReleaseLock, FindTournamentMatch, CrownWinner, ReadParent, NotifyReadyMatch, rows
    <2> QED BY <2>1, <2>2, <2>3 DEF Next
<1> QED BY <1>1, <1>2, <1>3, <1>4, <1>5, <1>6

\* Who has lost is out, and who is crowned has lost no match: in a bracket of any size, with
\* any number of players, and whatever order matches end and jobs run, fail and are retried in.
THEOREM LosersAreKnockedOut == Spec => []Knockout
<1>1. Init => Crowned
    BY DEF Init, Crowned, CrownedAt
<1>2. PlayInv /\ Crowned => Knockout
    <2> SUFFICES ASSUME PlayInv, Crowned PROVE Knockout
        OBVIOUS
    <2>1. CASE bracket = NoBracket
        BY <2>1 DEF Knockout, LosersAreOut, WinnerIsUnbeaten, NoBracket
    <2>2. CASE Tree(bracket)
        <3>1. DOMAIN bracket = Matches
            BY <2>2 DEF Tree
        <3>2. LosersAreOut
            BY <2>2, <3>1, LoserIsOut DEF LosersAreOut
        <3>3. WinnerIsUnbeaten
            BY <2>2, <3>1, CrownedIsUnbeaten DEF Crowned, WinnerIsUnbeaten
        <3> QED BY <3>2, <3>3 DEF Knockout
    <2> QED BY <2>1, <2>2 DEF PlayInv, TreeOK
<1> QED BY <1>1, <1>2, BracketInit, BracketInvariant, PlayInit, PlayInvariant, CrownInvariant, PTL DEF Spec
=============================================================================
