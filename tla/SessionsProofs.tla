--------------------------- MODULE SessionsProofs ---------------------------
(***************************************************************************)
(* Theorems about Sessions, for any number of rooms, fold goroutines,      *)
(* sockets, refills and faults.  The three invariants support each other:  *)
(* that a session is folded once bounds the counter the type invariant     *)
(* bounds, and the pending map needs to know which goroutines wait.  That  *)
(* refills do not stack holds of instances that a hypothesis describes.    *)
(***************************************************************************)
EXTENDS SessionsProperties, FiniteSetTheorems, WellFoundedInduction, TLAPS

\* What holds in every state; RefillsNeverStack adds to it below.
Inv == TypeOK /\ PendingNamesItsFold /\ EachSessionFoldedOnce

\* A goroutine that does not exist.
LEMMA IdleIsAJob == Idle \in FoldJobs /\ LocalsOK(Idle) /\ Idle.at = "idle" /\ Idle.room = None
  BY DEF Idle, Fold, FoldJobs, LocalsOK, FoldSteps, Tokens

\* Nobody has joined and nothing is scheduled.
LEMMA InitInv == Init => Inv
<1>. SUFFICES ASSUME Init PROVE Inv
  OBVIOUS
<1>1. TypeOK
  BY IdleIsAJob, SessionsAssumption DEF Init, TypeOK, Tokens, Claim, ClaimJobs
<1>2. PendingNamesItsFold
  BY IdleIsAJob, SessionsAssumption DEF Init, PendingNamesItsFold, Ending
<1>3. EachSessionFoldedOnce
  BY DEF Init, EachSessionFoldedOnce
<1>. QED
  BY <1>1, <1>2, <1>3 DEF Inv

-----------------------------------------------------------------------------
(***************************************************************************)
(* Steps that leave the fold goroutines alone.                             *)
(***************************************************************************)
LEMMA PendingFrame ==
  ASSUME Inv, UNCHANGED <<fold, pending>>
  PROVE  PendingNamesItsFold'
  BY DEF Inv, PendingNamesItsFold, Ending

LEMMA SessionFrame ==
  ASSUME Inv, UNCHANGED <<opening, begun, folded>>
  PROVE  EachSessionFoldedOnce'
  BY DEF Inv, EachSessionFoldedOnce

LEMMA VisitInv ==
  ASSUME Inv, NEW m \in Rooms,
         \/ JoinReadAccount(m)
         \/ JoinRoom(m)
         \/ \E a \in Amounts : PlaceWager(m, a)
         \/ \E c \in 0..MaxTokens : RoundPays(m, c)
  PROVE  Inv'
<1>. USE DEF vars, store, session, refills, process
<1>1. CASE JoinReadAccount(m)
  <2>1. TypeOK'
    BY <1>1 DEF Inv, JoinReadAccount, TypeOK, Tokens
  <2>. QED
    BY <1>1, <2>1, PendingFrame, SessionFrame DEF Inv, JoinReadAccount
<1>2. CASE JoinRoom(m)
  <2>. DEFINE grant == Lesser(joining[m], Cap)
  <2>1. grant \in Nat /\ grant # None
    BY <1>2, SessionsAssumption DEF Inv, JoinRoom, TypeOK, Tokens, Lesser
  <2>2. CASE grant = 0
    <3>1. TypeOK'
      BY <1>2, <2>2 DEF Inv, JoinRoom, TypeOK, Tokens
    <3>. QED
      BY <1>2, <2>2, <3>1, PendingFrame, SessionFrame DEF Inv, JoinRoom
  <2>3. CASE grant # 0
    <3>1. begun[m] \in 0..MaxSessions /\ begun[m] < MaxSessions
      BY <1>2 DEF Inv, JoinRoom, TypeOK
    <3>2. begun' \in [Rooms -> 0..MaxSessions]
      BY <1>2, <2>3, <3>1, SessionsAssumption DEF Inv, JoinRoom, TypeOK
    <3>3. TypeOK'
      BY <1>2, <2>1, <2>3, <3>2 DEF Inv, JoinRoom, TypeOK, Tokens
    <3>4. EachSessionFoldedOnce'
      BY <1>2, <2>1, <2>3 DEF Inv, JoinRoom, TypeOK, EachSessionFoldedOnce
    <3>. QED
      BY <1>2, <3>3, <3>4, PendingFrame DEF Inv, JoinRoom
  <2>. QED
    BY <2>2, <2>3
<1>3. ASSUME NEW a \in Amounts, PlaceWager(m, a) PROVE Inv'
  <2>1. a \in Nat /\ wallet[m] \in Nat /\ wallet[m] - a \in Nat /\ stake[m] + a \in Nat
    BY <1>3, SessionsAssumption DEF Inv, PlaceWager, TypeOK, Tokens
  <2>2. TypeOK'
    BY <1>3, <2>1 DEF Inv, PlaceWager, TypeOK, Tokens
  <2>. QED
    BY <1>3, <2>2, PendingFrame, SessionFrame DEF Inv, PlaceWager
<1>4. ASSUME NEW c \in 0..MaxTokens, RoundPays(m, c) PROVE Inv'
  <2>. DEFINE before == IF wallet[m] = None THEN 0 ELSE wallet[m]
  <2>1. c \in Nat /\ before + c \in Nat
    BY SessionsAssumption DEF Inv, TypeOK, Tokens
  <2>2. TypeOK'
    BY <1>4, <2>1 DEF Inv, RoundPays, TypeOK, Tokens
  <2>. QED
    BY <1>4, <2>2, PendingFrame, SessionFrame DEF Inv, RoundPays
<1>. QED
  BY <1>1, <1>2, <1>3, <1>4

-----------------------------------------------------------------------------
(***************************************************************************)
(* Sockets and the pending map.                                            *)
(***************************************************************************)

\* Dropping a room's entry cancels the goroutine it names, and no other.
LEMMA CancelType ==
  ASSUME Inv, NEW m \in Rooms
  PROVE  /\ CancelPending(m) \in [Folds -> FoldJobs]
         /\ \A t \in Folds :
              LET f == CancelPending(m)[t]
              IN  /\ LocalsOK(f)
                  /\ f.at = fold[t].at
                  /\ f.room = fold[t].room
                  /\ f.cancelled <=> fold[t].cancelled \/ pending[m] = t
                  /\ fold[t] = Idle => f = Idle
<1>. SUFFICES ASSUME NEW t \in Folds
              PROVE  LET f == CancelPending(m)[t]
                     IN  /\ f \in FoldJobs
                         /\ LocalsOK(f)
                         /\ f.at = fold[t].at
                         /\ f.room = fold[t].room
                         /\ f.cancelled <=> fold[t].cancelled \/ pending[m] = t
                         /\ fold[t] = Idle => f = Idle
  BY DEF CancelPending
<1>1. fold[t] \in FoldJobs /\ LocalsOK(fold[t])
  BY DEF Inv, TypeOK
<1>2. CASE pending[m] # t
  BY <1>1, <1>2 DEF CancelPending, FoldJobs
<1>3. CASE pending[m] = t
  <2>1. fold[t].room = m /\ fold[t].at = "waiting"
    BY <1>3 DEF Inv, PendingNamesItsFold
  <2>2. fold[t] # Idle
    BY <2>1, IdleIsAJob
  <2>. QED
    BY <1>1, <1>3, <2>1, <2>2 DEF CancelPending, FoldJobs, LocalsOK, Idle, Fold
<1>. QED
  BY <1>2, <1>3

LEMMA ConnectInv ==
  ASSUME Inv, NEW m \in Rooms, Connect(m)
  PROVE  Inv'
<1>. USE DEF vars, store, session, refills, process
<1>1. sockets' \in [Rooms -> 0..MaxSockets]
  BY SessionsAssumption DEF Inv, TypeOK, Connect
<1>2. TypeOK'
  BY <1>1, CancelType DEF Inv, TypeOK, Connect
<1>3. PendingNamesItsFold'
  <2>. SUFFICES ASSUME NEW x \in Folds
                PROVE  /\ \A n \in Rooms :
                            pending'[n] = x <=>
                              fold'[x].room = n /\ fold'[x].at = "waiting" /\ ~fold'[x].cancelled
                       /\ Ending(x)' => ~fold'[x].cancelled
    BY DEF PendingNamesItsFold
  <2>1. /\ fold'[x].at = fold[x].at
        /\ fold'[x].room = fold[x].room
        /\ fold'[x].cancelled <=> fold[x].cancelled \/ pending[m] = x
    BY CancelType DEF Connect
  <2>2. pending'[m] # x /\ \A n \in Rooms \ {m} : pending'[n] = pending[n]
    BY SessionsAssumption DEF Connect, Inv, TypeOK
  <2>3. /\ \A n \in Rooms :
             pending[n] = x <=> fold[x].room = n /\ fold[x].at = "waiting" /\ ~fold[x].cancelled
        /\ Ending(x) => ~fold[x].cancelled
    BY DEF Inv, PendingNamesItsFold
  <2>4. ASSUME NEW n \in Rooms
        PROVE  pending'[n] = x <=>
                 fold'[x].room = n /\ fold'[x].at = "waiting" /\ ~fold'[x].cancelled
    <3>1. CASE n = m
      BY <2>1, <2>2, <2>3, <3>1
    <3>2. CASE n # m
      BY <2>1, <2>2, <2>3, <3>2
    <3>. QED
      BY <3>1, <3>2
  <2>5. Ending(x)' => ~fold'[x].cancelled
    BY <2>1, <2>3 DEF Ending
  <2>. QED
    BY <2>4, <2>5
<1>. QED
  BY <1>2, <1>3, SessionFrame DEF Inv, Connect

LEMMA DisconnectInv ==
  ASSUME Inv, NEW m \in Rooms, NEW t \in Folds, Disconnect(m, t)
  PROVE  Inv'
<1>. USE DEF vars, store, session, refills, process
<1>1. sockets' \in [Rooms -> 0..MaxSockets]
  BY SessionsAssumption DEF Inv, TypeOK, Disconnect
<1>2. /\ Fold("waiting", m) \in FoldJobs
      /\ LocalsOK(Fold("waiting", m))
      /\ Fold("waiting", m).at = "waiting"
      /\ Fold("waiting", m).room = m
      /\ ~Fold("waiting", m).cancelled
  BY DEF Fold, FoldJobs, LocalsOK, FoldSteps, Tokens
<1>3. fold'[t] = Fold("waiting", m) /\ \A x \in Folds \ {t} : fold'[x] = CancelPending(m)[x]
  BY CancelType DEF Disconnect
<1>4. fold' \in [Folds -> FoldJobs] /\ \A x \in Folds : LocalsOK(fold'[x])
  BY <1>2, <1>3, CancelType DEF Disconnect
<1>5. TypeOK'
  BY <1>1, <1>4 DEF Inv, TypeOK, Disconnect
<1>6. pending[m] # t /\ \A n \in Rooms : pending[n] # t
  BY IdleIsAJob DEF Inv, PendingNamesItsFold, Disconnect
<1>7. PendingNamesItsFold'
  <2>. SUFFICES ASSUME NEW x \in Folds
                PROVE  /\ \A n \in Rooms :
                            pending'[n] = x <=>
                              fold'[x].room = n /\ fold'[x].at = "waiting" /\ ~fold'[x].cancelled
                       /\ Ending(x)' => ~fold'[x].cancelled
    BY DEF PendingNamesItsFold
  <2>1. pending' = [pending EXCEPT ![m] = t] /\ pending \in [Rooms -> Folds \cup {None}]
    BY DEF Disconnect, Inv, TypeOK
  <2>2. CASE x = t
    BY <1>2, <1>3, <1>6, <2>1, <2>2 DEF Ending
  <2>3. CASE x # t
    <3>1. /\ fold'[x].at = fold[x].at
          /\ fold'[x].room = fold[x].room
          /\ fold'[x].cancelled <=> fold[x].cancelled \/ pending[m] = x
      BY <1>3, <2>3, CancelType
    <3>2. pending'[m] # x /\ \A n \in Rooms \ {m} : pending'[n] = pending[n]
      BY <2>1, <2>3
    <3>3. /\ \A n \in Rooms :
               pending[n] = x <=> fold[x].room = n /\ fold[x].at = "waiting" /\ ~fold[x].cancelled
          /\ Ending(x) => ~fold[x].cancelled
      BY DEF Inv, PendingNamesItsFold
    <3>4. ASSUME NEW n \in Rooms
          PROVE  pending'[n] = x <=>
                   fold'[x].room = n /\ fold'[x].at = "waiting" /\ ~fold'[x].cancelled
      <4>1. CASE n = m
        BY <3>1, <3>2, <3>3, <4>1
      <4>2. CASE n # m
        BY <3>1, <3>2, <3>3, <4>2
      <4>. QED
        BY <4>1, <4>2
    <3>5. Ending(x)' => ~fold'[x].cancelled
      BY <3>1, <3>3 DEF Ending
    <3>. QED
      BY <3>4, <3>5
  <2>. QED
    BY <2>2, <2>3
<1>. QED
  BY <1>5, <1>7, SessionFrame DEF Inv, Disconnect

-----------------------------------------------------------------------------
(***************************************************************************)
(* A fold goroutine at work.  It waits for nothing any more once it has    *)
(* left the map, so moving it on disturbs the map only where it was named. *)
(***************************************************************************)
LEMMA FoldMoves ==
  ASSUME Inv, NEW t \in Folds, NEW f \in FoldJobs,
         fold' = [fold EXCEPT ![t] = f],
         LocalsOK(f),
         f.at # "waiting",
         f.at # "idle" => ~f.cancelled,
         \/ UNCHANGED pending /\ \A n \in Rooms : pending[n] # t
         \/ \E m \in Rooms : pending[m] = t /\ pending' = [pending EXCEPT ![m] = None]
  PROVE  /\ fold' \in [Folds -> FoldJobs]
         /\ \A x \in Folds : LocalsOK(fold'[x])
         /\ pending' \in [Rooms -> Folds \cup {None}]
         /\ PendingNamesItsFold'
<1>1. fold'[t] = f /\ \A x \in Folds \ {t} : fold'[x] = fold[x]
  BY DEF Inv, TypeOK
<1>2. fold' \in [Folds -> FoldJobs] /\ \A x \in Folds : LocalsOK(fold'[x])
  BY <1>1 DEF Inv, TypeOK
<1>3. pending' \in [Rooms -> Folds \cup {None}]
  BY DEF Inv, TypeOK
<1>4. \A n \in Rooms : pending'[n] # t
  BY SessionsAssumption DEF Inv, TypeOK, PendingNamesItsFold
<1>5. \A n \in Rooms, x \in Folds \ {t} : pending'[n] = x <=> pending[n] = x
  BY SessionsAssumption DEF Inv, TypeOK
<1>6. PendingNamesItsFold'
  <2>1. \A n \in Rooms : pending'[n] = t <=>
           fold'[t].room = n /\ fold'[t].at = "waiting" /\ ~fold'[t].cancelled
    BY <1>1, <1>4
  <2>2. \A n \in Rooms, x \in Folds \ {t} : pending'[n] = x <=>
           fold'[x].room = n /\ fold'[x].at = "waiting" /\ ~fold'[x].cancelled
    BY <1>1, <1>5 DEF Inv, PendingNamesItsFold
  <2>3. \A x \in Folds : Ending(x)' => ~fold'[x].cancelled
    BY <1>1 DEF Inv, PendingNamesItsFold, Ending
  <2>. QED
    BY <2>1, <2>2, <2>3 DEF PendingNamesItsFold
<1>. QED
  BY <1>2, <1>3, <1>6

\* Returning is such a move.
LEMMA FoldReturns ==
  ASSUME Inv, NEW t \in Folds, fold' = [fold EXCEPT ![t] = Idle], UNCHANGED pending,
         \A n \in Rooms : pending[n] # t
  PROVE  /\ fold' \in [Folds -> FoldJobs]
         /\ \A x \in Folds : LocalsOK(fold'[x])
         /\ PendingNamesItsFold'
  BY FoldMoves, IdleIsAJob

LEMMA EndingIsNotPending ==
  ASSUME Inv, NEW t \in Folds, Ending(t) \/ fold[t].cancelled
  PROVE  /\ \A n \in Rooms : pending[n] # t
         /\ Ending(t) => fold[t].room \in Rooms /\ ~fold[t].cancelled
         /\ fold[t] \in FoldJobs
         /\ LocalsOK(fold[t])
<1>1. fold[t] \in FoldJobs /\ LocalsOK(fold[t])
  BY DEF Inv, TypeOK
<1>2. \A n \in Rooms : pending[n] # t
  BY DEF Inv, PendingNamesItsFold, Ending
<1>3. Ending(t) => fold[t].room \in Rooms /\ ~fold[t].cancelled
  BY <1>1, IdleIsAJob DEF Inv, PendingNamesItsFold, LocalsOK, Ending
<1>. QED
  BY <1>1, <1>2, <1>3

LEMMA FoldWaitingInv ==
  ASSUME Inv, NEW t \in Folds, FoldCancelled(t) \/ FoldFires(t)
  PROVE  Inv'
<1>. USE DEF vars, store, session, refills, process
<1>1. CASE FoldCancelled(t)
  <2>1. \A n \in Rooms : pending[n] # t
    BY <1>1, EndingIsNotPending DEF FoldCancelled
  <2>2. /\ fold' \in [Folds -> FoldJobs]
        /\ \A x \in Folds : LocalsOK(fold'[x])
        /\ PendingNamesItsFold'
    BY <1>1, <2>1, FoldReturns DEF FoldCancelled
  <2>3. TypeOK'
    BY <1>1, <2>2 DEF Inv, TypeOK, FoldCancelled
  <2>. QED
    BY <1>1, <2>2, <2>3, SessionFrame DEF Inv, FoldCancelled
<1>2. CASE FoldFires(t)
  <2>. DEFINE m == fold[t].room
              f == [fold[t] EXCEPT !.at = "readUser"]
  <2>1. fold[t].at = "waiting" /\ fold[t] \in FoldJobs /\ LocalsOK(fold[t]) /\ m \in Rooms
    BY <1>2, IdleIsAJob DEF FoldFires, Inv, TypeOK, LocalsOK
  <2>2. /\ fold' \in [Folds -> FoldJobs]
        /\ \A x \in Folds : LocalsOK(fold'[x])
        /\ pending' \in [Rooms -> Folds \cup {None}]
        /\ PendingNamesItsFold'
    <3>1. CASE pending[m] = t
      <4>1. ~fold[t].cancelled
        BY <2>1, <3>1 DEF Inv, PendingNamesItsFold
      <4>2. f \in FoldJobs /\ f.at = "readUser" /\ f.cancelled = fold[t].cancelled /\ f.room = m
        BY <2>1 DEF FoldJobs, FoldSteps
      <4>3. LocalsOK(f)
        BY <2>1, <4>2 DEF LocalsOK
      <4>4. fold' = [fold EXCEPT ![t] = f] /\ pending' = [pending EXCEPT ![m] = None]
        BY <1>2, <3>1 DEF FoldFires
      <4>. HIDE DEF f, m
      <4>. QED
        BY <2>1, <3>1, <4>1, <4>2, <4>3, <4>4, FoldMoves
    <3>2. CASE pending[m] # t
      <4>1. \A n \in Rooms : pending[n] # t
        BY <3>2 DEF Inv, PendingNamesItsFold
      <4>. QED
        BY <1>2, <3>2, <4>1, FoldReturns DEF FoldFires, Inv, TypeOK
    <3>. QED
      BY <3>1, <3>2
  <2>3. TypeOK'
    BY <1>2, <2>2 DEF Inv, TypeOK, FoldFires
  <2>. QED
    BY <1>2, <2>2, <2>3, SessionFrame DEF Inv, FoldFires
<1>. QED
  BY <1>1, <1>2

LEMMA FoldReadsInv ==
  ASSUME Inv, NEW t \in Folds,
         FoldReadUser(t) \/ FoldReadOpening(t) \/ FoldReadWallet(t)
  PROVE  Inv'
<1>. USE DEF vars, store, session, refills, process
<1>1. /\ fold[t] \in FoldJobs
      /\ LocalsOK(fold[t])
      /\ fold[t].room \in Rooms
      /\ ~fold[t].cancelled
      /\ \A n \in Rooms : pending[n] # t
  BY EndingIsNotPending DEF FoldReadUser, FoldReadOpening, FoldReadWallet, Ending
<1>2. PICK f \in FoldJobs :
         /\ fold' = [fold EXCEPT ![t] = f]
         /\ LocalsOK(f)
         /\ f.at # "waiting"
         /\ f.at # "idle" => ~f.cancelled
  <2>1. CASE FoldReadUser(t)
    <3>. DEFINE f == [fold[t] EXCEPT !.at = "readOpening", !.acct = balance]
    <3>1. fold' = [fold EXCEPT ![t] = f]
      BY <2>1 DEF FoldReadUser, Inv, TypeOK
    <3>2. balance \in Tokens /\ balance # None
      BY SessionsAssumption DEF Inv, TypeOK, Tokens
    <3>3. /\ f \in FoldJobs
          /\ f.at = "readOpening" /\ f.acct = balance /\ f.room = fold[t].room
          /\ f.cancelled = fold[t].cancelled
      BY <1>1, <3>2 DEF FoldJobs, FoldSteps
    <3>4. LocalsOK(f)
      BY <1>1, <3>2, <3>3 DEF LocalsOK
    <3>. QED
      BY <1>1, <3>1, <3>3, <3>4
  <2>2. CASE FoldReadOpening(t) /\ opening[fold[t].room] # None
    <3>. DEFINE f == [fold[t] EXCEPT !.at = "readWallet", !.opening = opening[fold[t].room]]
    <3>1. fold' = [fold EXCEPT ![t] = f]
      BY <2>2 DEF FoldReadOpening, Inv, TypeOK
    <3>2. opening[fold[t].room] \in Tokens
      BY <1>1 DEF Inv, TypeOK
    <3>3. /\ f \in FoldJobs
          /\ f.at = "readWallet" /\ f.acct = fold[t].acct /\ f.room = fold[t].room
          /\ f.opening = opening[fold[t].room] /\ f.cancelled = fold[t].cancelled
      BY <1>1, <3>2 DEF FoldJobs, FoldSteps
    <3>4. LocalsOK(f)
      BY <1>1, <2>2, <3>3 DEF LocalsOK, FoldReadOpening
    <3>. QED
      BY <1>1, <3>1, <3>3, <3>4
  <2>3. CASE FoldReadWallet(t) /\ wallet[fold[t].room] # None
    <3>. DEFINE f == [fold[t] EXCEPT !.at = "claim", !.current = wallet[fold[t].room]]
    <3>1. fold' = [fold EXCEPT ![t] = f]
      BY <2>3 DEF FoldReadWallet, Inv, TypeOK
    <3>2. wallet[fold[t].room] \in Tokens
      BY <1>1 DEF Inv, TypeOK
    <3>3. /\ f \in FoldJobs
          /\ f.at = "claim" /\ f.acct = fold[t].acct /\ f.room = fold[t].room
          /\ f.opening = fold[t].opening /\ f.current = wallet[fold[t].room]
          /\ f.cancelled = fold[t].cancelled
      BY <1>1, <3>2 DEF FoldJobs, FoldSteps
    <3>4. LocalsOK(f)
      BY <1>1, <2>3, <3>3 DEF LocalsOK, FoldReadWallet
    <3>. QED
      BY <1>1, <3>1, <3>3, <3>4
  <2>4. CASE fold' = [fold EXCEPT ![t] = Idle]
    BY <2>4, IdleIsAJob
  <2>. QED
    BY <2>1, <2>2, <2>3, <2>4 DEF FoldReadOpening, FoldReadWallet
<1>3. UNCHANGED <<balance, session, stake, refills, joining, admitted, sockets, pending, claim, faults>>
  BY DEF FoldReadUser, FoldReadOpening, FoldReadWallet
<1>4. /\ fold' \in [Folds -> FoldJobs]
      /\ \A x \in Folds : LocalsOK(fold'[x])
      /\ PendingNamesItsFold'
  BY <1>1, <1>2, <1>3, FoldMoves
<1>5. TypeOK'
  BY <1>3, <1>4 DEF Inv, TypeOK
<1>. QED
  BY <1>3, <1>4, <1>5, SessionFrame DEF Inv

\* The claim: the fold that finds the opening stake goes on to credit, and the
\* session it ends was live until this step.
LEMMA FoldClaimInv ==
  ASSUME Inv, NEW t \in Folds, FoldClaim(t)
  PROVE  Inv'
<1>. USE DEF vars, store, session, refills, process
<1>. DEFINE m == fold[t].room
            f == [fold[t] EXCEPT !.at = "credit"]
<1>1. /\ fold[t] \in FoldJobs
      /\ LocalsOK(fold[t])
      /\ fold[t].at = "claim"
      /\ m \in Rooms
      /\ ~fold[t].cancelled
      /\ \A n \in Rooms : pending[n] # t
  BY EndingIsNotPending DEF FoldClaim, Ending
<1>2. /\ wallet' \in [Rooms -> Tokens]
      /\ opening' \in [Rooms -> Tokens]
      /\ opening' = [opening EXCEPT ![m] = None]
  BY DEF FoldClaim, Clear, Inv, TypeOK, Tokens
<1>3. /\ fold' \in [Folds -> FoldJobs]
      /\ \A x \in Folds : LocalsOK(fold'[x])
      /\ PendingNamesItsFold'
  <2>1. CASE opening[m] # None
    <3>1. fold' = [fold EXCEPT ![t] = f] /\ pending' = pending
      BY <2>1 DEF FoldClaim
    <3>2. /\ f \in FoldJobs
          /\ f.at = "credit" /\ f.acct = fold[t].acct /\ f.room = m
          /\ f.opening = fold[t].opening /\ f.current = fold[t].current
          /\ f.cancelled = fold[t].cancelled
      BY <1>1 DEF FoldJobs, FoldSteps
    <3>3. LocalsOK(f)
      BY <1>1, <3>2 DEF LocalsOK
    <3>. HIDE DEF f, m
    <3>. QED
      BY <1>1, <3>1, <3>2, <3>3, FoldMoves
  <2>2. CASE opening[m] = None
    BY <1>1, <2>2, FoldReturns DEF FoldClaim
  <2>. QED
    BY <2>1, <2>2
<1>4. folded' \in [Rooms -> 0..MaxSessions] /\ EachSessionFoldedOnce'
  <2>1. /\ begun \in [Rooms -> 0..MaxSessions]
        /\ folded \in [Rooms -> 0..MaxSessions]
        /\ opening \in [Rooms -> Tokens]
        /\ MaxSessions \in Nat
        /\ begun' = begun
    BY SessionsAssumption DEF Inv, TypeOK, FoldClaim
  <2>2. CASE opening[m] # None
    <3>1. folded' = [folded EXCEPT ![m] = @ + 1]
      BY <2>2 DEF FoldClaim
    <3>2. begun[m] = folded[m] + 1
      BY <1>1, <2>2 DEF Inv, EachSessionFoldedOnce
    <3>. QED
      BY <1>1, <1>2, <2>1, <3>1, <3>2 DEF Inv, EachSessionFoldedOnce
  <2>3. CASE opening[m] = None
    BY <1>1, <1>2, <2>1, <2>3 DEF FoldClaim, Inv, EachSessionFoldedOnce
  <2>. QED
    BY <2>2, <2>3
<1>5. TypeOK'
  BY <1>2, <1>3, <1>4 DEF Inv, TypeOK, FoldClaim
<1>. QED
  BY <1>3, <1>4, <1>5 DEF Inv

LEMMA FoldCreditInv ==
  ASSUME Inv, NEW t \in Folds, FoldCredit(t)
  PROVE  Inv'
<1>. USE DEF vars, store, session, refills, process
<1>1. LocalsOK(fold[t]) /\ fold[t] \in FoldJobs /\ \A n \in Rooms : pending[n] # t
  BY EndingIsNotPending DEF FoldCredit, Ending
<1>2. fold[t].acct \in Nat /\ fold[t].opening \in Nat /\ fold[t].current \in Nat
  BY <1>1 DEF FoldCredit, LocalsOK, FoldJobs, Tokens
<1>3. SessionResult(t) \in Nat
  BY <1>2 DEF SessionResult, Delta
<1>4. /\ fold' \in [Folds -> FoldJobs]
      /\ \A x \in Folds : LocalsOK(fold'[x])
      /\ PendingNamesItsFold'
  BY <1>1, FoldReturns DEF FoldCredit
<1>5. TypeOK'
  BY <1>3, <1>4 DEF Inv, TypeOK, FoldCredit
<1>. QED
  BY <1>4, <1>5, SessionFrame DEF Inv, FoldCredit

-----------------------------------------------------------------------------
(***************************************************************************)
(* Refills and failures.                                                   *)
(***************************************************************************)
LEMMA AnswerType ==
  ASSUME Inv, NEW k \in Claims,
         NEW at \in {"allow", "topUp", "revoke", "credited", "refused", "failed"}, Answer(k, at)
  PROVE  claim' \in [Claims -> ClaimJobs]
<1>1. [claim[k] EXCEPT !.at = at] \in ClaimJobs
  BY DEF Inv, TypeOK, ClaimJobs
<1>. QED
  BY <1>1 DEF Answer, Inv, TypeOK

\* Every set of instants has a first one.
LEMMA Earliest ==
  ASSUME NEW S, S \subseteq Nat, S # {}
  PROVE  \E x \in S : \A y \in S : x <= y
<1>. DEFINE R == {ss \in Nat \X Nat : ss[1] < ss[2]}
<1>1. IsWellFoundedOn(R, Nat)
  BY NatLessThanWellFounded DEF OpToRel
<1>. HIDE DEF R
<1>2. PICK x \in S : \A y \in S : ~ (<<y, x>> \in R)
  BY <1>1, WFMin
<1>3. \A y \in S : ~ (y < x)
  BY <1>2 DEF R
<1>. QED
  BY <1>2, <1>3

\* A log stays a log, and the retry hint is an instant.
LEMMA LimiterType ==
  ASSUME Inv, NEW k \in Claims
  PROVE  LET live == Prune(log, now, RefillWindow)
         IN  /\ live \in [Claims -> Tokens]
             /\ Admit(live, k, now) \in [Claims -> Tokens]
             /\ Remove(log, k) \in [Claims -> Tokens]
             /\ Members(live) \subseteq Claims
             /\ RetryAt(live, now, RefillWindow) \in Nat
<1>. DEFINE live == Prune(log, now, RefillWindow)
            instants == {live[x] : x \in Members(live)}
<1>1. live \in [Claims -> Tokens]
  BY DEF Inv, TypeOK, Tokens, Prune
<1>2. Admit(live, k, now) \in [Claims -> Tokens]
  BY <1>1 DEF Inv, TypeOK, Tokens, Admit
<1>3. Remove(log, k) \in [Claims -> Tokens]
  BY DEF Inv, TypeOK, Tokens, Remove
<1>. HIDE DEF live
<1>4. Members(live) \subseteq Claims /\ instants \subseteq Nat
  BY <1>1 DEF Members, Tokens
<1>5. RetryAt(live, now, RefillWindow) \in Nat
  <2>1. now \in Nat /\ RefillWindow \in Nat
    BY SessionsAssumption DEF Inv, TypeOK
  <2>2. CASE Members(live) = {}
    BY <2>1, <2>2 DEF RetryAt, ResetAt
  <2>3. CASE Members(live) # {}
    <3>1. \E x \in instants : \A y \in instants : x <= y
      BY <1>4, <2>3, Earliest
    <3>2. (CHOOSE x \in instants : \A y \in Members(live) : x <= live[y]) \in Nat
      BY <1>4, <3>1
    <3>. QED
      BY <2>1, <2>3, <3>2 DEF RetryAt, ResetAt
  <2>. QED
    BY <2>2, <2>3
<1>. QED
  BY <1>1, <1>2, <1>3, <1>4, <1>5 DEF live

LEMMA RefillInv ==
  ASSUME Inv, NEW k \in Claims, Refill(k)
  PROVE  Inv'
<1>. USE DEF vars, store, session, refills, process
<1>1. claim' \in [Claims -> ClaimJobs]
  <2>0. claim \in [Claims -> ClaimJobs] /\ now \in Tokens
    BY DEF Inv, TypeOK, Tokens
  <2>1. CASE ClaimCheck(k)
    <3>1. balance \in Tokens
      BY DEF Inv, TypeOK, Tokens
    <3>. QED
      BY <2>0, <2>1, <3>1 DEF ClaimCheck, Claim, ClaimJobs, Tokens
  <2>2. CASE ClaimAllow(k)
    <3>. DEFINE live == Prune(log, now, RefillWindow)
                retry == RetryAt(live, now, RefillWindow)
    <3>1. Members(live) \subseteq Claims /\ retry \in Tokens
      BY LimiterType DEF Tokens
    <3>2. \/ claim' = [claim EXCEPT ![k].at = "denied", ![k].blockers = Members(live),
                                   ![k].time = retry]
          \/ claim' = [claim EXCEPT ![k].at = "topUp", ![k].time = now]
      BY <2>2 DEF ClaimAllow
    <3>. HIDE DEF live, retry
    <3>. QED
      BY <2>0, <3>1, <3>2 DEF ClaimJobs
  <2>3. CASE TopUp(k)
    BY <2>3, AnswerType DEF TopUp
  <2>4. CASE Revoke(k)
    <3>1. claim' = [claim EXCEPT ![k].at = "refused", ![k].time = None]
      BY <2>4 DEF Revoke
    <3>2. [claim[k] EXCEPT !.at = "refused", !.time = None] \in ClaimJobs
      <4>1. claim[k] \in ClaimJobs /\ None \in Tokens
        BY <2>0 DEF Tokens
      <4>. QED
        BY <4>1 DEF ClaimJobs
    <3>. QED
      BY <2>0, <3>1, <3>2
  <2>. QED
    BY <2>1, <2>2, <2>3, <2>4 DEF Refill
<1>2. balance' \in Nat /\ UNCHANGED now
  BY SessionsAssumption DEF Inv, TypeOK, Refill, ClaimCheck, ClaimAllow, TopUp, Revoke
<1>3. log' \in [Claims -> Tokens] /\ expires' \in Tokens
  <2>1. now + RefillWindow \in Tokens
    BY SessionsAssumption DEF Inv, TypeOK, Tokens
  <2>. QED
    BY <2>1, LimiterType DEF Inv, TypeOK, Refill, ClaimCheck, ClaimAllow, TopUp, Revoke
<1>4. UNCHANGED <<session, stake, joining, admitted, sockets, pending, fold, faults>>
  BY DEF Refill, ClaimCheck, ClaimAllow, TopUp, Revoke
<1>5. TypeOK'
  BY <1>1, <1>2, <1>3, <1>4 DEF Inv, TypeOK
<1>. QED
  BY <1>4, <1>5, PendingFrame, SessionFrame DEF Inv

LEMMA TickInv ==
  ASSUME Inv, Tick
  PROVE  Inv'
<1>. USE DEF vars, store, session, refills, process
<1>1. now' \in Nat /\ log' \in [Claims -> Tokens] /\ expires' \in Tokens
  BY DEF Inv, TypeOK, Tokens, Tick
<1>2. TypeOK'
  BY <1>1 DEF Inv, TypeOK, Tick
<1>. QED
  BY <1>2, PendingFrame, SessionFrame DEF Inv, Tick

LEMMA CallFailsInv ==
  ASSUME Inv, CallFails
  PROVE  Inv'
<1>. USE DEF vars, store, session, refills, process
<1>1. /\ faults' \in 0..MaxFaults
      /\ UNCHANGED <<store, joining, admitted, sockets, pending>>
  BY SessionsAssumption DEF CallFails, Inv, TypeOK
<1>2. ASSUME NEW t \in Folds, Ending(t), fold' = [fold EXCEPT ![t] = Idle], UNCHANGED claim
      PROVE  Inv'
  <2>1. /\ fold' \in [Folds -> FoldJobs]
        /\ \A x \in Folds : LocalsOK(fold'[x])
        /\ PendingNamesItsFold'
    BY <1>1, <1>2, FoldReturns, EndingIsNotPending
  <2>2. TypeOK'
    BY <1>1, <1>2, <2>1 DEF Inv, TypeOK
  <2>. QED
    BY <1>1, <2>1, <2>2, SessionFrame DEF Inv
<1>3. ASSUME NEW k \in Claims, Answer(k, "failed"), UNCHANGED fold
      PROVE  Inv'
  <2>1. TypeOK'
    BY <1>1, <1>3, AnswerType DEF Inv, TypeOK
  <2>. QED
    BY <1>1, <1>3, <2>1, PendingFrame, SessionFrame DEF Inv
<1>. QED
  BY <1>2, <1>3 DEF CallFails

LEMMA ApiCrashInv ==
  ASSUME Inv, ApiCrash
  PROVE  Inv'
<1>. USE DEF vars, store, session, refills, process
<1>1. claim' \in [Claims -> ClaimJobs]
  <2>1. \A k \in Claims : claim[k] \in ClaimJobs
    BY DEF Inv, TypeOK
  <2>2. \A k \in Claims : [claim[k] EXCEPT !.at = "failed"] \in ClaimJobs
    BY <2>1 DEF ClaimJobs
  <2>3. claim' = [k \in Claims |-> IF UnderWay(k) THEN [claim[k] EXCEPT !.at = "failed"] ELSE claim[k]]
    BY DEF ApiCrash
  <2>. QED
    BY <2>1, <2>2, <2>3
<1>2. faults' \in 0..MaxFaults /\ sockets' \in [Rooms -> 0..MaxSockets]
  BY SessionsAssumption DEF ApiCrash, Inv, TypeOK
<1>3. fold' \in [Folds -> FoldJobs] /\ \A t \in Folds : LocalsOK(fold'[t])
  BY IdleIsAJob DEF ApiCrash
<1>4. TypeOK'
  BY <1>1, <1>2, <1>3 DEF ApiCrash, Inv, TypeOK, Tokens
<1>5. PendingNamesItsFold'
  BY IdleIsAJob, SessionsAssumption DEF ApiCrash, PendingNamesItsFold, Ending
<1>. QED
  BY <1>4, <1>5, SessionFrame DEF Inv, ApiCrash

-----------------------------------------------------------------------------
\* Every step keeps the invariant.
LEMMA NextInv == Inv /\ [Next]_vars => Inv'
<1>. SUFFICES ASSUME Inv, [Next]_vars PROVE Inv'
  OBVIOUS
<1>1. ASSUME NEW m \in Rooms, Visit(m) PROVE Inv'
  BY <1>1, VisitInv, ConnectInv, DisconnectInv DEF Visit
<1>2. ASSUME NEW t \in Folds, FoldStep(t) PROVE Inv'
  BY <1>2, FoldWaitingInv, FoldReadsInv, FoldClaimInv, FoldCreditInv DEF FoldStep
<1>3. ASSUME NEW k \in Claims, Refill(k) PROVE Inv'
  BY <1>3, RefillInv
<1>4. CASE UNCHANGED vars
  <2>1. TypeOK'
    BY <1>4 DEF vars, store, session, refills, process, Inv, TypeOK
  <2>. QED
    BY <1>4, <2>1, PendingFrame, SessionFrame DEF vars, store, session, refills, process, Inv
<1>. QED
  BY <1>1, <1>2, <1>3, <1>4, TickInv, CallFailsInv, ApiCrashInv DEF Next

(***************************************************************************)
(* The three invariants hold together, of any interleaving of joins,       *)
(* sockets, stakes, payouts, folds, refills, failures and crashes.         *)
(***************************************************************************)
THEOREM SessionsInvariant == Spec => []Inv
  BY InitInv, NextInv, PTL DEF Spec

(***************************************************************************)
(* No interleaving makes an account, a wallet or a stake negative, and a   *)
(* fold never credits before it has read what it computes with.            *)
(***************************************************************************)
THEOREM TypeCorrect == Spec => []TypeOK
<1>1. Inv => TypeOK
  BY DEF Inv
<1>. QED
  BY <1>1, SessionsInvariant, PTL

(***************************************************************************)
(* A fold that was resumed or replaced never reaches EndSession, although  *)
(* its timer may beat the cancellation (grace.go 51-71).                   *)
(***************************************************************************)
THEOREM PendingCorrect == Spec => []PendingNamesItsFold
<1>1. Inv => PendingNamesItsFold
  BY DEF Inv
<1>. QED
  BY <1>1, SessionsInvariant, PTL

(***************************************************************************)
(* However many folds are inside EndSession at once, each session is       *)
(* claimed by one of them (room.go ClearSession).                          *)
(***************************************************************************)
THEOREM FoldedOnceCorrect == Spec => []EachSessionFoldedOnce
<1>1. Inv => EachSessionFoldedOnce
  BY DEF Inv
<1>. QED
  BY <1>1, SessionsInvariant, PTL

-----------------------------------------------------------------------------
(***************************************************************************)
(* Refills do not stack.  Where nothing is staked a session is worth what  *)
(* it began with, so a fold gives back what the account had when it was    *)
(* read, provided that the opening stake and the wallet it read are of one *)
(* session: because no other fold can come between (PromptCalls), or       *)
(* because all sessions are worth the same (Cap = 1).  Without either a    *)
(* rejoin between the two reads creates tokens.                            *)
(***************************************************************************)
OneSessionRead == Amounts = {} /\ (PromptCalls \/ Cap = 1)

\* What no balance and no account that was read exceeds.
Bound == IF InitialBalance < RefillTarget THEN RefillTarget ELSE InitialBalance

\* EndSession has read the account and not written it yet.
AcctRead(t) == fold[t].at \in {"readOpening", "readWallet", "claim", "credit"}

\* What a fold goroutine in EndSession has read.
FoldReads(t) ==
  /\ AcctRead(t) => fold[t].acct <= Bound
  /\ fold[t].at = "readWallet" =>
       /\ PromptCalls => opening[fold[t].room] = fold[t].opening
       /\ Cap = 1 => fold[t].opening = 1
  /\ fold[t].at \in {"claim", "credit"} => fold[t].current = fold[t].opening

\* With prompt calls the folds of one room do not overlap.
OneFoldARoom ==
  PromptCalls => \A s, t \in Folds : Ending(s) /\ Ending(t) /\ fold[s].room = fold[t].room => s = t

\* A session is worth what it began with.
Unstaked ==
  /\ \A m \in Rooms : stake[m] = 0 /\ wallet[m] = opening[m]
  /\ Cap = 1 => \A m \in Rooms : opening[m] \in {None, 1}

\* The strengthening of RefillsNeverStack.
NoStacking ==
  /\ RefillsNeverStack
  /\ Unstaked
  /\ OneFoldARoom
  /\ \A t \in Folds : FoldReads(t)

\* Goroutine t is where it was, or has nothing in hand.
SameFold(t) ==
  \/ /\ fold'[t].at = fold[t].at
     /\ fold'[t].room = fold[t].room
     /\ fold'[t].acct = fold[t].acct
     /\ fold'[t].opening = fold[t].opening
     /\ fold'[t].current = fold[t].current
  \/ fold'[t].at \in {"idle", "waiting"}

\* What such a goroutine has read stays good while no session begins or ends.
LEMMA ReadsKept ==
  ASSUME NEW t \in Folds, FoldReads(t), SameFold(t), UNCHANGED opening
  PROVE  FoldReads(t)' /\ (Ending(t)' => Ending(t) /\ fold'[t].room = fold[t].room)
BY DEF FoldReads, SameFold, Ending, AcctRead

\* Steps that move no tokens of a session, and lift the balance no higher than allowed.
LEMMA StackingKept ==
  ASSUME NoStacking, UNCHANGED <<opening, wallet, stake>>, balance' <= Bound,
         \A t \in Folds : SameFold(t)
  PROVE  NoStacking'
<1>1. RefillsNeverStack' /\ Unstaked'
  BY DEF NoStacking, RefillsNeverStack, Unstaked, Bound
<1>. QED
  BY <1>1, ReadsKept DEF NoStacking, OneFoldARoom

\* One goroutine in EndSession moves on.
LEMMA StackingMoves ==
  ASSUME Inv, NoStacking, NEW t \in Folds, Ending(t), UNCHANGED <<opening, wallet, stake, balance>>,
         fold'[t].room = fold[t].room,
         \A s \in Folds \ {t} : fold'[s] = fold[s],
         FoldReads(t)'
  PROVE  NoStacking'
<1>1. RefillsNeverStack' /\ Unstaked'
  BY DEF NoStacking, RefillsNeverStack, Unstaked
<1>2. \A s \in Folds \ {t} : SameFold(s)
  BY DEF SameFold
<1>3. \A s \in Folds : FoldReads(s)'
  BY <1>2, ReadsKept DEF NoStacking
<1>4. OneFoldARoom'
  BY DEF NoStacking, OneFoldARoom, Ending
<1>. QED
  BY <1>1, <1>3, <1>4 DEF NoStacking

\* A player comes and goes: a session begins only where none was, so no fold is between its reads.
LEMMA StackingVisit ==
  ASSUME OneSessionRead, Inv, NoStacking, NEW m \in Rooms, Visit(m)
  PROVE  NoStacking'
<1>. USE DEF store, session, refills, process
<1>0. balance <= Bound
  BY DEF NoStacking, RefillsNeverStack, Bound
<1>1. CASE JoinReadAccount(m)
  BY <1>0, <1>1, StackingKept DEF JoinReadAccount, SameFold
<1>2. CASE JoinRoom(m)
  <2>. DEFINE grant == Lesser(joining[m], Cap)
  <2>1. UNCHANGED <<balance, stake, fold>>
    BY <1>2 DEF JoinRoom
  <2>2. CASE grant = 0
    <3>1. UNCHANGED <<wallet, opening>>
      BY <1>2, <2>2 DEF JoinRoom
    <3>. QED
      BY <1>0, <2>1, <3>1, StackingKept DEF SameFold
  <2>3. CASE grant # 0
    <3>1. /\ wallet' = [wallet EXCEPT ![m] = IF @ = None THEN grant ELSE @]
          /\ opening' = [opening EXCEPT ![m] = IF @ = None THEN grant ELSE @]
          /\ wallet \in [Rooms -> Tokens] /\ opening \in [Rooms -> Tokens]
      BY <1>2, <2>3 DEF JoinRoom, Inv, TypeOK
    <3>2. joining[m] \in Nat
      BY <1>2 DEF JoinRoom, Inv, TypeOK, Tokens
    <3>3. Cap = 1 => grant = 1
      BY <2>3, <3>2 DEF Lesser
    <3>. HIDE DEF grant
    <3>4. /\ \A n \in Rooms : wallet'[n] = opening'[n]
          /\ \A n \in Rooms : opening[n] # None => opening'[n] = opening[n]
          /\ Cap = 1 => \A n \in Rooms : opening'[n] \in {None, 1}
      BY <3>1, <3>3 DEF NoStacking, Unstaked
    <3>5. Unstaked' /\ RefillsNeverStack' /\ OneFoldARoom'
      BY <2>1, <3>4 DEF NoStacking, Unstaked, RefillsNeverStack, OneFoldARoom, Ending
    <3>6. ASSUME NEW t \in Folds  PROVE FoldReads(t)'
      <4>1. fold[t].at = "readWallet" => fold[t].opening # None /\ fold[t].room \in Rooms
        BY IdleIsAJob DEF Inv, TypeOK, LocalsOK
      <4>. QED
        BY <2>1, <3>4, <4>1 DEF NoStacking, FoldReads, AcctRead
    <3>. QED
      BY <3>5, <3>6 DEF NoStacking
  <2>. QED
    BY <2>2, <2>3
<1>3. CASE Connect(m)
  <2>1. /\ UNCHANGED <<opening, wallet, stake, balance>>
        /\ \A t \in Folds : fold'[t] = CancelPending(m)[t]
    BY <1>3 DEF Connect
  <2>2. ASSUME NEW t \in Folds  PROVE SameFold(t)
    <3>1. fold[t] \in FoldJobs
      BY DEF Inv, TypeOK
    <3>2. fold'[t] = fold[t] \/ fold'[t] = [fold[t] EXCEPT !.cancelled = TRUE]
      BY <2>1 DEF CancelPending
    <3>. QED
      BY <3>1, <3>2 DEF FoldJobs, SameFold
  <2>. QED
    BY <1>0, <2>1, <2>2, StackingKept
<1>4. ASSUME NEW t \in Folds, Disconnect(m, t)  PROVE NoStacking'
  <2>1. /\ UNCHANGED <<opening, wallet, stake, balance>>
        /\ fold'[t].at = "waiting"
        /\ \A x \in Folds \ {t} : fold'[x] = CancelPending(m)[x]
    BY <1>4, CancelType DEF Disconnect, Fold
  <2>2. ASSUME NEW x \in Folds \ {t}  PROVE SameFold(x)
    <3>1. fold[x] \in FoldJobs
      BY DEF Inv, TypeOK
    <3>2. fold'[x] = fold[x] \/ fold'[x] = [fold[x] EXCEPT !.cancelled = TRUE]
      BY <2>1 DEF CancelPending
    <3>. QED
      BY <3>1, <3>2 DEF FoldJobs, SameFold
  <2>3. \A x \in Folds : SameFold(x)
    BY <2>1, <2>2 DEF SameFold
  <2>. QED
    BY <1>0, <2>1, <2>3, StackingKept
<1>5. ~\E a \in Amounts : PlaceWager(m, a)
  BY DEF OneSessionRead
<1>6. ~\E c \in 0..MaxTokens : RoundPays(m, c)
  BY DEF NoStacking, Unstaked, RoundPays
<1>. QED
  BY <1>1, <1>2, <1>3, <1>4, <1>5, <1>6 DEF Visit

\* EndSession: what it gives back is what it read of the account.
LEMMA StackingFold ==
  ASSUME OneSessionRead, Inv, NoStacking, NEW t \in Folds, FoldStep(t)
  PROVE  NoStacking'
<1>. USE DEF store, session, refills, process
<1>. DEFINE m == fold[t].room
<1>0. balance <= Bound /\ fold[t] \in FoldJobs /\ LocalsOK(fold[t]) /\ fold \in [Folds -> FoldJobs]
  BY DEF NoStacking, RefillsNeverStack, Bound, Inv, TypeOK
<1>1. CASE FoldCancelled(t)
  <2>1. \A s \in Folds : SameFold(s)
    BY <1>0, <1>1, IdleIsAJob DEF FoldCancelled, SameFold
  <2>. QED
    BY <1>0, <1>1, <2>1, StackingKept DEF FoldCancelled
<1>2. CASE FoldFires(t)
  <2>1. /\ fold[t].at = "waiting" /\ UNCHANGED <<opening, wallet, stake, balance>>
        /\ \A s \in Folds \ {t} : fold'[s] = fold[s]
        /\ PromptCalls => NoFoldUnderWay(m)
    BY <1>0, <1>2 DEF FoldFires
  <2>2. CASE fold'[t] = Idle
    <3>1. \A s \in Folds : SameFold(s)
      BY <2>1, <2>2, IdleIsAJob DEF SameFold
    <3>. QED
      BY <1>0, <2>1, <3>1, StackingKept
  <2>3. CASE fold'[t] = [fold[t] EXCEPT !.at = "readUser"]
    <3>1. fold'[t].at = "readUser" /\ fold'[t].room = m
      BY <1>0, <2>3 DEF FoldJobs
    <3>2. \A s \in Folds \ {t} : SameFold(s)
      BY <2>1 DEF SameFold
    <3>3. \A s \in Folds : FoldReads(s)'
      BY <2>1, <3>1, <3>2, ReadsKept DEF NoStacking, FoldReads, AcctRead
    <3>4. OneFoldARoom'
      BY <2>1, <3>1 DEF NoStacking, OneFoldARoom, NoFoldUnderWay, Ending
    <3>. QED
      BY <2>1, <3>3, <3>4 DEF NoStacking, RefillsNeverStack, Unstaked
  <2>. QED
    BY <1>0, <1>2, <2>2, <2>3 DEF FoldFires
<1>3. CASE FoldReadUser(t)
  <2>1. /\ Ending(t) /\ UNCHANGED <<opening, wallet, stake, balance>>
        /\ \A s \in Folds \ {t} : fold'[s] = fold[s]
        /\ fold'[t].at = "readOpening" /\ fold'[t].room = m /\ fold'[t].acct = balance
    BY <1>0, <1>3 DEF FoldReadUser, Ending, FoldJobs
  <2>2. FoldReads(t)'
    BY <1>0, <2>1 DEF FoldReads, AcctRead
  <2>. QED
    BY <2>1, <2>2, StackingMoves
<1>4. CASE FoldReadOpening(t)
  <2>1. /\ fold[t].at = "readOpening" /\ Ending(t) /\ m \in Rooms
        /\ UNCHANGED <<opening, wallet, stake, balance>>
        /\ \A s \in Folds \ {t} : fold'[s] = fold[s]
    BY <1>0, <1>4, EndingIsNotPending DEF FoldReadOpening, Ending
  <2>2. CASE opening[m] = None
    <3>1. \A s \in Folds : SameFold(s)
      BY <1>0, <1>4, <2>1, <2>2, IdleIsAJob DEF FoldReadOpening, SameFold
    <3>. QED
      BY <1>0, <2>1, <3>1, StackingKept
  <2>3. CASE opening[m] # None
    <3>1. /\ fold'[t].at = "readWallet" /\ fold'[t].room = m /\ fold'[t].acct = fold[t].acct
          /\ fold'[t].opening = opening[m]
      BY <1>0, <1>4, <2>3 DEF FoldReadOpening, FoldJobs
    <3>2. FoldReads(t)'
      BY <2>1, <2>3, <3>1 DEF NoStacking, Unstaked, FoldReads, AcctRead
    <3>. QED
      BY <2>1, <3>1, <3>2, StackingMoves
  <2>. QED
    BY <2>2, <2>3
<1>5. CASE FoldReadWallet(t)
  <2>1. /\ fold[t].at = "readWallet" /\ Ending(t) /\ m \in Rooms
        /\ UNCHANGED <<opening, wallet, stake, balance>>
        /\ \A s \in Folds \ {t} : fold'[s] = fold[s]
    BY <1>0, <1>5, EndingIsNotPending DEF FoldReadWallet, Ending
  <2>2. CASE wallet[m] = None
    <3>1. \A s \in Folds : SameFold(s)
      BY <1>0, <1>5, <2>1, <2>2, IdleIsAJob DEF FoldReadWallet, SameFold
    <3>. QED
      BY <1>0, <2>1, <3>1, StackingKept
  <2>3. CASE wallet[m] # None
    <3>1. /\ fold'[t].at = "claim" /\ fold'[t].room = m /\ fold'[t].acct = fold[t].acct
          /\ fold'[t].opening = fold[t].opening /\ fold'[t].current = wallet[m]
      BY <1>0, <1>5, <2>3 DEF FoldReadWallet, FoldJobs
    <3>2. wallet[m] = fold[t].opening
      BY <2>1, <2>3 DEF OneSessionRead, NoStacking, Unstaked, FoldReads
    <3>3. FoldReads(t)'
      BY <2>1, <3>1, <3>2 DEF NoStacking, FoldReads, AcctRead
    <3>. QED
      BY <2>1, <3>1, <3>3, StackingMoves
  <2>. QED
    BY <2>2, <2>3
<1>6. CASE FoldClaim(t)
  <2>1. /\ fold[t].at = "claim" /\ Ending(t) /\ m \in Rooms
        /\ UNCHANGED <<stake, balance>>
        /\ opening' = [opening EXCEPT ![m] = None]
        /\ wallet' = [wallet EXCEPT ![m] = None]
        /\ \A s \in Folds \ {t} : fold'[s] = fold[s]
        /\ opening \in [Rooms -> Tokens] /\ wallet \in [Rooms -> Tokens]
    BY <1>0, <1>6, EndingIsNotPending DEF FoldClaim, Clear, Ending, Inv, TypeOK
  <2>2. \/ fold'[t] = Idle
        \/ /\ fold'[t].at = "credit" /\ fold'[t].room = m /\ fold'[t].acct = fold[t].acct
           /\ fold'[t].opening = fold[t].opening /\ fold'[t].current = fold[t].current
    BY <1>0, <1>6 DEF FoldClaim, FoldJobs
  <2>3. Unstaked' /\ RefillsNeverStack'
    BY <2>1 DEF NoStacking, Unstaked, RefillsNeverStack
  <2>4. OneFoldARoom'
    <3>1. \A s \in Folds : Ending(s)' => Ending(s) /\ fold'[s].room = fold[s].room
      BY <2>1, <2>2, IdleIsAJob DEF Ending
    <3>. QED
      BY <3>1 DEF NoStacking, OneFoldARoom
  <2>5. FoldReads(t)'
    BY <2>1, <2>2, IdleIsAJob DEF NoStacking, FoldReads, AcctRead
  <2>6. ASSUME NEW s \in Folds \ {t}  PROVE FoldReads(s)'
    <3>1. CASE fold[s].at = "readWallet"
      <4>1. Ending(s) /\ fold[s].room \in Rooms
        BY <3>1, EndingIsNotPending DEF Ending
      <4>2. PromptCalls => fold[s].room # m
        BY <2>1, <4>1 DEF NoStacking, OneFoldARoom
      <4>. QED
        BY <2>1, <3>1, <4>1, <4>2 DEF NoStacking, FoldReads, AcctRead
    <3>2. CASE fold[s].at # "readWallet"
      BY <2>1, <3>2 DEF NoStacking, FoldReads, AcctRead
    <3>. QED
      BY <3>1, <3>2
  <2>. QED
    BY <2>3, <2>4, <2>5, <2>6 DEF NoStacking
<1>7. CASE FoldCredit(t)
  <2>1. /\ fold[t].at = "credit" /\ UNCHANGED <<opening, wallet, stake>>
        /\ balance' = SessionResult(t)
    BY <1>7 DEF FoldCredit
  <2>2. /\ fold[t].acct \in Nat /\ fold[t].current \in Nat /\ fold[t].opening \in Nat
        /\ fold[t].acct <= Bound /\ fold[t].current = fold[t].opening
    BY <1>0, <2>1 DEF LocalsOK, FoldJobs, Tokens, NoStacking, FoldReads, AcctRead
  <2>3. balance' <= Bound
    BY <2>1, <2>2 DEF SessionResult, Delta
  <2>4. \A s \in Folds : SameFold(s)
    BY <1>0, <1>7, IdleIsAJob DEF FoldCredit, SameFold
  <2>. QED
    BY <2>1, <2>3, <2>4, StackingKept
<1>. QED
  BY <1>1, <1>2, <1>3, <1>4, <1>5, <1>6, <1>7 DEF FoldStep

\* Every step keeps the strengthening.
LEMMA StackingStep ==
  ASSUME OneSessionRead, Inv, NoStacking, [Next]_vars
  PROVE  NoStacking'
<1>. USE DEF vars, store, session, refills, process
<1>0. /\ balance <= Bound /\ RefillTarget <= Bound
      /\ UNCHANGED fold => \A t \in Folds : SameFold(t)
  BY SessionsAssumption DEF NoStacking, RefillsNeverStack, Bound, SameFold
<1>1. ASSUME NEW k \in Claims, Refill(k)  PROVE NoStacking'
  <2>1. UNCHANGED <<opening, wallet, stake, fold>> /\ balance' \in {balance, RefillTarget}
    BY <1>1 DEF Refill, ClaimCheck, ClaimAllow, TopUp, Revoke
  <2>. QED
    BY <1>0, <2>1, StackingKept
<1>2. CASE Tick
  BY <1>0, <1>2, StackingKept DEF Tick
<1>3. CASE CallFails \/ ApiCrash
  <2>1. /\ UNCHANGED <<opening, wallet, stake, balance>>
        /\ \A t \in Folds : fold'[t] = fold[t] \/ fold'[t] = Idle
    BY <1>3 DEF CallFails, ApiCrash, Inv, TypeOK
  <2>2. \A t \in Folds : SameFold(t)
    BY <2>1, IdleIsAJob DEF SameFold
  <2>. QED
    BY <1>0, <2>1, <2>2, StackingKept
<1>4. CASE UNCHANGED vars
  BY <1>0, <1>4, StackingKept
<1>. QED
  BY <1>1, <1>2, <1>3, <1>4, StackingVisit, StackingFold DEF Next

(***************************************************************************)
(* However many refill claims saw the same low balance, and whatever folds *)
(* overwrite meanwhile, they lift the account to the target and no further *)
(* (top_up_balance.lua, account/service.go ClaimRefill).                   *)
(***************************************************************************)
THEOREM NoStackingCorrect == OneSessionRead => (Spec => []RefillsNeverStack)
<1>. SUFFICES ASSUME OneSessionRead  PROVE Spec => []RefillsNeverStack
  OBVIOUS
<1>1. Init => NoStacking
  BY IdleIsAJob, SessionsAssumption
     DEF Init, NoStacking, RefillsNeverStack, Unstaked, OneFoldARoom, FoldReads, AcctRead, Ending
<1>2. Inv /\ NoStacking /\ [Next]_vars => NoStacking'
  BY StackingStep
<1>3. NoStacking => RefillsNeverStack
  BY DEF NoStacking
<1>. QED
  BY <1>1, <1>2, <1>3, SessionsInvariant, PTL DEF Spec

-----------------------------------------------------------------------------
(***************************************************************************)
(* The refill quota, for any number of claims, any window and any quota.   *)
(* The limiter's log forgets: the script prunes it and Redis expires it.   *)
(* The argument is that it forgets no admission that still counts, so that *)
(* the log a claim finds contains the window that ends now.                *)
(***************************************************************************)

(***************************************************************************)
(* The log and the claims agree: a member is an admitted claim at its own  *)
(* time, which the key outlives by a window, and an admission that is      *)
(* recent is a member.  A claim that was not admitted has no time.         *)
(***************************************************************************)
LogAgrees ==
  /\ \A k \in Claims :
       log[k] # None =>
         /\ k \in Admitted
         /\ log[k] = claim[k].time
         /\ expires # None
         /\ log[k] + RefillWindow <= expires
  /\ \A k \in Admitted :
       /\ claim[k].time <= now
       /\ Recent(k) => log[k] = claim[k].time
  /\ \A k \in InState({"new", "allow", "refused"}) : claim[k].time = None

\* Claims, log and clock, typed.
LEMMA ClaimType ==
  ASSUME Inv
  PROVE  /\ claim \in [Claims -> ClaimJobs]
         /\ log \in [Claims -> Tokens]
         /\ now \in Nat
         /\ expires \in Tokens
         /\ RefillWindow \in Nat \ {0}
         /\ RefillQuota \in Nat
         /\ None \notin Nat
         /\ \A k \in Claims : claim[k].time \in Tokens
         /\ \A k \in Admitted : k \in Claims /\ claim[k].time \in Nat
  BY SessionsAssumption DEF Inv, TypeOK, ClaimJobs, Tokens, Admitted, InState

\* No claim was admitted.
LEMMA InitLog == Init => LogAgrees
  BY DEF Init, LogAgrees, Claim, Admitted, InState

\* What leaves the limiter and the claims alone.
LEMMA LogFrame ==
  ASSUME LogAgrees, UNCHANGED <<log, expires, now, claim>>
  PROVE  LogAgrees'
  BY DEF LogAgrees, Admitted, InState, Recent

\* A claim moves on, in its request, without touching the limiter: if it was
\* admitted it stays so, and if not it does not become so.
LEMMA LogMoves ==
  ASSUME Inv, LogAgrees, UNCHANGED refills, claim' \in [Claims -> ClaimJobs],
         \A k \in Claims :
           \/ claim'[k] = claim[k]
           \/ /\ claim'[k].time = claim[k].time
              /\ claim[k].at \in {"allow", "topUp", "revoke"}
              /\ claim'[k].at \in {"credited", "revoke", "failed"}
           \/ claim'[k].time = None /\ claim[k].at = "new"
  PROVE  LogAgrees'
<1>1. \A k \in Claims : k \in Admitted' <=> k \in Admitted
  BY ClaimType DEF LogAgrees, Admitted, InState, ClaimJobs
<1>2. \A k \in Admitted : claim'[k].time = claim[k].time
  BY ClaimType DEF LogAgrees, Admitted, InState, ClaimJobs
<1>3. \A k \in InState({"new", "allow", "refused"})' : claim'[k].time = None
  BY ClaimType DEF LogAgrees, InState, ClaimJobs
<1>. QED
  BY <1>1, <1>2, <1>3, ClaimType DEF LogAgrees, Admitted, InState, Recent, refills

\* What stands in the log after pruning.
LEMMA LiveLog ==
  ASSUME Inv, LogAgrees
  PROVE  LET live == Prune(log, now, RefillWindow)
         IN  /\ live \in [Claims -> Tokens]
             /\ Members(live) \subseteq Claims
             /\ Members(live) = {k \in Admitted : Recent(k)}
             /\ \A k \in Claims : live[k] # None => log[k] # None /\ live[k] = log[k]
  BY ClaimType DEF LogAgrees, Prune, Members, Recent, Admitted, InState, Tokens

\* rate_limit.lua prunes what no window counts any more, and adds the claim it admits.
LEMMA LogAdmits ==
  ASSUME Inv, LogAgrees, NEW k \in Claims, ClaimAllow(k)
  PROVE  LogAgrees'
<1>. DEFINE live == Prune(log, now, RefillWindow)
<1>. USE DEF vars, store, refills
<1>1. /\ live \in [Claims -> Tokens]
      /\ \A x \in Claims : live[x] # None => log[x] # None /\ live[x] = log[x]
      /\ \A x \in Admitted : Recent(x) => live[x] = claim[x].time
  BY LiveLog, ClaimType DEF LogAgrees, Prune, Recent
<1>2. claim[k].at = "allow" /\ k \notin Admitted /\ now' = now
  BY DEF ClaimAllow, Admitted, InState
<1>3. CASE Full(live, RefillQuota)
  <2>1. log' = live /\ expires' = expires
    BY <1>3 DEF ClaimAllow
  <2>2. \A x \in Claims \ {k} : claim'[x] = claim[x]
    BY <1>3, ClaimType DEF ClaimAllow
  <2>3. claim'[k].at = "denied"
    BY <1>3, ClaimType DEF ClaimAllow, ClaimJobs
  <2>4. /\ Admitted' = Admitted
        /\ InState({"new", "allow", "refused"})' \subseteq InState({"new", "allow", "refused"}) \ {k}
    BY <1>2, <2>2, <2>3 DEF Admitted, InState
  <2>5. \A x \in Admitted : x \in Claims /\ x # k /\ claim'[x] = claim[x]
    BY <1>2, <2>2, ClaimType
  <2>6. ASSUME NEW x \in Claims, log'[x] # None
        PROVE  /\ x \in Admitted'
               /\ log'[x] = claim'[x].time
               /\ expires' # None
               /\ log'[x] + RefillWindow <= expires'
    <3>1. log[x] # None /\ log'[x] = log[x]
      BY <1>1, <2>1, <2>6
    <3>. QED
      BY <2>1, <2>4, <2>5, <3>1 DEF LogAgrees
  <2>7. ASSUME NEW x \in Admitted'
        PROVE  claim'[x].time <= now' /\ (Recent(x)' => log'[x] = claim'[x].time)
    BY <1>1, <1>2, <2>1, <2>4, <2>5 DEF LogAgrees, Recent
  <2>8. \A x \in InState({"new", "allow", "refused"})' : claim'[x].time = None
    BY <2>2, <2>4 DEF LogAgrees, InState
  <2>. QED
    BY <2>6, <2>7, <2>8 DEF LogAgrees
<1>4. CASE ~Full(live, RefillQuota)
  <2>1. log' = [live EXCEPT ![k] = now] /\ expires' = now + RefillWindow
    BY <1>4 DEF ClaimAllow, Admit
  <2>2. \A x \in Claims \ {k} : claim'[x] = claim[x]
    BY <1>4, ClaimType DEF ClaimAllow
  <2>3. claim'[k].at = "topUp" /\ claim'[k].time = now
    BY <1>4, ClaimType DEF ClaimAllow, ClaimJobs
  <2>4. /\ \A x \in Claims : x \in Admitted' <=> x = k \/ x \in Admitted
        /\ InState({"new", "allow", "refused"})' \subseteq InState({"new", "allow", "refused"}) \ {k}
    BY <1>2, <2>2, <2>3, ClaimType DEF Admitted, InState
  <2>. HIDE DEF live
  <2>5. ASSUME NEW x \in Claims, log'[x] # None
        PROVE  /\ x \in Admitted'
               /\ log'[x] = claim'[x].time
               /\ expires' # None
               /\ log'[x] + RefillWindow <= expires'
    <3>1. CASE x = k
      BY <1>1, <2>1, <2>3, <2>4, <3>1, ClaimType
    <3>2. CASE x # k
      <4>1. log'[x] = live[x] /\ log[x] # None /\ log'[x] = log[x]
        BY <1>1, <2>1, <2>5, <3>2
      <4>2. x \in Admitted /\ log[x] = claim[x].time /\ claim[x].time <= now
        BY <4>1 DEF LogAgrees
      <4>. QED
        BY <2>1, <2>2, <2>4, <3>2, <4>1, <4>2, ClaimType
    <3>. QED
      BY <3>1, <3>2
  <2>6. ASSUME NEW x \in Admitted'
        PROVE  claim'[x].time <= now' /\ (Recent(x)' => log'[x] = claim'[x].time)
    <3>1. x \in Claims
      BY DEF Admitted, InState
    <3>2. CASE x = k
      BY <1>1, <1>2, <2>1, <2>3, <3>2, ClaimType
    <3>3. CASE x # k
      BY <1>1, <1>2, <2>1, <2>2, <2>4, <3>1, <3>3 DEF LogAgrees, Recent
    <3>. QED
      BY <3>2, <3>3
  <2>7. \A x \in InState({"new", "allow", "refused"})' : claim'[x].time = None
    BY <2>2, <2>4 DEF LogAgrees, InState
  <2>. QED
    BY <2>5, <2>6, <2>7 DEF LogAgrees
<1>. QED
  BY <1>3, <1>4

\* A claim that is revoked gives up its place in the log and its time.
LEMMA LogRevokes ==
  ASSUME Inv, LogAgrees, NEW k \in Claims, Revoke(k)
  PROVE  LogAgrees'
<1>1. /\ log' = [log EXCEPT ![k] = None]
      /\ UNCHANGED <<expires, now>>
      /\ claim'[k].at = "refused" /\ claim'[k].time = None
      /\ \A x \in Claims \ {k} : claim'[x] = claim[x]
  BY ClaimType DEF Revoke, Remove, ClaimJobs
<1>2. \A x \in Claims : x \in Admitted' <=> x # k /\ x \in Admitted
  BY <1>1 DEF Admitted, InState
<1>3. \A x \in InState({"new", "allow", "refused"})' : claim'[x].time = None
  BY <1>1 DEF LogAgrees, InState
<1>4. ASSUME NEW x \in Claims, log'[x] # None
      PROVE  x # k /\ log'[x] = log[x] /\ x \in Admitted'
  BY <1>1, <1>2, <1>4, ClaimType DEF LogAgrees
<1>5. ASSUME NEW x \in Admitted'
      PROVE  claim'[x].time <= now' /\ (Recent(x)' => log'[x] = claim'[x].time)
  <2>1. x \in Claims
    BY DEF Admitted, InState
  <2>2. x # k /\ x \in Admitted /\ claim'[x] = claim[x] /\ log'[x] = log[x]
    BY <1>1, <1>2, <2>1, ClaimType
  <2>. QED
    BY <1>1, <2>2 DEF LogAgrees, Recent
<1>6. ASSUME NEW x \in Claims, log'[x] # None
      PROVE  log'[x] = claim'[x].time /\ expires' # None /\ log'[x] + RefillWindow <= expires'
  BY <1>1, <1>4, <1>6 DEF LogAgrees
<1>. QED
  BY <1>3, <1>4, <1>5, <1>6 DEF LogAgrees

\* The key goes only when a window has passed since its last admission.
LEMMA LogTicks ==
  ASSUME Inv, LogAgrees, Tick
  PROVE  LogAgrees'
<1>1. now' = now + 1 /\ claim' = claim
  BY DEF Tick, process
<1>2. CASE UNCHANGED <<log, expires>>
  BY <1>1, <1>2, ClaimType DEF LogAgrees, Admitted, InState, Recent
<1>3. CASE /\ expires # None
           /\ expires <= now + 1
           /\ log' = [k \in Claims |-> None]
  <2>1. ASSUME NEW k \in Admitted
        PROVE  claim[k].time <= now /\ ~Recent(k)'
    <3>1. k \in Claims /\ claim[k].time \in Nat /\ claim[k].time <= now
      BY ClaimType DEF LogAgrees
    <3>2. Recent(k)' <=> claim[k].time > now + 1 - RefillWindow
      BY <1>1, <3>1, ClaimType DEF Recent
    <3>3. CASE Recent(k)
      <4>1. log[k] = claim[k].time /\ log[k] + RefillWindow <= expires
        BY <3>1, <3>3, ClaimType DEF LogAgrees
      <4>2. expires \in Nat
        BY <1>3, ClaimType DEF Tokens
      <4>. QED
        BY <1>3, <3>1, <3>2, <4>1, <4>2, ClaimType
    <3>4. CASE ~Recent(k)
      BY <3>1, <3>2, <3>4, ClaimType DEF Recent
    <3>. QED
      BY <3>1, <3>3, <3>4
  <2>. QED
    BY <1>1, <1>3, <2>1, ClaimType DEF LogAgrees, Admitted, InState
<1>. QED
  BY <1>2, <1>3 DEF Tick

-----------------------------------------------------------------------------
(***************************************************************************)
(* Every other step leaves the limiter alone and moves a request on at     *)
(* most from one place it can be at to the next.                           *)
(***************************************************************************)
Quiet ==
  /\ UNCHANGED refills
  /\ claim' \in [Claims -> ClaimJobs]
  /\ \A k \in Claims :
       \/ claim'[k] = claim[k]
       \/ /\ claim'[k].time = claim[k].time
          /\ claim[k].at \in {"allow", "topUp", "revoke"}
          /\ claim'[k].at \in {"credited", "revoke", "failed"}
       \/ claim'[k].time = None /\ claim[k].at = "new" /\ claim'[k].at \in {"allow", "refused"}

\* A step leaves the log alone, is one of the limiter's two, or lets time pass.
LEMMA WhatStepsDo ==
  ASSUME Inv, Inv', [Next]_vars
  PROVE  \/ Quiet
         \/ \E k \in Claims : ClaimAllow(k) \/ Revoke(k)
         \/ Tick
<1>. USE DEF vars, store, session, process
<1>0. claim \in [Claims -> ClaimJobs] /\ claim' \in [Claims -> ClaimJobs]
  BY DEF Inv, TypeOK
<1>1. CASE UNCHANGED <<refills, claim>>
  BY <1>0, <1>1 DEF Quiet
<1>2. ASSUME NEW m \in Rooms, Visit(m) PROVE UNCHANGED <<refills, claim>>
  BY <1>2 DEF Visit, JoinReadAccount, JoinRoom, Connect, Disconnect, PlaceWager, RoundPays
<1>3. ASSUME NEW t \in Folds, FoldStep(t) PROVE UNCHANGED <<refills, claim>>
  BY <1>3 DEF FoldStep, FoldCancelled, FoldFires, FoldReadUser, FoldReadOpening, FoldReadWallet,
              FoldClaim, FoldCredit
<1>4. ASSUME NEW k \in Claims, ClaimCheck(k) PROVE Quiet
  <2>1. UNCHANGED refills /\ claim[k].at = "new"
    BY <1>4 DEF ClaimCheck
  <2>2. claim'[k].time = None /\ claim'[k].at \in {"allow", "refused"}
    BY <1>0, <1>4 DEF ClaimCheck, Claim
  <2>3. \A x \in Claims \ {k} : claim'[x] = claim[x]
    BY <1>0, <1>4 DEF ClaimCheck
  <2>. QED
    BY <1>0, <2>1, <2>2, <2>3 DEF Quiet
<1>5. ASSUME NEW k \in Claims, NEW at \in {"credited", "revoke", "failed"}, Answer(k, at),
             claim[k].at \in {"allow", "topUp", "revoke"}, UNCHANGED refills
      PROVE  Quiet
  <2>1. claim'[k].at = at /\ claim'[k].time = claim[k].time
    BY <1>0, <1>5 DEF Answer, ClaimJobs
  <2>2. \A x \in Claims \ {k} : claim'[x] = claim[x]
    BY <1>0, <1>5 DEF Answer
  <2>. QED
    BY <1>0, <1>5, <2>1, <2>2 DEF Quiet
<1>6. ASSUME NEW k \in Claims, TopUp(k) PROVE Quiet
  BY <1>5, <1>6 DEF TopUp
<1>7. CASE CallFails
  <2>1. UNCHANGED refills
    BY <1>7 DEF CallFails
  <2>. QED
    BY <1>1, <1>5, <1>7, <2>1 DEF CallFails, UnderWay
<1>8. CASE ApiCrash
  <2>1. UNCHANGED refills
    BY <1>8 DEF ApiCrash
  <2>2. \A k \in Claims : \/ claim'[k] = claim[k]
                           \/ /\ UnderWay(k)
                              /\ claim'[k].at = "failed"
                              /\ claim'[k].time = claim[k].time
    BY <1>0, <1>8 DEF ApiCrash, ClaimJobs
  <2>. QED
    BY <1>0, <2>1, <2>2 DEF Quiet, UnderWay
<1>. QED
  BY <1>1, <1>2, <1>3, <1>4, <1>6, <1>7, <1>8 DEF Next, Refill

\* Every step keeps them in agreement.
LEMMA LogStep ==
  ASSUME Inv, Inv', LogAgrees, [Next]_vars
  PROVE  LogAgrees'
<1>1. CASE Quiet
  BY <1>1, LogMoves DEF Quiet
<1>. QED
  BY <1>1, WhatStepsDo, LogAdmits, LogRevokes, LogTicks

-----------------------------------------------------------------------------
\* What a part of a set within the quota holds is within it.
LEMMA FewerWithinQuota ==
  ASSUME IsFiniteSet(Claims), NEW S \in SUBSET Claims, NEW T \in SUBSET S,
         NEW q \in Nat, Cardinality(S) <= q
  PROVE  Cardinality(T) <= q
<1>1. IsFiniteSet(S)
  BY FS_Subset
<1>2. IsFiniteSet(T) /\ Cardinality(T) <= Cardinality(S)
  BY <1>1, FS_Subset
<1>. QED
  BY <1>1, <1>2, FS_CardinalityType

\* Without a new admission no window counts more.
LEMMA QuotaKept ==
  ASSUME Inv, LogAgrees, QuotaHolds, IsFiniteSet(Claims), now' \in {now, now + 1},
         \A k \in Admitted' : k \in Admitted /\ claim'[k].time = claim[k].time
  PROVE  QuotaHolds'
<1>. SUFFICES ASSUME NEW t \in 0..now' PROVE Cardinality(Within(t)') <= RefillQuota
  BY DEF QuotaHolds
<1>1. now \in Nat
  BY ClaimType
<1>2. PICK u \in 0..now : Within(t)' \subseteq Within(u)
  <2>1. CASE t \in 0..now
    BY <2>1 DEF Within
  <2>2. CASE t = now + 1
    <3>1. ASSUME NEW k \in Within(t)' PROVE k \in Within(now)
      <4>0. k \in Admitted' /\ claim'[k].time \in (t - RefillWindow + 1)..t
        BY <3>1 DEF Within
      <4>1. k \in Admitted /\ claim[k].time \in (t - RefillWindow + 1)..t
        BY <4>0
      <4>2. claim[k].time <= now
        BY <4>1 DEF LogAgrees
      <4>. QED
        BY <1>1, <2>2, <4>1, <4>2, ClaimType DEF Within
    <3>. QED
      BY <1>1, <3>1
  <2>. QED
    BY <1>1, <2>1, <2>2
<1>3. Within(u) \subseteq Claims /\ Cardinality(Within(u)) <= RefillQuota
  BY DEF Within, Admitted, InState, QuotaHolds
<1>. QED
  BY <1>2, <1>3, FewerWithinQuota, ClaimType

\* A claim is admitted when fewer than the quota stand in the pruned log, which
\* is the window that ends now.
LEMMA QuotaAdmits ==
  ASSUME Inv, LogAgrees, QuotaHolds, IsFiniteSet(Claims), NEW k \in Claims, ClaimAllow(k)
  PROVE  QuotaHolds'
<1>. DEFINE live == Prune(log, now, RefillWindow)
<1>1. now' = now /\ now \in Nat /\ k \notin Admitted
  BY ClaimType DEF ClaimAllow, Admitted, InState
<1>2. CASE Full(live, RefillQuota)
  <2>1. claim'[k].at = "denied" /\ \A x \in Claims \ {k} : claim'[x] = claim[x]
    BY <1>2, ClaimType DEF ClaimAllow, ClaimJobs
  <2>2. \A x \in Admitted' : x \in Admitted /\ claim'[x].time = claim[x].time
    BY <2>1 DEF Admitted, InState
  <2>. QED
    BY <1>1, <2>2, QuotaKept
<1>3. CASE ~Full(live, RefillQuota)
  <2>1. /\ claim'[k].at = "topUp" /\ claim'[k].time = now
        /\ \A x \in Claims \ {k} : claim'[x] = claim[x]
    BY <1>3, ClaimType DEF ClaimAllow, ClaimJobs
  <2>2. \A x \in Admitted' : x = k \/ (x \in Admitted /\ claim'[x].time = claim[x].time)
    BY <2>1 DEF Admitted, InState
  <2>3. SUFFICES ASSUME NEW t \in 0..now PROVE Cardinality(Within(t)') <= RefillQuota
    BY <1>1 DEF QuotaHolds
  <2>4. CASE t < now
    <3>1. Within(t)' \subseteq Within(t)
      BY <1>1, <2>1, <2>2, <2>4 DEF Within
    <3>2. Within(t) \subseteq Claims /\ Cardinality(Within(t)) <= RefillQuota
      BY DEF Within, Admitted, InState, QuotaHolds
    <3>. QED
      BY <3>1, <3>2, FewerWithinQuota, ClaimType
  <2>5. CASE t = now
    <3>. DEFINE S == Members(live)
    <3>1. S \subseteq Claims /\ S = {x \in Admitted : Recent(x)}
      BY LiveLog
    <3>2. ASSUME NEW x \in Within(t)' PROVE x \in S \cup {k}
      <4>1. x = k \/ (x \in Admitted /\ claim[x].time \in (now - RefillWindow + 1)..now)
        BY <2>2, <2>5, <3>2 DEF Within
      <4>. QED
        BY <1>1, <3>1, <4>1, ClaimType DEF Recent
    <3>3. IsFiniteSet(S) /\ Cardinality(S) \in Nat /\ Cardinality(S) < RefillQuota
      BY <1>3, <3>1, FS_Subset, FS_CardinalityType, ClaimType DEF Full
    <3>. HIDE DEF S
    <3>4. Cardinality(S \cup {k}) <= RefillQuota
      <4>1. Cardinality(S \cup {k}) \in {Cardinality(S), Cardinality(S) + 1}
        BY <3>3, FS_AddElement
      <4>. QED
        BY <3>3, <4>1, ClaimType
    <3>. QED
      BY <3>1, <3>2, <3>4, FewerWithinQuota, ClaimType
  <2>. QED
    BY <1>1, <2>4, <2>5
<1>. QED
  BY <1>2, <1>3

\* An admission fits into the window that ends now; no other step admits.
LEMMA QuotaStep ==
  ASSUME Inv, Inv', LogAgrees, QuotaHolds, IsFiniteSet(Claims), [Next]_vars
  PROVE  QuotaHolds'
<1>1. CASE Quiet
  <2>1. \A k \in Admitted' : k \in Admitted /\ claim'[k].time = claim[k].time
    BY <1>1, ClaimType DEF Quiet, LogAgrees, Admitted, InState
  <2>. QED
    BY <1>1, <2>1, QuotaKept DEF Quiet, refills
<1>2. ASSUME NEW k \in Claims, Revoke(k) PROVE QuotaHolds'
  <2>1. claim'[k].time = None /\ \A x \in Claims \ {k} : claim'[x] = claim[x]
    BY <1>2, ClaimType DEF Revoke, ClaimJobs
  <2>2. \A x \in Admitted' : x \in Admitted /\ claim'[x].time = claim[x].time
    BY <2>1 DEF Admitted, InState
  <2>. QED
    BY <1>2, <2>2, QuotaKept DEF Revoke
<1>3. CASE Tick
  <2>1. \A k \in Admitted' : k \in Admitted /\ claim'[k].time = claim[k].time
    BY <1>3 DEF Tick, process, Admitted, InState
  <2>. QED
    BY <1>3, <2>1, QuotaKept DEF Tick
<1>. QED
  BY <1>1, <1>2, <1>3, WhatStepsDo, QuotaAdmits

-----------------------------------------------------------------------------
(***************************************************************************)
(* A denied claim was told when the oldest claim in its way leaves.  That  *)
(* claim never comes back: a request asks the limiter once.                *)
(***************************************************************************)
Past == InState({"topUp", "revoke", "credited", "failed", "refused"})

\* The oldest claim in the way of a denied one gave up its place or leaves by the hint.
HintNamesALeaver ==
  \A k \in InState({"denied"}) :
    /\ claim[k].blockers \subseteq Past
    /\ Cardinality(claim[k].blockers) <= RefillQuota
    /\ claim[k].time # None
    /\ \E x \in claim[k].blockers :
         claim[x].time = None \/ claim[x].time + RefillWindow <= claim[k].time

\* Requests that are through with the limiter keep their time or lose it.
LEMMA HintKept ==
  ASSUME Inv, HintNamesALeaver,
         \A k \in InState({"denied"})' : k \in InState({"denied"}) /\ claim'[k] = claim[k],
         \A x \in Past : x \in Past' /\ claim'[x].time \in {claim[x].time, None}
  PROVE  HintNamesALeaver'
<1>. SUFFICES ASSUME NEW k \in InState({"denied"})'
              PROVE  /\ claim[k].blockers \subseteq Past'
                     /\ Cardinality(claim[k].blockers) <= RefillQuota
                     /\ claim[k].time # None
                     /\ \E x \in claim[k].blockers :
                          \/ claim'[x].time = None
                          \/ claim'[x].time + RefillWindow <= claim[k].time
  BY DEF HintNamesALeaver
<1>. QED
  BY DEF HintNamesALeaver

\* The hint names the oldest member of a full log.
LEMMA HintGiven ==
  ASSUME Inv, LogAgrees, QuotaHolds, HintNamesALeaver, IsFiniteSet(Claims), RefillQuota # 0,
         NEW k \in Claims, ClaimAllow(k)
  PROVE  HintNamesALeaver'
<1>. DEFINE live == Prune(log, now, RefillWindow)
            instants == {live[x] : x \in Members(live)}
            retry == RetryAt(live, now, RefillWindow)
<1>1. /\ k \notin Past
      /\ \A x \in Claims \ {k} : claim'[x] = claim[x]
      /\ \A x \in Past : x \in Past' /\ claim'[x] = claim[x]
      /\ \A x \in InState({"denied"}) : x \in InState({"denied"})' /\ claim'[x] = claim[x]
  BY ClaimType DEF ClaimAllow, Past, InState
<1>2. CASE ~Full(live, RefillQuota)
  <2>1. claim'[k].at = "topUp"
    BY <1>2, ClaimType DEF ClaimAllow, ClaimJobs
  <2>2. \A x \in InState({"denied"})' : x \in InState({"denied"}) /\ claim'[x] = claim[x]
    BY <1>1, <2>1 DEF InState
  <2>. QED
    BY <1>1, <2>2, HintKept
<1>3. CASE Full(live, RefillQuota)
  <2>1. /\ claim'[k].at = "denied"
        /\ claim'[k].blockers = Members(live)
        /\ claim'[k].time = retry
    BY <1>3, ClaimType DEF ClaimAllow, ClaimJobs
  <2>2. Members(live) = {x \in Admitted : Recent(x)} /\ Members(live) \subseteq Claims
    BY LiveLog
  <2>3. Members(live) \subseteq Past
    BY <2>2 DEF Past, Admitted, InState
  <2>4. Cardinality(Members(live)) <= RefillQuota
    <3>1. Members(live) \subseteq Within(now)
      BY <2>2, ClaimType DEF Within, Recent, LogAgrees
    <3>2. Within(now) \subseteq Claims /\ Cardinality(Within(now)) <= RefillQuota
      BY ClaimType DEF QuotaHolds, Within, Admitted, InState
    <3>. QED
      BY <3>1, <3>2, FewerWithinQuota, ClaimType
  <2>5. \E x \in Members(live) : claim[x].time + RefillWindow <= retry
    <3>0. Cardinality(Members(live)) # 0
      BY <1>3, ClaimType DEF Full
    <3>1. Members(live) # {}
      BY <3>0, FS_EmptySet
    <3>2. ASSUME NEW x \in Members(live)
          PROVE  live[x] = claim[x].time /\ claim[x].time \in Nat
      <4>1. x \in Admitted /\ x \in Claims /\ log[x] = claim[x].time
        BY <2>2, ClaimType DEF LogAgrees
      <4>2. live[x] # None
        BY DEF Members
      <4>. QED
        BY <4>1, <4>2, LiveLog, ClaimType
    <3>3. instants \subseteq Nat /\ instants # {}
      BY <3>1, <3>2
    <3>4. PICK first \in instants : first = CHOOSE t \in instants :
                                              \A x \in Members(live) : t <= live[x]
      <4>1. \E t \in instants : \A y \in instants : t <= y
        BY <3>3, Earliest
      <4>. QED
        BY <4>1
    <3>5. first \in Nat /\ first + RefillWindow <= retry
      <4>1. ResetAt(live, now, RefillWindow) = RefillWindow + first
        BY <3>1, <3>4 DEF ResetAt
      <4>2. first \in Nat
        BY <3>3
      <4>. HIDE DEF live, instants
      <4>. QED
        BY <4>1, <4>2, ClaimType DEF RetryAt
    <3>. QED
      BY <3>2, <3>5
  <2>6. retry # None
    BY LimiterType, ClaimType
  <2>7. InState({"denied"})' = InState({"denied"}) \cup {k}
    BY <1>1, <2>1 DEF InState
  <2>. HIDE DEF live, retry, instants
  <2>8. \A x \in Past : x # k /\ x \in Past' /\ claim'[x] = claim[x]
    BY <1>1
  <2>. QED
    BY <1>1, <2>1, <2>3, <2>4, <2>5, <2>6, <2>7, <2>8 DEF HintNamesALeaver
<1>. QED
  BY <1>2, <1>3

\* Every step keeps the hint true.
LEMMA HintStep ==
  ASSUME Inv, Inv', LogAgrees, QuotaHolds, HintNamesALeaver, IsFiniteSet(Claims),
         RefillQuota # 0, [Next]_vars
  PROVE  HintNamesALeaver'
<1>1. CASE Quiet
  <2>1. \A k \in InState({"denied"})' : k \in InState({"denied"}) /\ claim'[k] = claim[k]
    BY <1>1, ClaimType DEF Quiet, InState
  <2>2. \A x \in Past : x \in Past' /\ claim'[x].time \in {claim[x].time, None}
    BY <1>1, ClaimType DEF Quiet, Past, InState
  <2>. QED
    BY <2>1, <2>2, HintKept
<1>2. ASSUME NEW k \in Claims, Revoke(k) PROVE HintNamesALeaver'
  <2>1. /\ claim[k].at = "revoke"
        /\ claim'[k].at = "refused" /\ claim'[k].time = None
        /\ \A x \in Claims \ {k} : claim'[x] = claim[x]
    BY <1>2, ClaimType DEF Revoke, ClaimJobs
  <2>2. \A x \in InState({"denied"})' : x \in InState({"denied"}) /\ claim'[x] = claim[x]
    BY <2>1 DEF InState
  <2>3. \A x \in Past : x \in Past' /\ claim'[x].time \in {claim[x].time, None}
    BY <2>1 DEF Past, InState
  <2>. QED
    BY <2>2, <2>3, HintKept
<1>3. CASE Tick
  <2>1. claim' = claim
    BY <1>3 DEF Tick, process
  <2>. QED
    BY <2>1, HintKept DEF InState, Past
<1>. QED
  BY <1>1, <1>2, <1>3, WhatStepsDo, HintGiven

-----------------------------------------------------------------------------
(***************************************************************************)
(* Whatever is pruned, expired, handed back or lost half-way, the window   *)
(* that ends now is what stands in the log.                                *)
(***************************************************************************)
THEOREM LogAgreesAlways == Spec => []LogAgrees
<1>1. Inv /\ Inv' /\ LogAgrees /\ [Next]_vars => LogAgrees'
  BY LogStep
<1>. QED
  BY <1>1, InitLog, SessionsInvariant, PTL DEF Spec

(***************************************************************************)
(* A credited refill keeps its slot for a whole window, although Redis     *)
(* expires the key; a claim that credited nothing keeps none, unless it    *)
(* failed between the limiter and its Revoke (account/service.go           *)
(* ClaimRefill).                                                           *)
(***************************************************************************)
THEOREM SlotsCorrect == Spec => []SlotsPayForRefills
<1>1. Inv /\ LogAgrees => SlotsPayForRefills
  <2>. SUFFICES ASSUME Inv, LogAgrees PROVE SlotsPayForRefills
    OBVIOUS
  <2>1. Held = {k \in Admitted : Recent(k)}
    BY LiveLog DEF Held
  <2>. QED
    BY <2>1 DEF SlotsPayForRefills, Admitted, InState, Recent
<1>. QED
  BY <1>1, SessionsInvariant, LogAgreesAlways, PTL

(***************************************************************************)
(* The quota is a hard limit on every stretch as long as the window        *)
(* (rate_limit.lua), for any number of racing claims.                      *)
(***************************************************************************)
THEOREM QuotaCorrect == IsFiniteSet(Claims) => (Spec => []QuotaHolds)
<1>. SUFFICES ASSUME IsFiniteSet(Claims) PROVE Spec => []QuotaHolds
  OBVIOUS
<1>1. Init => QuotaHolds
  <2>. SUFFICES ASSUME Init, NEW t \in 0..now PROVE Cardinality(Within(t)) <= RefillQuota
    BY DEF QuotaHolds
  <2>1. Within(t) = {}
    BY DEF Init, Claim, Within, Admitted, InState
  <2>. QED
    BY <2>1, FS_EmptySet, SessionsAssumption
<1>2. Inv /\ Inv' /\ LogAgrees /\ QuotaHolds /\ [Next]_vars => QuotaHolds'
  BY QuotaStep
<1>. QED
  BY <1>1, <1>2, SessionsInvariant, LogAgreesAlways, PTL DEF Spec

(***************************************************************************)
(* The retry time a denied claim is given is not too early, if the quota   *)
(* is not nothing: with a quota of zero no time is late enough.            *)
(***************************************************************************)
THEOREM RetryAfterCorrect ==
  IsFiniteSet(Claims) /\ RefillQuota # 0 => (Spec => []RetryAfterHonest)
<1>. SUFFICES ASSUME IsFiniteSet(Claims), RefillQuota # 0 PROVE Spec => []RetryAfterHonest
  OBVIOUS
<1>1. Init => HintNamesALeaver
  BY DEF Init, Claim, HintNamesALeaver, InState
<1>2. /\ Inv /\ Inv' /\ LogAgrees /\ QuotaHolds /\ HintNamesALeaver /\ [Next]_vars
      => HintNamesALeaver'
  BY HintStep
<1>3. Inv /\ LogAgrees /\ HintNamesALeaver => RetryAfterHonest
  <2>. SUFFICES ASSUME Inv, LogAgrees, HintNamesALeaver,
                       NEW k \in InState({"denied"}), now >= claim[k].time
                PROVE  Cardinality(claim[k].blockers \cap Held) < RefillQuota
    BY DEF RetryAfterHonest
  <2>. DEFINE B == claim[k].blockers
  <2>1. /\ B \subseteq Past
        /\ Cardinality(B) <= RefillQuota
        /\ claim[k].time \in Nat
    BY ClaimType DEF HintNamesALeaver, InState, Tokens
  <2>2. PICK x \in B : claim[x].time = None \/ claim[x].time + RefillWindow <= claim[k].time
    BY DEF HintNamesALeaver
  <2>3. Held = {y \in Admitted : Recent(y)}
    BY LiveLog DEF Held
  <2>4. x \notin Held
    BY <2>1, <2>2, <2>3, ClaimType DEF Recent
  <2>5. IsFiniteSet(B) /\ Cardinality(B) \in Nat
    BY <2>1, FS_Subset, FS_CardinalityType DEF Past, InState
  <2>. HIDE DEF B
  <2>6. IsFiniteSet(B \ {x}) /\ Cardinality(B \ {x}) = Cardinality(B) - 1
    BY <2>2, <2>5, FS_RemoveElement
  <2>7. B \cap Held \subseteq B \ {x}
    BY <2>4
  <2>8. Cardinality(B \cap Held) <= Cardinality(B \ {x}) /\ IsFiniteSet(B \cap Held)
    BY <2>6, <2>7, FS_Subset
  <2>9. Cardinality(B \cap Held) \in Nat
    BY <2>8, FS_CardinalityType
  <2>. QED
    BY <2>1, <2>5, <2>6, <2>8, <2>9, ClaimType DEF B
<1>. QED
  BY <1>1, <1>2, <1>3, SessionsInvariant, LogAgreesAlways, QuotaCorrect, PTL DEF Spec

-----------------------------------------------------------------------------
(***************************************************************************)
(* When a wallet has its opening stake.  Settlement credits by HINCRBY,    *)
(* which creates the field of a session folded since the wager, and then   *)
(* WalletHasOpening fails; this section shows that nothing else makes it   *)
(* fail, and that it cannot happen to sessions folded with no stake out.   *)
(* The converse, that a session always has its wallet, needs no condition. *)
(***************************************************************************)
OpeningHasWallet == \A m \in Rooms : opening[m] # None => wallet[m] # None

\* What settle_round.lua and refund_round.lua would do if they credited sessions only.
PaysSessions == \A m \in Rooms, c \in Nat : RoundPays(m, c) /\ c # 0 => opening[m] # None

\* What EndSession would do if it waited for the player's rounds.
ClaimsSettled == \A t \in Folds : FoldClaim(t) => stake[fold[t].room] = 0

\* A stake is out only while its session lives.
StakeHasSession == \A m \in Rooms : stake[m] # 0 => opening[m] # None

\* The steps that write a session or a stake are four.
LEMMA SessionStep ==
  ASSUME [Next]_vars
  PROVE  \/ UNCHANGED <<wallet, opening, stake>>
         \/ \E m \in Rooms :
              \/ JoinRoom(m)
              \/ \E a \in Amounts : PlaceWager(m, a)
              \/ \E c \in 0..MaxTokens : RoundPays(m, c)
         \/ \E t \in Folds : FoldClaim(t)
<1>. USE DEF vars, store, session
<1>1. ASSUME NEW m \in Rooms,
             JoinReadAccount(m) \/ Connect(m) \/ \E t \in Folds : Disconnect(m, t)
      PROVE  UNCHANGED <<wallet, opening, stake>>
  BY <1>1 DEF JoinReadAccount, Connect, Disconnect
<1>2. ASSUME NEW t \in Folds, FoldStep(t), ~FoldClaim(t)
      PROVE  UNCHANGED <<wallet, opening, stake>>
  BY <1>2 DEF FoldStep, FoldCancelled, FoldFires, FoldReadUser, FoldReadOpening, FoldReadWallet,
              FoldCredit
<1>3. ASSUME NEW k \in Claims, Refill(k)
      PROVE  UNCHANGED <<wallet, opening, stake>>
  BY <1>3 DEF Refill, ClaimCheck, ClaimAllow, TopUp, Revoke
<1>4. CASE Tick \/ CallFails \/ ApiCrash
  BY <1>4 DEF Tick, CallFails, ApiCrash
<1>. QED
  BY <1>1, <1>2, <1>3, <1>4 DEF Next, Visit

\* What each of the four does to the room it is about.
LEMMA SessionWrites ==
  ASSUME Inv, [Next]_vars, NEW m \in Rooms
  PROVE  \/ UNCHANGED <<wallet[m], opening[m], stake[m]>>
         \/ /\ wallet'[m] # None
            /\ opening'[m] # None
            /\ stake'[m] = stake[m]
         \/ /\ wallet[m] # None
            /\ wallet'[m] # None
            /\ opening'[m] = opening[m]
         \/ /\ \E c \in 0..MaxTokens : RoundPays(m, c) /\ (wallet'[m] = wallet[m] \/ c # 0)
            /\ wallet[m] # None => wallet'[m] # None
            /\ opening'[m] = opening[m]
            /\ stake[m] # 0
            /\ stake'[m] = 0
         \/ /\ \E t \in Folds : FoldClaim(t) /\ fold[t].room = m
            /\ wallet'[m] = None
            /\ opening'[m] = None
            /\ stake'[m] = stake[m]
<1>. USE SessionsAssumption
<1>0. /\ wallet \in [Rooms -> Tokens]
      /\ opening \in [Rooms -> Tokens]
      /\ stake \in [Rooms -> Nat]
      /\ joining \in [Rooms -> Tokens]
  BY DEF Inv, TypeOK
<1>1. ASSUME NEW n \in Rooms, n # m,
             \/ JoinRoom(n)
             \/ \E a \in Amounts : PlaceWager(n, a)
             \/ \E c \in 0..MaxTokens : RoundPays(n, c)
      PROVE  UNCHANGED <<wallet[m], opening[m], stake[m]>>
  BY <1>0, <1>1 DEF JoinRoom, PlaceWager, RoundPays, session
<1>2. CASE JoinRoom(m)
  <2>. DEFINE grant == Lesser(joining[m], Cap)
  <2>1. grant # None
    BY <1>0, <1>2 DEF JoinRoom, Lesser, Tokens
  <2>2. CASE grant = 0
    BY <1>2, <2>2 DEF JoinRoom, session
  <2>3. CASE grant # 0
    <3>1. /\ wallet' = [wallet EXCEPT ![m] = IF @ = None THEN grant ELSE @]
          /\ opening' = [opening EXCEPT ![m] = IF @ = None THEN grant ELSE @]
          /\ stake' = stake
      BY <1>2, <2>3 DEF JoinRoom
    <3>. QED
      BY <1>0, <2>1, <3>1
  <2>. QED
    BY <2>2, <2>3
<1>3. ASSUME NEW a \in Amounts, PlaceWager(m, a)
      PROVE  wallet[m] # None /\ wallet'[m] # None /\ opening'[m] = opening[m]
  <2>1. wallet[m] \in Nat /\ a \in Nat /\ wallet[m] >= a
    BY <1>0, <1>3 DEF PlaceWager, Tokens
  <2>2. wallet'[m] = wallet[m] - a /\ opening' = opening
    BY <1>0, <1>3 DEF PlaceWager
  <2>. QED
    BY <2>1, <2>2
<1>4. ASSUME NEW c \in 0..MaxTokens, RoundPays(m, c)
      PROVE  /\ wallet'[m] = wallet[m] \/ c # 0
             /\ wallet[m] # None => wallet'[m] # None
             /\ opening'[m] = opening[m]
             /\ stake[m] # 0 /\ stake'[m] = 0
  <2>. DEFINE before == IF wallet[m] = None THEN 0 ELSE wallet[m]
  <2>1. before + c \in Nat
    BY <1>0 DEF Tokens
  <2>2. wallet' = [wallet EXCEPT ![m] = IF c = 0 THEN @ ELSE before + c]
    BY <1>4 DEF RoundPays
  <2>3. opening' = opening /\ stake[m] # 0 /\ stake'[m] = 0
    BY <1>0, <1>4 DEF RoundPays
  <2>. QED
    BY <1>0, <2>1, <2>2, <2>3
<1>5. ASSUME NEW t \in Folds, FoldClaim(t)
      PROVE  IF fold[t].room = m THEN wallet'[m] = None /\ opening'[m] = None /\ stake' = stake
                                 ELSE UNCHANGED <<wallet[m], opening[m], stake[m]>>
  BY <1>0, <1>5 DEF FoldClaim, Clear
<1>. QED
  BY <1>1, <1>2, <1>3, <1>4, <1>5, SessionStep

(***************************************************************************)
(* The half of room.go 119-121 that always holds: whatever is folded or    *)
(* paid in between, a session that has an opening stake has a wallet, so   *)
(* that FoldReadWallet's early return is never taken by a live session.    *)
(***************************************************************************)
THEOREM OpeningKeepsWallet == Spec => []OpeningHasWallet
<1>1. Init => OpeningHasWallet
  BY DEF Init, OpeningHasWallet
<1>2. Inv /\ OpeningHasWallet /\ [Next]_vars => OpeningHasWallet'
  BY SessionWrites DEF OpeningHasWallet
<1>. QED
  BY <1>1, <1>2, SessionsInvariant, PTL DEF Spec

(***************************************************************************)
(* The other half holds of every run in which a round pays only players    *)
(* whose session still lives: HINCRBY on a cleared field is the only thing *)
(* that breaks it.                                                         *)
(***************************************************************************)
THEOREM WalletUnlessResurrected == Spec /\ [][PaysSessions]_vars => []WalletHasOpening
<1>1. Init => WalletHasOpening
  BY DEF Init, WalletHasOpening
<1>2. Inv /\ WalletHasOpening /\ [Next]_vars /\ [PaysSessions]_vars => WalletHasOpening'
  <2>. SUFFICES ASSUME Inv, WalletHasOpening, [Next]_vars, [PaysSessions]_vars,
                       NEW m \in Rooms, wallet'[m] # None
                PROVE  opening'[m] # None
    BY DEF WalletHasOpening
  <2>1. CASE UNCHANGED vars
    BY <2>1 DEF vars, store, session, WalletHasOpening
  <2>2. ASSUME NEW c \in 0..MaxTokens, RoundPays(m, c), c # 0, PaysSessions
        PROVE  opening[m] # None
    <3>1. c \in Nat
      BY SessionsAssumption
    <3>. QED
      BY <2>2, <3>1 DEF PaysSessions
  <2>. QED
    BY <2>1, <2>2, SessionWrites DEF WalletHasOpening
<1>. QED
  BY <1>1, <1>2, SessionsInvariant, PTL DEF Spec

(***************************************************************************)
(* A fold that claims a session only once its stakes are settled is enough *)
(* for that: then the wallet and the opening stake always come and go      *)
(* together, as JoinRoom's and ClearSession's comments say they do.        *)
(***************************************************************************)
THEOREM WalletIfSettledFirst == Spec /\ [][ClaimsSettled]_vars => []WalletHasOpening
<1>1. Init => WalletHasOpening /\ StakeHasSession
  BY DEF Init, WalletHasOpening, StakeHasSession
<1>2. Inv /\ WalletHasOpening /\ StakeHasSession /\ [Next]_vars /\ [ClaimsSettled]_vars
      => WalletHasOpening' /\ StakeHasSession'
  <2>. SUFFICES ASSUME Inv, WalletHasOpening, StakeHasSession, [Next]_vars,
                       [ClaimsSettled]_vars, NEW m \in Rooms
                PROVE  /\ wallet'[m] # None => opening'[m] # None
                       /\ stake'[m] # 0 => opening'[m] # None
    BY DEF WalletHasOpening, StakeHasSession
  <2>1. CASE UNCHANGED vars
    BY <2>1 DEF vars, store, session, WalletHasOpening, StakeHasSession
  <2>2. ASSUME NEW t \in Folds, FoldClaim(t), fold[t].room = m, ClaimsSettled
        PROVE  stake[m] = 0
    BY <2>2 DEF ClaimsSettled
  <2>. QED
    BY <2>1, <2>2, SessionWrites DEF WalletHasOpening, StakeHasSession
<1>. QED
  BY <1>1, <1>2, SessionsInvariant, PTL DEF Spec
=============================================================================
