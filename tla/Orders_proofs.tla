---------------------------- MODULE Orders_proofs ----------------------------
(***************************************************************************)
(* The orders that are run one by one, and the pools they are run against. *)
(*                                                                         *)
(* Spec => []OwnChainUnbroken: left alone, the order executor runs each    *)
(* order against the newest state of the pool, for any set of orders,      *)
(* either repository, any number of cancellations, and however far the     *)
(* tracking stream is behind. The property is about one stage of one order.*)
(* The invariant says what the repository has to know for it: of every     *)
(* state the executor has made the predecessor, and the last one as the    *)
(* prediction, whatever the stream has put in since.                       *)
(*                                                                         *)
(* Of a pool that swaps and orders work on (PoolTrading): that what was    *)
(* signed once is done once, that every claim on the pool can be paid, that*)
(* its output reads back as the pool, that the owner of an order gets all  *)
(* of it but the fee, and that no share of a constant-product pool is ever *)
(* worth less. The first is an invariant on the nonces; the others rest on *)
(* the one of SoundPools, kept by a swap of each kind of pool and by each  *)
(* kind of order.                                                          *)
(***************************************************************************)
EXTENDS OrderExecutor, SoundPools, FiniteSetTheorems, WellFoundedInduction, TLAPS

(* The chain of an undisturbed pool is the versions 1, 2, ..., made by the *)
(* executor one after the other.                                           *)
OwnChain ==
    /\ chain \in Seq(Version)
    /\ Len(chain) = nextVersion - 1
    /\ nextVersion \in 2..MaxVersion + 1
    /\ \A k \in 1..Len(chain) : chain[k] = k
    /\ settled \in 1..Len(chain)

(* The stream is told of states that exist, forward only.                  *)
EventsForward ==
    /\ events \in Seq([ch : {"ledger", "mempool"}, dir : {"forward"}, old : Nat,
                       new : 1..Len(chain)])

(* The states of the chain the repository knows the executor has made: the *)
(* last one is missing while the answer to its submission is out.          *)
Known(last) ==
    /\ repo.predicted = IF last = 1 THEN Absent ELSE last
    /\ \A k \in 2..last : repo.links[k] = k - 1 /\ k \in repo.store

(* What the stream has put into it.                                        *)
Reported(v) == v \in 0..Len(chain) /\ (v # Absent => v \in repo.store)

RepoType ==
    repo \in [kind : {"memory", "rocks"}, predicted : Nat, confirmed : Nat, unconfirmed : Nat,
              links : [Version -> Nat], store : SUBSET Version]

(* Where the executor is: with the newest state of the pool, or on the way *)
(* to it.                                                                  *)
Reading == exec.at = "read" /\ exec = [at |-> "read", order |-> exec.order]

Walking ==
    /\ exec.at = "link"
    /\ exec = [at |-> "link", order |-> exec.order, pred |-> Len(chain), anchor |-> exec.anchor]
    /\ exec.anchor \in 1..Len(chain) - 1

Running == exec.at = "run" /\ exec = [at |-> "run", order |-> exec.order, pool |-> Len(chain)]

Submitted ==
    /\ exec.at = "answer"
    /\ exec = [at |-> "answer", order |-> exec.order, pool |-> Len(chain) - 1,
               made |-> Len(chain), spent |-> {}]
    /\ Len(chain) > 1

Rejected ==
    /\ exec.at = "answer"
    /\ exec = [at |-> "answer", order |-> exec.order, pool |-> Len(chain), made |-> Absent,
               spent |-> {"order"}]

Unanswered == Submitted /\ Known(Len(chain) - 1)

UpToDate ==
    /\ exec = Idle \/ Reading \/ Walking \/ Running \/ Rejected
    /\ Known(Len(chain))

Undisturbed ==
    /\ OwnChain
    /\ EventsForward
    /\ RepoType
    /\ Reported(repo.confirmed) /\ Reported(repo.unconfirmed)
    /\ UpToDate \/ Unanswered

IInv ==
    /\ disturbed \in BOOLEAN
    /\ ~disturbed => Undisturbed

-----------------------------------------------------------------------------
(* The repository.                                                         *)

(* A set of positive numbers has a least one.                              *)
LEMMA LeastOf ==
    ASSUME NEW S \in SUBSET Nat, S # {}
    PROVE  \E m \in S : \A w \in S : m <= w
<1> DEFINE Less == {p \in Nat \X Nat : p[1] < p[2]}
<1>1. IsWellFoundedOn(Less, Nat)
    BY NatLessThanWellFounded DEF OpToRel
<1>2. PICK m \in S : \A w \in S : <<w, m>> \notin Less
    <2> HIDE DEF Less
    <2> QED BY <1>1, WFMin
<1>3. ASSUME NEW w \in S PROVE m <= w
    <2>1. <<w, m>> \in Nat \X Nat /\ <<w, m>>[1] = w /\ <<w, m>>[2] = m
        OBVIOUS
    <2>2. ~(w < m)
        BY <1>2, <2>1
    <2> QED BY <2>2
<1> QED BY <1>3

(* Where the links are those of an undisturbed pool, the walk from the     *)
(* last version meets every earlier one: of the versions met past the      *)
(* anchor, the least has the anchor as its predecessor.                    *)
LEMMA LinksReach ==
    ASSUME NEW last \in Version, NEW anchor \in Version, anchor < last, RepoType, Known(last)
    PROVE  IsLinking(repo, last, anchor)
<1> SUFFICES ASSUME NEW met \in SUBSET Version,
                    \A w \in met \cup {last} : Predecessor(repo, w) \in met \cup {Absent}
             PROVE  anchor \in met
    BY DEF IsLinking
<1> DEFINE past == {w \in met \cup {last} : anchor < w}
<1>1. PICK m \in past : \A w \in past : m <= w
    <2>1. \A w \in past : w \in Nat
        BY PoolRepoAssumption DEF Version
    <2>2. last \in past
        OBVIOUS
    <2> HIDE DEF past
    <2> QED BY <2>1, <2>2, LeastOf
<1>2. m \in 2..last
    BY <1>1, PoolRepoAssumption DEF Version
<1>3. Predecessor(repo, m) = m - 1
    BY <1>2 DEF Known, Predecessor, RocksPredecessor, MemPredecessor
<1>4. m - 1 \in met
    BY <1>1, <1>2, <1>3 DEF Absent
<1>5. ~(anchor < m - 1)
    BY <1>1, <1>2, <1>4, PoolRepoAssumption DEF Version
<1>6. m - 1 = anchor
    BY <1>1, <1>2, <1>5, PoolRepoAssumption DEF Version
<1> QED BY <1>4, <1>6

(* What is resolved from the repository is the last version made, if       *)
(* anything is.                                                            *)
LEMMA LastResolved ==
    ASSUME OwnChain, RepoType, Known(Len(chain)),
           Reported(repo.confirmed), Reported(repo.unconfirmed)
    PROVE  LET s == States(repo)
           IN  IF NeedsLinks(s) THEN s.pred = Len(chain) /\ Anchor(s) \in 1..Len(chain) - 1
               ELSE Resolved(s) \in {Absent, Len(chain)}
<1> DEFINE s == States(repo)
<1>1. Len(chain) \in Nat /\ 1 <= Len(chain)
    BY PoolRepoAssumption DEF OwnChain
<1>2. s.conf \in {Absent} \cup 1..Len(chain) /\ s.unconf \in {Absent} \cup 1..Len(chain)
    BY <1>1 DEF States, LastConfirmed, LastUnconfirmed, RocksConfirmed, RocksUnconfirmed,
                MemConfirmed, MemUnconfirmed, Shown, Reported, Absent
<1>3. s.pred = IF Len(chain) = 1 THEN Absent ELSE Len(chain)
    <2>1. CASE Len(chain) = 1
        <3>1. repo.predicted = Absent /\ Absent \notin repo.store
            BY <2>1 DEF Known, RepoType, Version, Absent
        <3> QED BY <3>1, <2>1 DEF States, LastPredicted, RocksPredicted, MemPredicted, Shown
    <2>2. CASE Len(chain) # 1
        <3>1. Len(chain) \in 2..Len(chain)
            <4>1. \A n \in Nat : 1 <= n /\ n # 1 => n \in 2..n
                OBVIOUS
            <4> QED BY <2>2, <1>1, <4>1
        <3>2. /\ repo.predicted = Len(chain) /\ Len(chain) \in repo.store
              /\ repo.links[Len(chain)] = Len(chain) - 1
            BY <2>2, <3>1 DEF Known
        <3> QED BY <3>2, <2>2, <1>1
            DEF States, LastPredicted, RocksPredicted, MemPredicted, Shown, Absent
    <2> QED BY <2>1, <2>2
<1> HIDE DEF s
<1>4. ASSUME NeedsLinks(s) PROVE s.pred = Len(chain) /\ Anchor(s) \in 1..Len(chain) - 1
    BY <1>1, <1>2, <1>3, <1>4 DEF NeedsLinks, Anchor, Absent
<1>5. ASSUME s.conf # Absent PROVE Resolved(s) = Len(chain)
    <2>1. CASE Len(chain) = 1
        <3>1. s.pred = Absent /\ Resolved(s) = Anchor(s)
            BY <1>3, <1>5, <2>1 DEF Resolved
        <3>2. Anchor(s) \in 1..Len(chain)
            BY <1>2, <1>5 DEF Anchor, Absent
        <3> QED BY <2>1, <3>1, <3>2
    <2>2. CASE Len(chain) # 1
        BY <1>1, <1>3, <1>5, <2>2 DEF Resolved, Absent
    <2> QED BY <2>1, <2>2
<1>6. ASSUME s.conf = Absent PROVE Resolved(s) \in {Absent, Len(chain)}
    <2>1. CASE Len(chain) = 1
        <3>1. Resolved(s) = s.unconf
            BY <1>3, <1>6, <2>1 DEF Resolved
        <3> QED BY <1>2, <2>1, <3>1
    <2>2. CASE Len(chain) # 1
        BY <1>1, <1>3, <1>6, <2>2 DEF Resolved, Absent
    <2> QED BY <2>1, <2>2
<1> QED BY <1>4, <1>5, <1>6 DEF s

-----------------------------------------------------------------------------
(* The steps of the node and of the stream.                                *)

(* What the chain, the stream and the repository are is kept where they    *)
(* are.                                                                    *)
LEMMA RestKept ==
    ASSUME OwnChain, EventsForward, RepoType, Reported(repo.confirmed), Reported(repo.unconfirmed),
           UNCHANGED <<chain, settled, nextVersion, events, repo>>
    PROVE  /\ OwnChain' /\ EventsForward' /\ RepoType'
           /\ Reported(repo.confirmed)' /\ Reported(repo.unconfirmed)'
<1>1. OwnChain'
    BY DEF OwnChain
<1>2. EventsForward'
    BY DEF EventsForward
<1>3. RepoType'
    BY DEF RepoType
<1>4. Reported(repo.confirmed)' /\ Reported(repo.unconfirmed)'
    BY DEF Reported
<1> QED BY <1>1, <1>2, <1>3, <1>4

(* So is where the executor is.                                            *)
LEMMA StageKept ==
    ASSUME UpToDate \/ Unanswered, UNCHANGED <<chain, repo, exec>>
    PROVE  UpToDate' \/ Unanswered'
BY DEF UpToDate, Unanswered, Reading, Walking, Running, Submitted, Rejected, Known, Idle

(* The node settles the next state of the pool.                            *)
LEMMA ConfirmKeeps ==
    ASSUME Undisturbed, Confirm
    PROVE  Undisturbed'
<1> USE DEF Undisturbed
<1>1. PICK k \in 1..Len(chain) : k = settled + 1 /\ chain[k] = k /\ Len(chain) \in Nat
    BY DEF OwnChain, Confirm
<1>2. OwnChain'
    BY <1>1 DEF OwnChain, Confirm
<1>3. Update("ledger", "forward", k) \in
          [ch : {"ledger", "mempool"}, dir : {"forward"}, old : Nat, new : 1..Len(chain)]
    <2>1. StateAt(k) = k
        BY <1>1 DEF StateAt, OwnChain
    <2>2. StateAt(k - 1) \in Nat
        BY <1>1 DEF StateAt, OwnChain, Absent
    <2> QED BY <1>1, <2>1, <2>2 DEF Update
<1>4. EventsForward'
    BY <1>1, <1>3 DEF EventsForward, Confirm
<1>5. RepoType' /\ Reported(repo.confirmed)' /\ Reported(repo.unconfirmed)'
    BY DEF RepoType, Reported, Confirm
<1>6. UpToDate' \/ Unanswered'
    BY StageKept DEF Confirm
<1> QED BY <1>2, <1>4, <1>5, <1>6

(* The mempool shows a state that is not settled.                          *)
LEMMA ShowKeeps ==
    ASSUME Undisturbed, Show
    PROVE  Undisturbed'
<1> USE DEF Undisturbed
<1>1. PICK k \in settled + 1..Len(chain) : events' = Append(events, Update("mempool", "forward", k))
    BY DEF Show
<1>2. k \in 1..Len(chain) /\ Len(chain) \in Nat /\ chain[k] = k
    BY DEF OwnChain
<1>3. OwnChain'
    BY DEF OwnChain, Show, nodeVars
<1>4. Update("mempool", "forward", k) \in
          [ch : {"ledger", "mempool"}, dir : {"forward"}, old : Nat, new : 1..Len(chain)]
    <2>1. StateAt(k) = k
        BY <1>2 DEF StateAt, OwnChain
    <2>2. StateAt(k - 1) \in Nat
        BY <1>2 DEF StateAt, OwnChain, Absent
    <2> QED BY <1>2, <2>1, <2>2 DEF Update
<1>5. EventsForward'
    BY <1>1, <1>4 DEF EventsForward, Show, nodeVars
<1>6. RepoType' /\ Reported(repo.confirmed)' /\ Reported(repo.unconfirmed)'
    BY DEF RepoType, Reported, Show, nodeVars
<1>7. UpToDate' \/ Unanswered'
    BY StageKept DEF Show, nodeVars
<1> QED BY <1>3, <1>5, <1>6, <1>7

(* The stream overwrites what is confirmed or unconfirmed, in any order,   *)
(* and touches neither the prediction nor the links.                       *)
LEMMA TrackKeeps ==
    ASSUME Undisturbed, Track
    PROVE  Undisturbed'
<1> USE DEF Undisturbed
<1> DEFINE e == Head(events)
<1>1. e \in [ch : {"ledger", "mempool"}, dir : {"forward"}, old : Nat, new : 1..Len(chain)]
    <2> DEFINE Told == [ch : {"ledger", "mempool"}, dir : {"forward"}, old : Nat,
                        new : 1..Len(chain)]
    <2>1. events \in Seq(Told) /\ events # <<>>
        BY DEF EventsForward, Track
    <2> HIDE DEF Told
    <2>2. e \in Told
        BY <2>1
    <2> QED BY <2>2 DEF Told
<1>2. e.new \in Version /\ e.new # Absent /\ Len(chain) \in 1..MaxVersion
    BY <1>1, PoolRepoAssumption DEF Version, Absent, OwnChain
<1>3. repo' \in {PutConfirmed(repo, e.new), PutUnconfirmed(repo, e.new)}
    BY <1>1, <1>2 DEF Track, Tracked
<1> HIDE DEF e
<1>4. \/ repo' = [repo EXCEPT !.store = @ \cup {e.new}, !.confirmed = e.new]
      \/ repo' = [repo EXCEPT !.store = @ \cup {e.new}, !.unconfirmed = e.new]
    BY <1>3 DEF RepoType, PutConfirmed, PutUnconfirmed, RocksPutConfirmed, RocksPutUnconfirmed,
                MemPutConfirmed, MemPutUnconfirmed
<1>5. /\ repo'.predicted = repo.predicted /\ repo'.links = repo.links
      /\ repo.store \subseteq repo'.store
    BY <1>4 DEF RepoType
<1>6. OwnChain'
    BY DEF OwnChain, Track, nodeVars
<1>7. EventsForward'
    BY DEF EventsForward, Track, nodeVars
<1>8. RepoType'
    <2>1. e.new \in Nat /\ repo.store \cup {e.new} \in SUBSET Version
        BY <1>2 DEF RepoType, Version
    <2>2. CASE repo' = [repo EXCEPT !.store = @ \cup {e.new}, !.confirmed = e.new]
        BY <2>1, <2>2 DEF RepoType
    <2>3. CASE repo' = [repo EXCEPT !.store = @ \cup {e.new}, !.unconfirmed = e.new]
        BY <2>1, <2>3 DEF RepoType
    <2> QED BY <1>4, <2>2, <2>3
<1>9. Reported(repo.confirmed)' /\ Reported(repo.unconfirmed)'
    <2>1. chain' = chain /\ e.new \in 0..Len(chain)
        BY <1>1, <1>2 DEF Track, nodeVars
    <2>2. e.new \in repo'.store /\ repo'.confirmed \in {repo.confirmed, e.new}
          /\ repo'.unconfirmed \in {repo.unconfirmed, e.new}
        BY <1>4 DEF RepoType
    <2> QED BY <1>5, <2>1, <2>2 DEF Reported
<1>10. UpToDate' \/ Unanswered'
    BY <1>5 DEF UpToDate, Unanswered, Reading, Walking, Running, Submitted, Rejected, Known, Idle,
                Track, nodeVars
<1> QED BY <1>6, <1>7, <1>8, <1>9, <1>10

-----------------------------------------------------------------------------
(* The steps of the executor.                                              *)

(* Reading the prediction, or what the stream has put in: the newest state *)
(* either way (pull of box_resolver.rs).                                   *)
LEMMA ReadKeeps ==
    ASSUME Undisturbed, ReadStates
    PROVE  Undisturbed'
<1> USE DEF Undisturbed
<1> DEFINE s == States(repo)
<1>1. UpToDate /\ exec.at = "read"
    BY DEF ReadStates, Unanswered, Submitted
<1>2. IF NeedsLinks(s) THEN s.pred = Len(chain) /\ Anchor(s) \in 1..Len(chain) - 1
      ELSE Resolved(s) \in {Absent, Len(chain)}
    BY <1>1, LastResolved DEF UpToDate
<1>3. exec' = IF NeedsLinks(s)
              THEN [at |-> "link", order |-> exec.order, pred |-> s.pred, anchor |-> Anchor(s)]
              ELSE RunAgainst(Resolved(s))
    BY DEF ReadStates
<1>4. UNCHANGED <<chain, settled, nextVersion, events, repo>>
    BY DEF ReadStates, nodeVars, feedVars
<1> HIDE DEF s
<1>5. CASE NeedsLinks(s)
    <2>1. Walking'
        BY <1>2, <1>3, <1>4, <1>5 DEF Walking
    <2> QED BY <1>1, <1>4, <2>1, RestKept DEF UpToDate, Known
<1>6. CASE ~NeedsLinks(s)
    <2>1. exec' = Idle \/ Running'
        BY <1>2, <1>3, <1>4, <1>6 DEF RunAgainst, Running, Absent
    <2>2. UpToDate'
        BY <1>1, <1>4, <2>1 DEF UpToDate, Known, Idle
    <2> QED BY <1>4, <2>2, RestKept
<1> QED BY <1>5, <1>6

(* Walking back from it finds the state the stream knows.                  *)
LEMMA WalkKeeps ==
    ASSUME Undisturbed, WalkLinks
    PROVE  Undisturbed'
<1> USE DEF Undisturbed
<1>1. UpToDate /\ Walking
    BY DEF WalkLinks, UpToDate, Unanswered, Submitted, Reading, Running, Rejected, Idle
<1>2. UNCHANGED <<chain, settled, nextVersion, events, repo>>
    BY DEF WalkLinks, nodeVars, feedVars
<1>3. exec.pred = Len(chain) /\ exec.anchor \in 1..Len(chain) - 1
    BY <1>1 DEF Walking
<1>4. Len(chain) \in Version /\ exec.anchor \in Version /\ exec.anchor < Len(chain)
    BY <1>3, PoolRepoAssumption DEF OwnChain, Version
<1>5. IsLinking(repo, Len(chain), exec.anchor)
    BY <1>1, <1>4, LinksReach DEF UpToDate
<1>6. exec' = [at |-> "run", order |-> exec.order, pool |-> Len(chain)]
    BY <1>3, <1>4, <1>5, PoolRepoAssumption DEF WalkLinks, RunAgainst, Version, Absent
<1>7. Running'
    BY <1>2, <1>6 DEF Running
<1>8. UpToDate'
    BY <1>1, <1>2, <1>7 DEF UpToDate, Known
<1> QED BY <1>2, <1>8, RestKept

(* An accepted submission makes the next version of the pool, and its      *)
(* prediction is not yet put in.                                           *)
LEMMA SubmitKeeps ==
    ASSUME Undisturbed, Submit
    PROVE  Undisturbed'
<1> USE DEF Undisturbed
<1>1. UpToDate /\ Running
    BY DEF Submit, UpToDate, Unanswered, Submitted, Reading, Walking, Rejected, Idle
<1>2. exec.pool = Len(chain) /\ Len(chain) \in Nat /\ 1 <= Len(chain)
    BY <1>1 DEF Running, OwnChain
<1>3. Current = Len(chain)
    BY <1>2 DEF Current, StateAt, OwnChain
<1>4. UNCHANGED <<settled, events, repo>>
    BY DEF Submit, feedVars
<1>5. CASE Spent = {}
    <2>1. /\ nextVersion = Len(chain) + 1 /\ nextVersion \in Version
          /\ chain' = Append(chain, nextVersion) /\ nextVersion' = nextVersion + 1
        BY <1>2, <1>5, PoolRepoAssumption DEF Submit, OwnChain, Version
    <2>2. /\ chain' \in Seq(Version) /\ Len(chain') = Len(chain) + 1
          /\ \A k \in 1..Len(chain') : chain'[k] = k
        BY <1>2, <2>1 DEF OwnChain
    <2>3. OwnChain'
        <3>1. nextVersion' \in 2..MaxVersion + 1 /\ Len(chain') = nextVersion' - 1
            BY <1>2, <2>1, <2>2, PoolRepoAssumption DEF OwnChain, Version
        <3>2. settled' \in 1..Len(chain')
            BY <1>2, <1>4, <2>2 DEF OwnChain
        <3> QED BY <2>2, <3>1, <3>2 DEF OwnChain
    <2>4. EventsForward'
        <3> DEFINE Told(n) == [ch : {"ledger", "mempool"}, dir : {"forward"}, old : Nat,
                               new : 1..n]
        <3>1. Told(Len(chain)) \subseteq Told(Len(chain'))
            BY <1>2, <2>2
        <3>2. events \in Seq(Told(Len(chain)))
            BY DEF EventsForward
        <3> HIDE DEF Told
        <3>3. events \in Seq(Told(Len(chain')))
            BY <3>1, <3>2
        <3> QED BY <1>4, <3>3 DEF EventsForward, Told
    <2>5. RepoType'
        BY <1>4 DEF RepoType
    <2>6. Reported(repo.confirmed)' /\ Reported(repo.unconfirmed)'
        BY <1>2, <1>4, <2>2 DEF Reported
    <2>7. exec' = [at |-> "answer", order |-> exec.order, pool |-> Len(chain),
                   made |-> Len(chain) + 1, spent |-> {}]
        BY <1>2, <1>5, <2>1 DEF Submit
    <2>8. Submitted'
        BY <1>2, <2>2, <2>7 DEF Submitted
    <2>9. Unanswered'
        <3>1. Len(chain') - 1 = Len(chain)
            BY <1>2, <2>2
        <3>2. Known(Len(chain))
            BY <1>1 DEF UpToDate
        <3> QED BY <1>4, <2>8, <3>1, <3>2 DEF Unanswered, Known
    <2> QED BY <2>3, <2>4, <2>5, <2>6, <2>9
<1>6. CASE Spent # {}
    <2>1. Spent = {"order"}
        BY <1>2, <1>3, <1>6 DEF Spent
    <2>2. UNCHANGED <<chain, nextVersion>>
        BY <1>6 DEF Submit
    <2>3. exec' = [at |-> "answer", order |-> exec.order, pool |-> Len(chain), made |-> Absent,
                   spent |-> {"order"}]
        BY <1>2, <1>6, <2>1 DEF Submit
    <2>4. Rejected'
        BY <2>2, <2>3 DEF Rejected
    <2>5. UpToDate'
        BY <1>1, <1>4, <2>2, <2>4 DEF UpToDate, Known
    <2> QED BY <1>4, <2>2, <2>5, RestKept
<1> QED BY <1>5, <1>6

(* The answer puts it in, with its link.                                   *)
LEMMA AnswerKeeps ==
    ASSUME Undisturbed, Answer
    PROVE  Undisturbed'
<1> USE DEF Undisturbed
<1>1. UNCHANGED <<chain, settled, nextVersion, events>> /\ exec' = Idle
    BY DEF Answer, nodeVars, feedVars
<1>2. \/ UpToDate /\ Rejected
      \/ Unanswered
    BY DEF Answer, UpToDate, Reading, Walking, Running, Idle
<1>3. CASE UpToDate /\ Rejected
    <2>1. repo' = repo
        BY <1>3 DEF Answer, Rejected
    <2>2. UpToDate'
        BY <1>1, <1>3, <2>1 DEF UpToDate, Known, Idle
    <2> QED BY <1>1, <2>1, <2>2, RestKept
<1>4. CASE Unanswered
    <2> DEFINE last == Len(chain)
    <2>1. /\ last \in 2..MaxVersion /\ last \in Version
          /\ exec.made = last /\ exec.pool = last - 1
        BY <1>4, PoolRepoAssumption DEF Unanswered, Submitted, OwnChain, Version
    <2>2. repo' = PutPredicted(repo, last, last - 1)
        BY <2>1 DEF Answer, Absent
    <2> HIDE DEF last
    <2>3. repo' = [repo EXCEPT !.store = @ \cup {last}, !.predicted = last, !.links[last] = last - 1]
        BY <2>2 DEF PutPredicted, RocksPutPredicted, MemPutPredicted, RepoType
    <2>4. /\ repo'.predicted = last
          /\ repo'.links = [repo.links EXCEPT ![last] = last - 1]
          /\ repo'.store = repo.store \cup {last}
          /\ repo'.kind = repo.kind
          /\ repo'.confirmed = repo.confirmed /\ repo'.unconfirmed = repo.unconfirmed
        BY <2>3 DEF RepoType
    <2>5. RepoType'
        <3>1. last \in Nat /\ last - 1 \in Nat /\ repo.store \cup {last} \in SUBSET Version
            BY <2>1 DEF RepoType
        <3>2. [repo.links EXCEPT ![last] = last - 1] \in [Version -> Nat]
            BY <3>1 DEF RepoType
        <3>3. repo' = [kind |-> repo.kind, predicted |-> last, confirmed |-> repo.confirmed,
                       unconfirmed |-> repo.unconfirmed,
                       links |-> [repo.links EXCEPT ![last] = last - 1],
                       store |-> repo.store \cup {last}]
            BY <2>3 DEF RepoType
        <3> QED BY <3>1, <3>2, <3>3 DEF RepoType
    <2>6. Known(last)'
        <3>1. Known(last - 1)
            BY <1>4 DEF Unanswered, last
        <3>2. last # 1 /\ last' = last
            <4>1. last # 1
                BY <2>1
            <4>2. last' = last
                BY <1>1 DEF last
            <4> QED BY <4>1, <4>2
        <3>3. ASSUME NEW k \in 2..last PROVE repo'.links[k] = k - 1 /\ k \in repo'.store
            <4>1. CASE k = last
                BY <2>1, <2>4, <4>1 DEF RepoType
            <4>2. CASE k # last
                <5>1. k \in 2..last - 1
                    BY <2>1, <4>2
                <5>2. repo.links[k] = k - 1 /\ k \in repo.store
                    BY <3>1, <5>1 DEF Known
                <5> QED BY <2>4, <4>2, <5>2 DEF RepoType
            <4> QED BY <4>1, <4>2
        <3> QED BY <2>4, <3>2, <3>3 DEF Known
    <2>7. UpToDate'
        BY <1>1, <2>6 DEF UpToDate, last, Idle
    <2>8. OwnChain' /\ EventsForward'
        BY <1>1 DEF OwnChain, EventsForward
    <2>9. Reported(repo.confirmed)' /\ Reported(repo.unconfirmed)'
        BY <1>1, <2>4 DEF Reported
    <2> QED BY <2>5, <2>7, <2>8, <2>9
<1> QED BY <1>2, <1>3, <1>4

-----------------------------------------------------------------------------

(* At the start the chain is the pool's first version.                     *)
LEMMA Start ==
    Init => IInv
<1> SUFFICES ASSUME Init PROVE IInv
    OBVIOUS
<1>1. chain \in Seq(Version) /\ Len(chain) = 1 /\ chain[1] = 1
    BY PoolRepoAssumption DEF Init, Version
<1>2. OwnChain
    BY <1>1, PoolRepoAssumption DEF OwnChain, Init
<1>3. EventsForward
    BY <1>1 DEF EventsForward, Init, Absent
<1>4. PICK kind \in Kinds : repo = EmptyRepo(kind)
    BY DEF Init
<1>5. RepoType /\ repo.predicted = Absent /\ repo.confirmed = Absent /\ repo.unconfirmed = Absent
    BY <1>4, ExecutorAssumption DEF RepoType, EmptyRepo, Absent
<1>6. Known(Len(chain))
    BY <1>1, <1>5 DEF Known
<1>7. Reported(repo.confirmed) /\ Reported(repo.unconfirmed)
    BY <1>1, <1>5 DEF Reported, Absent
<1> QED BY <1>2, <1>3, <1>5, <1>6, <1>7 DEF IInv, Undisturbed, UpToDate, Init

(* A disturbance is never taken back, and its own step shows it.           *)
LEMMA Step ==
    IInv /\ [Next]_vars => IInv'
<1> SUFFICES ASSUME IInv, [Next]_vars PROVE IInv'
    OBVIOUS
<1>1. CASE Rival \/ RollBack \/ Drop \/ SubmitRefused \/ Crash
    BY <1>1 DEF Rival, RollBack, Drop, SubmitRefused, Crash, Fault, IInv
<1>2. ASSUME ~(Rival \/ RollBack \/ Drop \/ SubmitRefused \/ Crash) PROVE disturbed' = disturbed
    BY <1>2 DEF Next, Executor, Cancel, Confirm, Show, TipReached, Track, Pop, ReadStates, WalkLinks,
                RunFails, Submit, Answer, vars
<1>3. ASSUME ~(Rival \/ RollBack \/ Drop \/ SubmitRefused \/ Crash), Undisturbed PROVE Undisturbed'
    <2> USE <1>3
    <2>1. ASSUME NEW o \in Order, Cancel(o) PROVE Undisturbed'
        <3>1. UNCHANGED <<chain, settled, nextVersion, events, repo, exec>>
            BY <2>1 DEF Cancel, feedVars
        <3> QED BY <3>1, RestKept, StageKept DEF Undisturbed
    <2>2. CASE TipReached \/ UNCHANGED vars
        <3>1. UNCHANGED <<chain, settled, nextVersion, events, repo, exec>>
            BY <2>2 DEF TipReached, vars, nodeVars, feedVars
        <3> QED BY <3>1, RestKept, StageKept DEF Undisturbed
    <2>3. CASE Confirm
        BY <2>3, ConfirmKeeps
    <2>4. CASE Show
        BY <2>4, ShowKeeps
    <2>5. CASE Track
        BY <2>5, TrackKeeps
    <2>6. CASE Pop
        <3>1. UNCHANGED <<chain, settled, nextVersion, events, repo>> /\ exec = Idle
            BY <2>6 DEF Pop, nodeVars, feedVars
        <3>2. UpToDate
            BY <3>1 DEF Undisturbed, Unanswered, Submitted, Idle
        <3>3. Reading'
            BY <2>6 DEF Pop, Reading
        <3>4. UpToDate'
            BY <3>1, <3>2, <3>3 DEF UpToDate, Known
        <3> QED BY <3>1, <3>4, RestKept DEF Undisturbed
    <2>7. CASE ReadStates
        BY <2>7, ReadKeeps
    <2>8. CASE WalkLinks
        BY <2>8, WalkKeeps
    <2>9. CASE RunFails
        <3>1. UNCHANGED <<chain, settled, nextVersion, events, repo>> /\ exec' = Idle
            BY <2>9 DEF RunFails, nodeVars, feedVars
        <3>2. UpToDate
            BY <2>9 DEF RunFails, Undisturbed, Unanswered, Submitted
        <3>3. UpToDate'
            BY <3>1, <3>2 DEF UpToDate, Known, Idle
        <3> QED BY <3>1, <3>3, RestKept DEF Undisturbed
    <2>10. CASE Submit
        BY <2>10, SubmitKeeps
    <2>11. CASE Answer
        BY <2>11, AnswerKeeps
    <2> QED BY <2>1, <2>2, <2>3, <2>4, <2>5, <2>6, <2>7, <2>8, <2>9, <2>10, <2>11
        DEF Next, Executor
<1> QED BY <1>1, <1>2, <1>3 DEF IInv

(* The invariant of the executor.                                          *)
LEMMA Invariance == Spec => []IInv
<1> QED BY Start, Step, PTL DEF Spec

(* What predictions are for (executor.rs): as long as nobody else trades   *)
(* with the pool and nothing fails, no order is run against a state of the *)
(* pool that is spent, however late the mempool and the ledger show ours.  *)
THEOREM OwnChainUnbrokenHolds == Spec => []OwnChainUnbroken
<1>1. IInv => OwnChainUnbroken
    <2> SUFFICES ASSUME IInv, ~disturbed, exec.at = "run" PROVE exec.pool = Current
        BY DEF OwnChainUnbroken
    <2>1. Running /\ OwnChain
        BY DEF IInv, Undisturbed, UpToDate, Unanswered, Submitted, Reading, Walking, Rejected, Idle
    <2>2. exec.pool = Len(chain) /\ Len(chain) \in Nat /\ 1 <= Len(chain)
        BY <2>1 DEF Running, OwnChain
    <2> QED BY <2>1, <2>2 DEF OwnChain, Current, StateAt
<1> QED BY <1>1, Invariance, PTL

-----------------------------------------------------------------------------
(* What is signed is done once.                                            *)

(* What a key holder's datum has been signed for. All signatures of a DAO  *)
(* request are over the same data.                                         *)
NonceOf(d) ==
    IF "out" \in DOMAIN d THEN d.signature.data.nonce ELSE d.signatures[1].data.nonce

(* The two kinds of signed data.                                           *)
RoyaltyDatum(d) ==
    d = [out |-> d.out, fee |-> d.fee, signature |-> d.signature]

(* All signatures of a request of the DAO are over the same data.          *)
DaoDatum(d) ==
    /\ d = [action |-> d.action, terms |-> d.terms, fee |-> d.fee, signatures |-> d.signatures]
    /\ Len(d.signatures) \in Nat
    /\ \A i \in 1..Len(d.signatures) : d.signatures[i].data.nonce = d.signatures[1].data.nonce

(* Signing makes a datum of one of them.                                   *)
LEMMA SignedShape ==
    ASSUME NEW t \in Signatories
    PROVE  /\ t.kind = "royalty" => RoyaltyDatum(Signed(t))
           /\ t.kind # "royalty" => DaoDatum(Signed(t))
<1>1. ASSUME t.kind = "royalty" PROVE RoyaltyDatum(Signed(t))
  BY <1>1 DEF Signed, RoyaltyDatum
<1>2. ASSUME t.kind # "royalty" PROVE DaoDatum(Signed(t))
  <2>1. Len(t.by) \in Nat
    BY PoolTradingAssumption DEF IsRequest
  <2> DEFINE data == [action |-> t.datum.action, terms |-> t.datum.terms,
                      script |-> SignedScript(pool.ver), nonce |-> pool.nonce]
             all == [i \in 1..Len(t.by) |-> [by |-> t.by[i], data |-> data]]
  <2>2. Signed(t) = [action |-> t.datum.action, terms |-> t.datum.terms, fee |-> t.datum.fee,
                     signatures |-> all]
    BY <1>2 DEF Signed
  <2>3. Len(all) = Len(t.by) /\ \A i \in 1..Len(t.by) : all[i].data = data
    BY <2>1
  <2>4. ASSUME NEW i \in 1..Len(t.by) PROVE all[i].data.nonce = all[1].data.nonce
    BY <2>1, <2>3
  <2> HIDE DEF all
  <2> QED
    BY <2>1, <2>2, <2>3, <2>4 DEF DaoDatum
<1> QED
  BY <1>1, <1>2

(* What the identity of a pool is for a signature: its version and nonce.  *)
Marked(p) == {"ver", "nonce"} \subseteq DOMAIN p \/ (p.ver \notin RoyaltyVer /\ "ver" \in DOMAIN p)

(* A step that is not signed for leaves the identity as it is.             *)
SameMark(p, q) == Marked(q) /\ q.ver = p.ver /\ (p.ver \in RoyaltyVer => q.nonce = p.nonce)

(* So does a swap,                                                         *)
LEMMA SwapKeepsMark ==
    ASSUME NEW p, Marked(p), NEW side, NEW amount
    PROVE  SameMark(p, AnySwap(p, side, amount))
<1>1. CASE p.ver \in CfmmVer
  <2>1. SameMark(p, ClassicSwap(p, side, amount))
    BY DEF Marked, SameMark, ClassicSwap
  <2>2. SameMark(p, FeeSwitchSwap(p, side, amount))
    BY DEF Marked, SameMark, ClassicSwap, FeeSwitchSwap
  <2>3. SameMark(p, RoyaltySwap(p, side, amount))
    BY DEF Marked, SameMark, ClassicSwap, FeeSwitchSwap, RoyaltySwap
  <2> QED
    BY <1>1, <2>1, <2>2, <2>3 DEF AnySwap, CfmmSwap
<1>2. CASE p.ver \in BalanceVer
  BY <1>2 DEF AnySwap, BalanceSwap, Marked, SameMark, BalanceVer, CfmmVer, ClassicVer,
             FeeSwitchVer, RoyaltyVer
<1>3. CASE p.ver \in QuadraticVer
  BY <1>3 DEF AnySwap, QuadraticSwap, QuadraticSwapV1, QuadraticSwapT2T, Marked, SameMark,
              QuadraticVer, BalanceVer, CfmmVer, ClassicVer, FeeSwitchVer, RoyaltyVer
<1>4. CASE p.ver \notin CfmmVer \cup BalanceVer \cup QuadraticVer
  BY <1>4 DEF AnySwap, StableSwap, AfterStableTrade, Marked, SameMark, CfmmVer
<1> QED
  BY <1>1, <1>2, <1>3, <1>4

(* a deposit                                                               *)
LEMMA DepositKeepsMark ==
    ASSUME NEW p, Marked(p), NEW o, Succeeded(ApplyDeposit(p, o))
    PROVE  SameMark(p, ApplyDeposit(p, o).pool)
<1> DEFINE in == NetDeposit(o)
           result == AnyDeposit(p, in)
<1>1. ASSUME NEW reward, Deposited(p, in, reward) # Refused
      PROVE  SameMark(p, Deposited(p, in, reward).pool)
  BY <1>1 DEF Deposited, Marked, SameMark
<1>2. result # Refused => SameMark(p, result.pool)
  BY <1>1 DEF AnyDeposit, CfmmDeposit, BalanceDeposit, StableDeposit
<1> HIDE DEF result, in
<1>3. ApplyDeposit(p, o) = IF (\E s \in Side : in[s] < 0) \/ result = Refused THEN Failed("incompatible")
        ELSE [pool |-> result.pool, fee |-> NoFee,
              outputs |-> <<MadeOf(p.native, o.collateral, result.change, result.lq)>>]
  BY DEF ApplyDeposit, in, result
<1> QED
  BY <1>2, <1>3 DEF Succeeded, Failed

(* and a redeem.                                                           *)
LEMMA RedeemKeepsMark ==
    ASSUME NEW p, Marked(p), NEW o, Succeeded(ApplyRedeem(p, o))
    PROVE  SameMark(p, ApplyRedeem(p, o).pool)
<1> DEFINE result == AnyRedeem(p, o.burned)
<1>1. ASSUME NEW shares, Redeemed(p, o.burned, shares) # Refused
      PROVE  SameMark(p, Redeemed(p, o.burned, shares).pool)
  BY <1>1 DEF Redeemed, Marked, SameMark
<1>2. result # Refused => SameMark(p, result.pool)
  BY <1>1 DEF AnyRedeem, CfmmRedeem, BalanceRedeem, StableRedeem
<1> HIDE DEF result
<1>3. ApplyRedeem(p, o) = IF result = Refused THEN Failed("incompatible")
        ELSE [pool |-> result.pool, fee |-> NoFee,
              outputs |-> <<MadeOf(p.native, o.collateral, result.paid, 0)>>]
  BY DEF ApplyRedeem, result
<1> QED
  BY <1>2, <1>3 DEF Succeeded, Failed

(* A withdrawal is signed for the pool's nonce, and counts it up.          *)
LEMMA RoyaltyCounts ==
    ASSUME NEW p, Marked(p), NEW o, Succeeded(ApplyRoyaltyWithdraw(p, o))
    PROVE  /\ p.ver \in RoyaltyVer
           /\ o.signature.data.nonce = p.nonce
           /\ Marked(ApplyRoyaltyWithdraw(p, o).pool)
           /\ ApplyRoyaltyWithdraw(p, o).pool.ver = p.ver
           /\ ApplyRoyaltyWithdraw(p, o).pool.nonce = p.nonce + 1
<1> DEFINE royalty == RoyaltyOf(p, o)
           next == [p EXCEPT !.res = Minus(@, o.out), ![royalty] = Minus(@, o.out), !.nonce = @ + 1]
<1>1. p.ver \in RoyaltyVer /\ royalty # Refused
  BY DEF ApplyRoyaltyWithdraw, Succeeded, Failed
<1>2. ApplyRoyaltyWithdraw(p, o).pool = next
  BY DEF ApplyRoyaltyWithdraw, Succeeded, Failed
<1>3. o.signature.data = RoyaltyDataToSign(o, p.nonce)
  BY <1>1 DEF RoyaltyOf, SignedBy
<1>4. o.signature.data.nonce = p.nonce
  BY <1>3 DEF RoyaltyDataToSign
<1>5. royalty \in {"first", "second"}
  BY <1>1 DEF RoyaltyOf
<1> HIDE DEF royalty
<1>6. Marked(next) /\ next.ver = p.ver /\ next.nonce = p.nonce + 1
  BY <1>1, <1>5 DEF Marked
<1> QED
  BY <1>1, <1>2, <1>4, <1>6

(* So does a request of the DAO, if it takes a signature at all.           *)
LEMMA DaoCounts ==
    ASSUME DaoThreshold > 0, NEW p, Marked(p), NEW o, Succeeded(ApplyDaoRequest(p, o))
    PROVE  /\ p.ver \in RoyaltyVer
           /\ \E i \in 1..Len(o.signatures) : o.signatures[i].data.nonce = p.nonce
           /\ Marked(ApplyDaoRequest(p, o).pool)
           /\ ApplyDaoRequest(p, o).pool.ver = p.ver
           /\ ApplyDaoRequest(p, o).pool.nonce = p.nonce + 1
<1> DEFINE right == {i \in 1..Least(Len(o.signatures), Len(DaoKeys)) :
                        SignedBy(DaoKeys[i], o.signatures[i], DaoDataToSign(o, p))}
           after == AfterDaoAction(p, o)
<1>1. p.ver \in RoyaltyVer /\ after # Refused /\ ~(Cardinality(right) < DaoThreshold)
  BY DEF ApplyDaoRequest, Succeeded, Failed, CorrectSignatures
<1>2. ApplyDaoRequest(p, o).pool = [after EXCEPT !.nonce = @ + 1]
  BY DEF ApplyDaoRequest, Succeeded, Failed
<1>3. right # {}
  BY <1>1, FS_EmptySet, AmmOrdersAssumption
<1>4. PICK i \in right : TRUE
  BY <1>3
<1>5. o.signatures[i].data.nonce = p.nonce
  BY <1>4 DEF SignedBy, DaoDataToSign
<1>6. Least(Len(o.signatures), Len(DaoKeys)) \in {Len(o.signatures), Len(DaoKeys)}
  BY DEF Least
<1>7. i \in 1..Len(o.signatures)
  BY <1>4, <1>6 DEF Least
<1>8. Marked(after) /\ after.ver = p.ver /\ after.nonce = p.nonce /\ "nonce" \in DOMAIN after
  BY <1>1 DEF Marked, AfterDaoAction, WithdrawTreasury
<1> HIDE DEF after
<1>9. Marked([after EXCEPT !.nonce = @ + 1]) /\ [after EXCEPT !.nonce = @ + 1].ver = p.ver
      /\ [after EXCEPT !.nonce = @ + 1].nonce = p.nonce + 1
  BY <1>1, <1>8 DEF Marked
<1> QED
  BY <1>1, <1>2, <1>5, <1>7, <1>9

(* An order on the ledger is an unsigned one, or bears a signed datum of   *)
(* its kind.                                                               *)
RequestBears(r, data) ==
    \/ r.kind \in {"deposit", "redeem"} /\ {"signature", "signatures"} \cap DOMAIN r.datum = {}
    \/ r.kind = "royalty" /\ r.datum \in data /\ RoyaltyDatum(r.datum)
    \/ r.kind = "dao" /\ r.datum \in data /\ DaoDatum(r.datum)

(* Whatever has run was signed for a nonce the pool has left behind.       *)
NonceInv ==
    /\ Marked(pool)
    /\ pool.ver \in RoyaltyVer => pool.nonce \in Nat
    /\ \A d \in signed : RoyaltyDatum(d) \/ DaoDatum(d)
    /\ \A r \in requests : RequestBears(r, signed)
    /\ ran \in Seq(signed)
    /\ \A i \in 1..Len(ran) : NonceOf(ran[i]) \in Nat /\ NonceOf(ran[i]) < pool.nonce
    /\ ran # <<>> => pool.ver \in RoyaltyVer
    /\ SignedOnceRunOnce

(* Running an order: a signed one takes the pool's nonce, and counts it up.*)
LEMMA RunCounts ==
    ASSUME DaoThreshold > 0, NonceInv, NEW r \in requests, Run(r)
    PROVE  IF r.datum \in signed
           THEN /\ pool.ver \in RoyaltyVer /\ NonceOf(r.datum) = pool.nonce
                /\ Marked(pool') /\ pool'.ver = pool.ver /\ pool'.nonce = pool.nonce + 1
           ELSE SameMark(pool, pool')
<1>1. PICK o \in {ParseOrder(r, pool.native)} \ {Refused} :
          Succeeded(Built(pool, utxo, o, r)) /\ pool' = Built(pool, utxo, o, r).pool
  BY DEF Run
<1>2. Succeeded(ApplyOrder(pool, o)) /\ pool' = ApplyOrder(pool, o).pool
  BY <1>1 DEF Built, Balanced, Succeeded, Failed
<1>3. RequestBears(r, signed) /\ Marked(pool)
  BY DEF NonceInv
<1>4. o = ParseOrder(r, pool.native) /\ o # Refused
  BY <1>1
<1>5. CASE r.kind \in {"deposit", "redeem"}
  <2>1. r.datum \notin signed
    BY <1>3, <1>5 DEF RequestBears, NonceInv, RoyaltyDatum, DaoDatum
  <2>2. CASE r.kind = "deposit"
    <3>1. o.kind = "deposit"
      BY <1>4, <2>2 DEF ParseOrder, ParseDeposit
    <3> QED
      BY <1>2, <1>3, <2>1, <3>1, DepositKeepsMark DEF ApplyOrder
  <2>3. CASE r.kind = "redeem"
    <3>1. o.kind = "redeem"
      BY <1>4, <2>3 DEF ParseOrder, ParseRedeem
    <3> QED
      BY <1>2, <1>3, <2>1, <3>1, RedeemKeepsMark DEF ApplyOrder
  <2> QED
    BY <1>5, <2>2, <2>3
<1>6. CASE r.kind = "royalty"
  <2>1. r.datum \in signed /\ NonceOf(r.datum) = r.datum.signature.data.nonce
    BY <1>3, <1>6 DEF RequestBears, RoyaltyDatum, NonceOf
  <2>2. o.kind = "royalty" /\ o.signature = r.datum.signature
    BY <1>4, <1>6 DEF ParseOrder, ParseRoyaltyWithdraw
  <2>3. ApplyOrder(pool, o) = ApplyRoyaltyWithdraw(pool, o)
    BY <2>2 DEF ApplyOrder
  <2> QED
    BY <1>2, <1>3, <2>1, <2>2, <2>3, RoyaltyCounts
<1>7. CASE r.kind = "dao"
  <2>1. r.datum \in signed /\ DaoDatum(r.datum)
        /\ NonceOf(r.datum) = r.datum.signatures[1].data.nonce
    BY <1>3, <1>7 DEF RequestBears, DaoDatum, NonceOf
  <2>2. o.kind = "dao" /\ o.signatures = r.datum.signatures
    BY <1>4, <1>7 DEF ParseOrder, ParseDaoRequest
  <2>3. ApplyOrder(pool, o) = ApplyDaoRequest(pool, o)
    BY <2>2 DEF ApplyOrder
  <2>4. \E i \in 1..Len(r.datum.signatures) : r.datum.signatures[i].data.nonce = pool.nonce
    BY <1>2, <1>3, <2>2, <2>3, DaoCounts
  <2>5. NonceOf(r.datum) = pool.nonce
    BY <2>1, <2>4 DEF DaoDatum
  <2> QED
    BY <1>2, <1>3, <2>1, <2>3, <2>5, DaoCounts
<1> QED
  BY <1>3, <1>5, <1>6, <1>7 DEF RequestBears

(* Running an order keeps the nonces in order: signed data are for the     *)
(* nonce they use up.                                                      *)
LEMMA RunKeepsNonces ==
    ASSUME DaoThreshold > 0, NonceInv, NEW r \in requests, Run(r)
    PROVE  NonceInv'
<1>1. UNCHANGED signed /\ requests' \subseteq requests
  BY DEF Run
<1>2. (\A d \in signed' : RoyaltyDatum(d) \/ DaoDatum(d))
      /\ (\A q \in requests' : RequestBears(q, signed'))
  BY <1>1 DEF NonceInv, RequestBears
<1>3. CASE r.datum \in signed
  <2>1. /\ pool.ver \in RoyaltyVer /\ NonceOf(r.datum) = pool.nonce
        /\ Marked(pool') /\ pool'.ver = pool.ver /\ pool'.nonce = pool.nonce + 1
    BY <1>3, RunCounts
  <2>2. pool.nonce \in Nat
    BY <2>1 DEF NonceInv
  <2>3. ran' = Append(ran, r.datum) /\ ran \in Seq(signed)
    BY <1>3 DEF Run, NonceInv
  <2>4. ran' \in Seq(signed') /\ Len(ran) \in Nat /\ Len(ran') = Len(ran) + 1
    BY <1>1, <1>3, <2>3
  <2>5. \A i \in 1..Len(ran) : ran'[i] = ran[i]
    BY <2>3
  <2>6. ran'[Len(ran')] = r.datum
    BY <2>3, <2>4
  <2>7. \A i \in 1..Len(ran) : NonceOf(ran'[i]) \in Nat /\ NonceOf(ran'[i]) < pool.nonce
    BY <2>5 DEF NonceInv
  <2>8. \A i \in 1..Len(ran') : NonceOf(ran'[i]) \in Nat /\ NonceOf(ran'[i]) < pool'.nonce
    <3> SUFFICES ASSUME NEW i \in 1..Len(ran')
                 PROVE  NonceOf(ran'[i]) \in Nat /\ NonceOf(ran'[i]) < pool'.nonce
      OBVIOUS
    <3>1. CASE i = Len(ran')
      BY <2>1, <2>2, <2>6, <3>1
    <3>2. CASE i # Len(ran')
      <4>1. i \in 1..Len(ran)
        BY <2>4, <3>2
      <4> QED
        BY <2>1, <2>2, <2>7, <4>1
    <3> QED
      BY <3>1, <3>2
  <2>9. SignedOnceRunOnce'
    <3> SUFFICES ASSUME NEW i \in 1..Len(ran'), NEW j \in 1..Len(ran'), ran'[i] = ran'[j], i < j
                 PROVE  FALSE
      BY <2>4 DEF SignedOnceRunOnce
    <3>1. i \in 1..Len(ran)
      BY <2>4
    <3>2. CASE j = Len(ran')
      BY <2>1, <2>2, <2>6, <2>7, <3>1, <3>2
    <3>3. CASE j # Len(ran')
      <4>1. j \in 1..Len(ran)
        BY <2>4, <3>3
      <4> QED
        BY <2>5, <3>1, <4>1 DEF NonceInv, SignedOnceRunOnce
    <3> QED
      BY <3>2, <3>3
  <2> QED
    BY <1>2, <2>1, <2>2, <2>4, <2>8, <2>9 DEF NonceInv
<1>4. CASE r.datum \notin signed
  <2>1. SameMark(pool, pool') /\ UNCHANGED ran
    BY <1>4, RunCounts DEF Run
  <2> QED
    BY <1>1, <1>2, <2>1 DEF NonceInv, SameMark, SignedOnceRunOnce
<1> QED
  BY <1>3, <1>4

(* So does every step: what is signed is signed for the present nonce.     *)
LEMMA StepKeepsNonces ==
    DaoThreshold > 0 /\ NonceInv /\ [TradingNext]_tradingVars => NonceInv'
<1> SUFFICES ASSUME DaoThreshold > 0, NonceInv, [TradingNext]_tradingVars PROVE NonceInv'
  OBVIOUS
<1>1. ASSUME UNCHANGED <<pool, ran>>, signed \subseteq signed',
             \A d \in signed' : RoyaltyDatum(d) \/ DaoDatum(d),
             \A r \in requests' : RequestBears(r, signed')
      PROVE  NonceInv'
  <2>1. ran' \in Seq(signed')
    BY <1>1 DEF NonceInv
  <2> QED
    BY <1>1, <2>1 DEF NonceInv, SignedOnceRunOnce
<1>2. ASSUME NEW side, NEW amount, Swap(side, amount) PROVE NonceInv'
  <2>1. pool' = AnySwap(pool, side, amount) /\ UNCHANGED <<requests, signed, ran>>
    BY <1>2 DEF Swap
  <2>2. SameMark(pool, pool')
    BY <2>1, SwapKeepsMark DEF NonceInv
  <2> QED
    BY <2>1, <2>2 DEF NonceInv, SameMark, SignedOnceRunOnce, RequestBears
<1>3. ASSUME NEW r \in requests, Run(r) PROVE NonceInv'
  BY <1>3, RunKeepsNonces
<1>4. ASSUME NEW r \in OrderTerms, Place(r) PROVE NonceInv'
  <2>1. r.kind \in {"deposit", "redeem"} /\ {"signature", "signatures"} \cap DOMAIN r.datum = {}
    BY PoolTradingAssumption DEF IsOrderTerms
  <2> QED
    BY <1>1, <1>4, <2>1 DEF Place, NonceInv, RequestBears
<1>5. ASSUME NEW t \in Signatories, Sign(t) PROVE NonceInv'
  <2>1. t.kind \in {"royalty", "dao"}
    BY PoolTradingAssumption DEF IsRequest
  <2> DEFINE d == Signed(t)
             r == [kind |-> t.kind, value |-> t.value, datum |-> d]
  <2>2. signed' = signed \cup {d} /\ requests' = {r} /\ UNCHANGED <<pool, ran>>
    BY <1>5 DEF Sign
  <2>3. (t.kind = "royalty" => RoyaltyDatum(d)) /\ (t.kind = "dao" => DaoDatum(d))
    BY SignedShape
  <2> HIDE DEF d
  <2>4. RequestBears(r, signed')
    BY <2>1, <2>2, <2>3 DEF RequestBears
  <2> QED
    BY <1>1, <2>1, <2>2, <2>3, <2>4 DEF NonceInv
<1>6. ASSUME NEW d \in signed, NEW t \in Signatories, PlaceAgain(d, t) PROVE NonceInv'
  <2>1. t.kind \in {"royalty", "dao"}
    BY PoolTradingAssumption DEF IsRequest
  <2> DEFINE r == [kind |-> t.kind, value |-> t.value, datum |-> d]
  <2>2. requests' = {r} /\ UNCHANGED <<pool, signed, ran>>
    BY <1>6 DEF PlaceAgain
  <2>3. RoyaltyDatum(d) \/ DaoDatum(d)
    BY DEF NonceInv
  <2>4. (t.kind = "royalty" => RoyaltyDatum(d)) /\ (t.kind = "dao" => DaoDatum(d))
    BY <1>6, <2>1, <2>3 DEF PlaceAgain, RoyaltyDatum, DaoDatum
  <2>5. RequestBears(r, signed')
    BY <2>1, <2>2, <2>4 DEF RequestBears
  <2> QED
    BY <1>1, <2>2, <2>5 DEF NonceInv
<1>7. CASE Withdraw
  BY <1>1, <1>7 DEF Withdraw, NonceInv
<1>8. CASE UNCHANGED tradingVars
  BY <1>1, <1>8 DEF tradingVars, NonceInv, RequestBears
<1> QED
  BY <1>2, <1>3, <1>4, <1>5, <1>6, <1>7, <1>8 DEF TradingNext

(* Nothing is signed at first, and the nonce read off the ledger is a      *)
(* number.                                                                 *)
LEMMA InitNonces == TradingInit => NonceInv
<1> SUFFICES ASSUME TradingInit PROVE NonceInv
  OBVIOUS
<1>1. PICK c \in Pools : utxo = c[1] /\ pool = AnyParse(c[1], c[2], c[3])
  BY DEF TradingInit
<1>2. IsPoolOutput(c[1], c[2], c[3])
  BY PoolTradingAssumption
<1> DEFINE u == c[1]
<1>3. pool # Refused /\ (u.ver \in RoyaltyVer => u.datum[IF u.ver = "RoyaltyV2" THEN 18 ELSE 14] \in Nat)
  BY <1>1, <1>2 DEF IsPoolOutput, NumbersOf, ClassicVer, FeeSwitchVer, RoyaltyVer, BalanceVer
<1>4. CASE u.ver \in RoyaltyVer
  <2>1. pool = ParseRoyalty(u, c[2], c[3])
    BY <1>1, <1>4 DEF AnyParse, ParseCfmm, CfmmVer, RoyaltyVer, ClassicVer, FeeSwitchVer
  <2> DEFINE conf == IF u.ver = "RoyaltyV2" THEN RoyaltyV2Config(u.datum) ELSE RoyaltyConfig(u.datum)
  <2>2. conf.nonce = u.datum[IF u.ver = "RoyaltyV2" THEN 18 ELSE 14]
    BY DEF RoyaltyV2Config, RoyaltyConfig
  <2> HIDE DEF conf
  <2>3. pool = [Parsed(u, c[2], c[3]) EXCEPT
                 !.fee = Pair(conf.fee, conf.fee), !.tfee = conf.tfee,
                 !.fee1 = conf.fee1, !.fee2 = conf.fee2, !.treasury = conf.treasury,
                 !.first = conf.first, !.second = conf.second, !.admin = conf.admin,
                 !.treasuryAddress = conf.treasuryAddress,
                 !.key1 = conf.key1, !.key2 = conf.key2, !.nonce = conf.nonce]
    BY <1>3, <2>1 DEF ParseRoyalty, conf
  <2>4. pool.ver = u.ver /\ pool.nonce = conf.nonce /\ {"ver", "nonce"} \subseteq DOMAIN pool
    BY <2>3 DEF Parsed
  <2> QED
    BY <1>3, <1>4, <2>2, <2>4 DEF TradingInit, NonceInv, Marked, SignedOnceRunOnce
<1>5. CASE u.ver \notin RoyaltyVer
  <2>1. pool.ver = u.ver /\ "ver" \in DOMAIN pool
    BY <1>1, <1>3, <1>5 DEF AnyParse, ParseCfmm, CfmmVer, ParseClassic, ParseFeeSwitch, Parsed,
       ParseBalance, ParseQuadratic, ParseStable
  <2> QED
    BY <1>5, <2>1 DEF TradingInit, NonceInv, Marked, SignedOnceRunOnce
<1> QED
  BY <1>4, <1>5

(* What a key holder has signed once is done at most once: a datum names   *)
(* the nonce it was signed for, and running it takes the pool past that.   *)
THEOREM SignedOnceRunOnceHolds ==
    DaoThreshold > 0 => (TradingSpec => []SignedOnceRunOnce)
<1> SUFFICES ASSUME DaoThreshold > 0 PROVE TradingSpec => []SignedOnceRunOnce
  OBVIOUS
<1>1. NonceInv /\ [TradingNext]_tradingVars => NonceInv'
  BY StepKeepsNonces
<1>2. NonceInv => SignedOnceRunOnce
  BY DEF NonceInv
<1> QED
  BY InitNonces, <1>1, <1>2, PTL DEF TradingSpec

-----------------------------------------------------------------------------
(* Swaps. First of all, arithmetic.                                        *)

(* A factor keeps the order.                                               *)
LEMMA MulLe ==
    ASSUME NEW a \in Int, NEW b \in Int, a <= b, NEW c \in Nat
    PROVE  a * c <= b * c
<1>1. (b - a) * c >= 0
  OBVIOUS
<1> QED
  BY <1>1

(* A common factor can be dropped.                                         *)
LEMMA MulCancel ==
    ASSUME NEW a \in Int, NEW b \in Int, NEW c \in Nat \ {0}, a * c <= b * c
    PROVE  a <= b
<1> SUFFICES ASSUME b + 1 <= a PROVE FALSE
  OBVIOUS
<1>1. (b + 1) * c <= a * c
  BY MulLe
<1> QED
  BY <1>1

(* Rounding down.                                                          *)
LEMMA DivFacts ==
    ASSUME NEW a \in Nat, NEW b \in Nat \ {0}
    PROVE  /\ a \div b \in Nat
           /\ (a \div b) * b <= a
           /\ a < (a \div b) * b + b
OBVIOUS

(* What rounding down leaves.                                              *)
LEMMA ModFacts ==
    ASSUME NEW a \in Nat, NEW b \in Nat \ {0}
    PROVE  a % b = a - b * (a \div b)
OBVIOUS

(* A bound on a quotient.                                                  *)
LEMMA DivLe ==
    ASSUME NEW a \in Nat, NEW b \in Nat \ {0}, NEW r \in Nat, a <= r * b
    PROVE  a \div b \in Nat /\ a \div b <= r
<1>1. (a \div b) * b <= r * b
  BY DivFacts
<1> QED
  BY <1>1, DivFacts, MulCancel

(* What is set aside of an input is at most its share of it.               *)
LEMMA SetAsideLe ==
    ASSUME NEW amount \in Nat, NEW fee \in Nat
    PROVE  /\ SetAside(amount, fee) \in Nat
           /\ SetAside(amount, fee) * FeeDen <= amount * fee
<1> DEFINE n == amount * fee
           m == n % Word
<1>1. n \in Nat
  OBVIOUS
<1> HIDE DEF n
<1>2. m \in Nat /\ m <= n
  BY <1>1, CfmmPoolsAssumption
<1> HIDE DEF m
<1>3. m \div FeeDen \in Nat /\ (m \div FeeDen) * FeeDen <= m
  BY <1>2, DivFacts, PoolMathAssumption
<1>4. SetAside(amount, fee) = m \div FeeDen
  BY DEF SetAside, m, n
<1>5. SetAside(amount, fee) * FeeDen <= n
  BY <1>1, <1>2, <1>3, <1>4, PoolMathAssumption
<1> QED
  BY <1>3, <1>4, <1>5 DEF n

(* A swap pays out no more than the curve gives, and no more than there is.*)
LEMMA OutputLe ==
    ASSUME NEW res \in [Side -> Nat], NEW native, NEW fee \in Nat \ {0},
           NEW s \in Side, NEW amount \in Nat \ {0}
    PROVE  /\ ClassicOutput(res, native, fee, s, amount) \in Int
           /\ ClassicOutput(res, native, fee, s, amount) <= res[Other(s)]
           /\ ClassicOutput(res, native, fee, s, amount) * (res[s] * FeeDen + amount * fee)
                  <= res[Other(s)] * amount * fee
<1> DEFINE out == Other(s)
           den == res[s] * FeeDen + amount * fee
           num == res[out] * amount * fee
           quote == num \div den
<1>1. out \in Side /\ res[out] \in Nat /\ res[s] \in Nat
  BY DEF Other, Side
<1>2. res[s] * FeeDen \in Nat /\ amount * fee \in Nat \ {0}
  BY <1>1, PoolMathAssumption
<1>3. den \in Nat \ {0}
  BY <1>2
<1>4. num = res[out] * (amount * fee)
  BY <1>1
<1>5. num \in Nat /\ num <= res[out] * den
  BY <1>1, <1>2, <1>4
<1>6. ClassicOutput(res, native, fee, s, amount) \in
         {quote} \cup {q \in {res[out] - Untouchable} : res[out] - quote < Untouchable}
  BY DEF ClassicOutput
<1>7. quote \in Nat /\ quote <= res[out] /\ quote * den <= num
  BY <1>1, <1>3, <1>5, DivLe, DivFacts
<1> HIDE DEF quote, den, num, out
<1>8. ClassicOutput(res, native, fee, s, amount) \in Int
      /\ ClassicOutput(res, native, fee, s, amount) <= quote
  BY <1>1, <1>6, <1>7, PoolMathAssumption
<1>9. ClassicOutput(res, native, fee, s, amount) * den <= quote * den
  BY <1>3, <1>7, <1>8, MulLe
<1>10. quote * den \in Int /\ ClassicOutput(res, native, fee, s, amount) * den \in Int /\ num \in Int
  BY <1>3, <1>5, <1>7, <1>8
<1>11. ClassicOutput(res, native, fee, s, amount) * den <= num
  BY <1>7, <1>9, <1>10
<1> QED
  BY <1>1, <1>7, <1>8, <1>11 DEF den, num, out

(* A trade in which x gains the traded part of the input and y pays no     *)
(* more than the curve gives does not lower the product.                   *)
LEMMA ProductGrows ==
    ASSUME NEW x \in Nat, NEW y \in Nat, NEW af \in Nat, NEW d \in Nat \ {0},
           NEW x1 \in Nat, NEW y1 \in Nat,
           x * d + af <= x1 * d,
           (y - y1) * (x * d + af) <= y * af
    PROVE  x * y <= x1 * y1
<1> DEFINE den == x * d + af
<1>1. x * d \in Nat /\ den \in Nat
  OBVIOUS
<1>2. y * den - y1 * den = (y - y1) * den
  BY <1>1
<1>3. y * den = y * (x * d) + y * af
  BY <1>1
<1>4. y * (x * d) <= y1 * den
  BY <1>1, <1>2, <1>3
<1>5. den * y1 <= (x1 * d) * y1
  BY <1>1, MulLe
<1>6. y * (x * d) = (x * y) * d /\ (x1 * d) * y1 = (x1 * y1) * d /\ y1 * den = den * y1
  BY <1>1
<1>7. (x * y) * d <= (x1 * y1) * d
  BY <1>1, <1>4, <1>5, <1>6
<1>8. x * y \in Int /\ x1 * y1 \in Int
  OBVIOUS
<1> QED
  BY <1>7, <1>8, MulCancel

(* A deposit gets no more shares than either of its amounts earns, and the *)
(* change it gets back leaves what the shares stand for.                   *)
LEMMA RewardFacts ==
    ASSUME NEW res \in [Side -> Nat], NEW lq \in Nat, NEW in \in [Side -> Nat],
           ClassicReward(res, lq, in) # Refused, NEW s \in Side
    PROVE  LET r == ClassicReward(res, lq, in)
           IN  /\ r.lq \in Nat
               /\ r.change[s] \in Nat
               /\ r.change[s] <= in[s]
               /\ (r.lq + lq) * res[s] <= (res[s] + in[s] - r.change[s]) * lq
               /\ r.lq * res[s] <= in[s] * lq
<1> DEFINE by == [t \in Side |-> (in[t] * lq) \div res[t]]
           u == Least(by["x"], by["y"])
           ch == [t \in Side |-> IF by[t] > u THEN ((by[t] - u) * res[t]) \div lq ELSE 0]
           r == ClassicReward(res, lq, in)
<1>1. /\ res["x"] # 0 /\ res["y"] # 0 /\ ~(by["x"] # by["y"] /\ lq = 0)
      /\ r = [lq |-> u, change |-> ch]
  BY DEF ClassicReward
<1>2. res["x"] \in Nat \ {0} /\ res["y"] \in Nat \ {0} /\ s \in {"x", "y"}
  BY <1>1 DEF Side
<1>3. res[s] \in Nat \ {0} /\ in[s] \in Nat
  BY <1>2
<1>4. ASSUME NEW t \in Side PROVE by[t] \in Nat /\ by[t] * res[t] <= in[t] * lq
  <2>1. res[t] \in Nat \ {0} /\ in[t] * lq \in Nat
    BY <1>2 DEF Side
  <2>2. by[t] = (in[t] * lq) \div res[t]
    OBVIOUS
  <2> QED
    BY <2>1, <2>2, DivFacts
<1> HIDE DEF by
<1>5. u \in Nat /\ u <= by[s]
  BY <1>2, <1>4 DEF Least, Side
<1>6. ch[s] = IF by[s] > u THEN ((by[s] - u) * res[s]) \div lq ELSE 0
  OBVIOUS
<1>7. by[s] > u => lq # 0
  BY <1>1, <1>2, <1>4 DEF Least, Side
<1> HIDE DEF u, ch
<1>8. by[s] \in Nat /\ by[s] * res[s] <= in[s] * lq
  BY <1>4
<1>9. ch[s] \in Nat /\ ch[s] * lq <= (by[s] - u) * res[s]
  <2>1. CASE by[s] > u
    <3>1. (by[s] - u) * res[s] \in Nat /\ lq \in Nat \ {0}
      BY <1>3, <1>5, <1>7, <1>8, <2>1
    <3> QED
      BY <1>6, <2>1, <3>1, DivFacts
  <2>2. CASE ~(by[s] > u)
    <3>1. ch[s] = 0 /\ by[s] - u \in Nat
      BY <1>5, <1>6, <1>8, <2>2
    <3> QED
      BY <1>3, <3>1
  <2> QED
    BY <2>1, <2>2
<1>10. (by[s] - u) * res[s] = by[s] * res[s] - u * res[s]
  BY <1>3, <1>5, <1>8
<1>11. u * res[s] \in Nat /\ by[s] * res[s] \in Nat /\ in[s] * lq \in Nat /\ ch[s] * lq \in Nat
  BY <1>3, <1>5, <1>8, <1>9
<1>12. ch[s] * lq + u * res[s] <= in[s] * lq
  BY <1>8, <1>9, <1>10, <1>11
<1>13. u * res[s] <= in[s] * lq
  BY <1>11, <1>12
<1>14. (u + lq) * res[s] <= (res[s] + in[s] - ch[s]) * lq
  <2>1. (u + lq) * res[s] = u * res[s] + lq * res[s]
    BY <1>3, <1>5
  <2>2. (res[s] + in[s] - ch[s]) * lq = res[s] * lq + in[s] * lq - ch[s] * lq
    BY <1>3, <1>9
  <2>3. res[s] * lq \in Nat /\ lq * res[s] = res[s] * lq
    BY <1>3
  <2> QED
    BY <1>11, <1>12, <2>1, <2>2, <2>3
<1>15. ch[s] <= in[s]
  <2>1. CASE by[s] > u
    <3>1. ch[s] * lq <= in[s] * lq /\ lq \in Nat \ {0}
      BY <1>7, <1>11, <1>12, <2>1
    <3> QED
      BY <1>3, <1>9, <3>1, MulCancel
  <2>2. CASE ~(by[s] > u)
    BY <1>3, <1>6, <2>2
  <2> QED
    BY <2>1, <2>2
<1> QED
  BY <1>1, <1>5, <1>9, <1>13, <1>14, <1>15

(* The shares a balance pool gives, and its change.                        *)
LEMMA BalanceRewardFacts ==
    ASSUME NEW p, NEW in \in [Side -> Nat], BalancePure(p) \in [Side -> Nat], p.lq \in Nat,
           BalanceReward(p, in) # Refused, NEW s \in Side
    PROVE  LET r == BalanceReward(p, in)
           IN  r.lq \in Nat /\ r.change[s] \in Nat /\ r.change[s] <= in[s]
<1> DEFINE res == BalancePure(p)
           c == ClassicReward(res, p.lq, in)
           part == (c.lq * res[s]) \div p.lq
<1>1. /\ p.lq # 0
      /\ BalanceReward(p, in).lq = c.lq
      /\ BalanceReward(p, in).change[s] = in[s] - part
  BY DEF BalanceReward
<1>2. c.lq \in Nat /\ c.lq * res[s] <= in[s] * p.lq
  <2>1. c # Refused
    BY DEF BalanceReward
  <2> QED
    BY <2>1, RewardFacts
<1>3. c.lq * res[s] \in Nat /\ p.lq \in Nat \ {0} /\ in[s] \in Nat
  BY <1>1, <1>2
<1>4. part \in Nat /\ part <= in[s]
  BY <1>2, <1>3, DivLe
<1> QED
  BY <1>1, <1>2, <1>3, <1>4

(* What a redeem pays: no more than the shares stand for, and no more than *)
(* there is.                                                               *)
LEMMA ShareFacts ==
    ASSUME NEW res \in [Side -> Nat], NEW lq \in Nat \ {0}, NEW burned \in Nat, burned <= lq,
           NEW s \in Side
    PROVE  LET paid == ClassicShares(res, lq, burned)
           IN  /\ paid[s] \in Nat /\ paid[s] <= res[s]
               /\ paid[s] * lq <= burned * res[s]
<1> DEFINE paid == ClassicShares(res, lq, burned)
<1>1. paid[s] = (burned * res[s]) \div lq
  BY DEF ClassicShares
<1>2. res[s] \in Nat /\ burned * res[s] \in Nat
  OBVIOUS
<1>3. burned * res[s] <= res[s] * lq
  BY <1>2, MulLe
<1> QED
  BY <1>1, <1>2, <1>3, DivLe, DivFacts

(* Sides and amounts.                                                      *)
LEMMA Sides ==
    ASSUME NEW s \in Side
    PROVE  Other(s) \in Side /\ Other(s) # s /\ \A t \in Side : t = s \/ t = Other(s)
BY DEF Side, Other

(* Adding to one side leaves the other.                                    *)
LEMMA AddOnFacts ==
    ASSUME NEW a \in [Side -> Int], NEW s \in Side, NEW n \in Int
    PROVE  /\ AddOn(a, s, n) \in [Side -> Int]
           /\ AddOn(a, s, n)[s] = a[s] + n
           /\ AddOn(a, s, n)[Other(s)] = a[Other(s)]
BY Sides DEF AddOn

(* Nothing on either side.                                                 *)
LEMMA ZeroFacts == Zero \in [Side -> Nat] /\ \A s \in Side : Zero[s] = 0
BY DEF Zero, Pair

(* What is left of the reserves of a pool once everything owed is set      *)
(* aside is what it prices by.                                             *)
LEMMA PureFacts ==
    ASSUME NEW p, CfmmPool(p)
    PROVE  /\ Pure(p) \in [Side -> Nat]
           /\ \A s \in Side : Pure(p)[s] = p.res[s] - (p.treasury[s] + p.first[s] + p.second[s])
           /\ CfmmAmm(p).res = Pure(p)
<1>1. \A s \in Side : /\ p.res[s] \in Nat /\ p.treasury[s] \in Nat /\ p.first[s] \in Nat
                       /\ p.second[s] \in Nat
                       /\ p.treasury[s] + p.first[s] + p.second[s] <= p.res[s]
  BY DEF CfmmPool, CfmmTyped, Covered
<1>2. Pure(p) = [s \in Side |-> p.res[s] - p.treasury[s] - p.first[s] - p.second[s]]
  BY DEF Pure, Minus
<1>3. Pure(p) \in [Side -> Nat]
      /\ \A s \in Side : Pure(p)[s] = p.res[s] - (p.treasury[s] + p.first[s] + p.second[s])
  BY <1>1, <1>2
<1>4. CfmmAmm(p).res = Pure(p)
  <2>1. CASE p.ver \in ClassicVer
    <3>1. p.treasury = Zero /\ p.first = Zero /\ p.second = Zero
      BY <2>1 DEF CfmmPool, CfmmTyped, ClassicVer, RoyaltyVer
    <3>2. Pure(p) = [s \in Side |-> p.res[s]]
      BY <1>1, <1>2, <3>1, ZeroFacts
    <3>3. p.res = [s \in Side |-> p.res[s]]
      BY DEF CfmmPool, CfmmTyped
    <3> QED
      BY <2>1, <3>2, <3>3 DEF CfmmAmm, ClassicAmm
  <2>2. CASE p.ver \in FeeSwitchVer
    <3>1. p.first = Zero /\ p.second = Zero
      BY <2>2 DEF CfmmPool, CfmmTyped, FeeSwitchVer, RoyaltyVer
    <3>2. Pure(p) = [s \in Side |-> p.res[s] - p.treasury[s]]
      BY <1>1, <1>2, <3>1, ZeroFacts
    <3> QED
      BY <2>2, <3>2 DEF CfmmAmm, FeeSwitchAmm, Minus, ClassicVer, FeeSwitchVer
  <2>3. CASE p.ver \in RoyaltyVer
    BY <2>3 DEF CfmmAmm, RoyaltyAmm, ClassicVer, FeeSwitchVer, RoyaltyVer
  <2> QED
    BY <2>1, <2>2, <2>3 DEF CfmmPool, CfmmTyped, CfmmVer
<1> QED
  BY <1>3, <1>4

(* The fee a pool prices by, and what it sets aside of the whole.          *)
LEMMA FeeFacts ==
    ASSUME NEW p, CfmmPool(p), FeeFits(p), NEW s \in Side
    PROVE  /\ CfmmAmm(p).fee[s] = p.fee[s] - (p.tfee + p.fee1 + p.fee2)
           /\ CfmmAmm(p).fee[s] \in Nat \ {0}
           /\ p.tfee + p.fee1 + p.fee2 + CfmmAmm(p).fee[s] <= FeeDen
<1>1. /\ p.fee[s] \in Nat /\ p.tfee \in Nat /\ p.fee1 \in Nat /\ p.fee2 \in Nat
      /\ p.tfee + p.fee1 + p.fee2 < p.fee[s] /\ p.fee[s] <= FeeDen
  BY DEF CfmmPool, CfmmTyped, FeeFits, AsideOf
<1>2. CfmmAmm(p).fee[s] = p.fee[s] - (p.tfee + p.fee1 + p.fee2)
  <2>1. CASE p.ver \in ClassicVer
    <3>1. p.tfee = 0 /\ p.fee1 = 0 /\ p.fee2 = 0
      BY <2>1 DEF CfmmPool, CfmmTyped, ClassicVer, RoyaltyVer
    <3> QED
      BY <1>1, <2>1, <3>1 DEF CfmmAmm, ClassicAmm
  <2>2. CASE p.ver \in FeeSwitchVer
    <3>1. p.fee1 = 0 /\ p.fee2 = 0
      BY <2>2 DEF CfmmPool, CfmmTyped, FeeSwitchVer, RoyaltyVer
    <3>2. CfmmAmm(p).fee = Minus(p.fee, Pair(p.tfee, p.tfee))
      BY <2>2 DEF CfmmAmm, FeeSwitchAmm, ClassicVer, FeeSwitchVer
    <3> QED
      BY <1>1, <3>1, <3>2 DEF Minus, Pair
  <2>3. CASE p.ver \in RoyaltyVer
    <3>1. CfmmAmm(p).fee = Minus(p.fee, Pair(p.tfee + p.fee1 + p.fee2, p.tfee + p.fee1 + p.fee2))
      BY <2>3 DEF CfmmAmm, RoyaltyAmm, ClassicVer, FeeSwitchVer, RoyaltyVer
    <3> QED
      BY <1>1, <3>1 DEF Minus, Pair
  <2> QED
    BY <2>1, <2>2, <2>3 DEF CfmmPool, CfmmTyped, CfmmVer
<1> QED
  BY <1>1, <1>2

(* A swap of any version adds the input to one side, takes the output from *)
(* the other and sets its parts of the fee aside: they are zero where the  *)
(* version has none.                                                       *)
LEMMA NothingAside ==
    ASSUME NEW a, a = Zero, NEW amount \in Nat, NEW s \in Side
    PROVE  AddOn(a, s, SetAside(amount, 0)) = a
<1>1. SetAside(amount, 0) \in Nat /\ SetAside(amount, 0) * FeeDen <= amount * 0
  BY SetAsideLe
<1>2. SetAside(amount, 0) = 0
  <2>1. SetAside(amount, 0) * FeeDen <= 0 * FeeDen
    BY <1>1, PoolMathAssumption
  <2> QED
    BY <1>1, <2>1, MulCancel, PoolMathAssumption
<1>3. \A t \in Side : Zero[t] = 0 /\ Zero = [v \in Side |-> Zero[v]]
  BY DEF Zero, Pair
<1> QED
  BY <1>2, <1>3 DEF AddOn

(* So a swap is one change of four fields for all the versions (classic,   *)
(* fee switch and royalty swaps of cfmm_pool.rs).                          *)
LEMMA SwapFields ==
    ASSUME NEW p, CfmmPool(p), NEW side \in {"bid", "ask"}, NEW amount \in Nat
    PROVE  LET s == InputSide(p, side)
           IN  CfmmSwap(p, side, amount) =
                 [p EXCEPT !.res = AddOn(AddOn(@, s, amount), Other(s), -CfmmOutput(p, s, amount)),
                           !.treasury = AddOn(@, s, SetAside(amount, p.tfee)),
                           !.first = AddOn(@, s, SetAside(amount, p.fee1)),
                           !.second = AddOn(@, s, SetAside(amount, p.fee2))]
<1> DEFINE s == InputSide(p, side)
           res == AddOn(AddOn(p.res, s, amount), Other(s), -CfmmOutput(p, s, amount))
           treasury == AddOn(p.treasury, s, SetAside(amount, p.tfee))
           first == AddOn(p.first, s, SetAside(amount, p.fee1))
           second == AddOn(p.second, s, SetAside(amount, p.fee2))
<1>1. s \in Side
  BY Sides DEF InputSide, CfmmPool, CfmmTyped
<1>2. p = [f \in CfmmFields |-> p[f]]
  BY DEF CfmmPool, CfmmTyped
<1>3. ClassicSwap(p, side, amount) = [p EXCEPT !.res = res]
  BY DEF ClassicSwap
<1> HIDE DEF s, res, treasury, first, second
<1>4. FeeSwitchSwap(p, side, amount) = [p EXCEPT !.res = res, !.treasury = treasury]
  BY <1>2, <1>3 DEF FeeSwitchSwap, CfmmFields, treasury, s
<1>5. RoyaltySwap(p, side, amount) =
        [p EXCEPT !.res = res, !.treasury = treasury, !.first = first, !.second = second]
  BY <1>2, <1>4 DEF RoyaltySwap, CfmmFields, first, second, s
<1>6. CASE p.ver \in ClassicVer
  <2>1. p.treasury = Zero /\ p.first = Zero /\ p.second = Zero
        /\ p.tfee = 0 /\ p.fee1 = 0 /\ p.fee2 = 0
    BY <1>6 DEF CfmmPool, CfmmTyped, ClassicVer, RoyaltyVer
  <2>2. treasury = p.treasury /\ first = p.first /\ second = p.second
    BY <1>1, <2>1, NothingAside DEF treasury, first, second
  <2>3. CfmmSwap(p, side, amount) = [p EXCEPT !.res = res]
    BY <1>3, <1>6 DEF CfmmSwap
  <2>4. [p EXCEPT !.res = res] =
           [p EXCEPT !.res = res, !.treasury = treasury, !.first = first, !.second = second]
    BY <1>2, <2>2 DEF CfmmFields
  <2> QED
    BY <2>3, <2>4 DEF res, treasury, first, second, s
<1>7. CASE p.ver \in FeeSwitchVer
  <2>1. p.first = Zero /\ p.second = Zero /\ p.fee1 = 0 /\ p.fee2 = 0
    BY <1>7 DEF CfmmPool, CfmmTyped, FeeSwitchVer, RoyaltyVer
  <2>2. first = p.first /\ second = p.second
    BY <1>1, <2>1, NothingAside DEF first, second
  <2>3. CfmmSwap(p, side, amount) = [p EXCEPT !.res = res, !.treasury = treasury]
    BY <1>4, <1>7 DEF CfmmSwap, ClassicVer, FeeSwitchVer
  <2>4. [p EXCEPT !.res = res, !.treasury = treasury] =
           [p EXCEPT !.res = res, !.treasury = treasury, !.first = first, !.second = second]
    BY <1>2, <2>2 DEF CfmmFields
  <2> QED
    BY <2>3, <2>4 DEF res, treasury, first, second, s
<1>8. CASE p.ver \in RoyaltyVer
  <2>1. CfmmSwap(p, side, amount) = RoyaltySwap(p, side, amount)
    BY <1>8 DEF CfmmSwap, ClassicVer, FeeSwitchVer, RoyaltyVer
  <2> QED
    BY <1>5, <2>1 DEF res, treasury, first, second, s
<1> QED
  BY <1>6, <1>7, <1>8 DEF CfmmPool, CfmmTyped, CfmmVer

(* After a swap the version's pool is still one, and its curve has not been*)
(* lowered.                                                                *)
LEMMA CfmmSwapKeeps ==
    ASSUME NEW p, CfmmPool(p), FeeFits(p), NEW side \in {"bid", "ask"}, NEW amount \in Nat \ {0}
    PROVE  LET q == CfmmSwap(p, side, amount)
           IN  /\ CfmmPool(q)
               /\ Pure(p)["x"] * Pure(p)["y"] <= Pure(q)["x"] * Pure(q)["y"]
               /\ q.ver = p.ver /\ q.native = p.native /\ q.base = p.base /\ q.lq = p.lq
               /\ q.stake = p.stake /\ q.fee = p.fee /\ q.tfee = p.tfee /\ q.fee1 = p.fee1
               /\ q.fee2 = p.fee2 /\ q.nonce = p.nonce /\ q.bound = p.bound /\ q.admin = p.admin
               /\ q.treasuryAddress = p.treasuryAddress /\ q.key1 = p.key1 /\ q.key2 = p.key2
<1> DEFINE s == InputSide(p, side)
           o == Other(s)
           out == CfmmOutput(p, s, amount)
           fee == CfmmAmm(p).fee[s]
           a1 == SetAside(amount, p.tfee)
           a2 == SetAside(amount, p.fee1)
           a3 == SetAside(amount, p.fee2)
           q == CfmmSwap(p, side, amount)
<1>1. s \in Side /\ o \in Side /\ o # s /\ \A t \in Side : t = s \/ t = o
  BY Sides DEF InputSide, CfmmPool, CfmmTyped
<1>2. CfmmTyped(p) /\ Covered(p)
  BY DEF CfmmPool
<1>3. /\ p.res \in [Side -> Nat] /\ p.treasury \in [Side -> Nat] /\ p.first \in [Side -> Nat]
      /\ p.second \in [Side -> Nat] /\ p.tfee \in Nat /\ p.fee1 \in Nat /\ p.fee2 \in Nat
      /\ p = [f \in CfmmFields |-> p[f]]
  BY <1>2 DEF CfmmTyped
<1>4. /\ Pure(p) \in [Side -> Nat]
      /\ \A t \in Side : Pure(p)[t] = p.res[t] - (p.treasury[t] + p.first[t] + p.second[t])
      /\ CfmmAmm(p).res = Pure(p)
  BY PureFacts
<1>5. fee \in Nat \ {0} /\ p.tfee + p.fee1 + p.fee2 + fee <= FeeDen
  BY <1>1, FeeFacts
<1>6. /\ out \in Int
      /\ out <= Pure(p)[o]
      /\ out * (Pure(p)[s] * FeeDen + amount * fee) <= Pure(p)[o] * amount * fee
  <2>1. out = ClassicOutput(Pure(p), p.native, fee, s, amount)
    BY <1>4 DEF CfmmOutput
  <2> QED
    BY <1>1, <1>4, <1>5, <2>1, OutputLe
<1>7. /\ a1 \in Nat /\ a1 * FeeDen <= amount * p.tfee
      /\ a2 \in Nat /\ a2 * FeeDen <= amount * p.fee1
      /\ a3 \in Nat /\ a3 * FeeDen <= amount * p.fee2
  BY <1>3, SetAsideLe
<1>8. q = [p EXCEPT !.res = AddOn(AddOn(p.res, s, amount), o, -out),
                    !.treasury = AddOn(p.treasury, s, a1),
                    !.first = AddOn(p.first, s, a2),
                    !.second = AddOn(p.second, s, a3)]
  BY SwapFields
<1> HIDE DEF s, o, out, fee, a1, a2, a3, q
<1>9. /\ q.res = AddOn(AddOn(p.res, s, amount), o, -out)
      /\ q.treasury = AddOn(p.treasury, s, a1)
      /\ q.first = AddOn(p.first, s, a2)
      /\ q.second = AddOn(p.second, s, a3)
      /\ \A f \in CfmmFields \ {"res", "treasury", "first", "second"} : q[f] = p[f]
      /\ q = [f \in CfmmFields |-> q[f]]
  BY <1>3, <1>8 DEF CfmmFields
<1>10. /\ q.res[s] = p.res[s] + amount /\ q.res[o] = p.res[o] - out
       /\ q.treasury[s] = p.treasury[s] + a1 /\ q.treasury[o] = p.treasury[o]
       /\ q.first[s] = p.first[s] + a2 /\ q.first[o] = p.first[o]
       /\ q.second[s] = p.second[s] + a3 /\ q.second[o] = p.second[o]
       /\ q.res \in [Side -> Int] /\ q.treasury \in [Side -> Int]
       /\ q.first \in [Side -> Int] /\ q.second \in [Side -> Int]
  BY <1>1, <1>3, <1>6, <1>7, <1>9 DEF AddOn
<1>11. (a1 + a2 + a3) * FeeDen + amount * fee <= amount * FeeDen
  <2>1. (a1 + a2 + a3) * FeeDen = a1 * FeeDen + a2 * FeeDen + a3 * FeeDen
    BY <1>7, PoolMathAssumption
  <2>2. (p.tfee + p.fee1 + p.fee2 + fee) * amount <= FeeDen * amount
    BY <1>3, <1>5, MulLe, PoolMathAssumption
  <2>3. (p.tfee + p.fee1 + p.fee2 + fee) * amount
           = amount * p.tfee + amount * p.fee1 + amount * p.fee2 + amount * fee
    BY <1>3, <1>5
  <2>4. /\ a1 * FeeDen \in Nat /\ a2 * FeeDen \in Nat /\ a3 * FeeDen \in Nat
        /\ amount * p.tfee \in Nat /\ amount * p.fee1 \in Nat /\ amount * p.fee2 \in Nat
        /\ amount * fee \in Nat /\ FeeDen * amount = amount * FeeDen /\ amount * FeeDen \in Nat
    BY <1>3, <1>5, <1>7, PoolMathAssumption
  <2> QED
    BY <1>7, <2>1, <2>2, <2>3, <2>4
<1>12. a1 + a2 + a3 <= amount
  <2>1. amount * fee \in Nat /\ (a1 + a2 + a3) * FeeDen \in Nat /\ amount * FeeDen \in Nat
    BY <1>5, <1>7, PoolMathAssumption
  <2>2. (a1 + a2 + a3) * FeeDen <= amount * FeeDen
    BY <1>11, <2>1
  <2> QED
    BY <1>7, <2>2, MulCancel, PoolMathAssumption
<1> DEFINE x1 == Pure(p)[s] + (amount - (a1 + a2 + a3))
           y1 == Pure(p)[o] - out
<1>13. x1 \in Nat /\ y1 \in Nat /\ Pure(p)[s] \in Nat /\ Pure(p)[o] \in Nat
  BY <1>1, <1>4, <1>6, <1>7, <1>12
<1>14. /\ p.res[s] \in Nat /\ p.treasury[s] \in Nat /\ p.first[s] \in Nat /\ p.second[s] \in Nat
       /\ p.res[o] \in Nat /\ p.treasury[o] \in Nat /\ p.first[o] \in Nat /\ p.second[o] \in Nat
       /\ Pure(p)[s] = p.res[s] - (p.treasury[s] + p.first[s] + p.second[s])
       /\ Pure(p)[o] = p.res[o] - (p.treasury[o] + p.first[o] + p.second[o])
  BY <1>1, <1>3, <1>4
<1>15. /\ q.res[s] - (q.treasury[s] + q.first[s] + q.second[s]) = x1
       /\ q.res[o] - (q.treasury[o] + q.first[o] + q.second[o]) = y1
  BY <1>6, <1>7, <1>10, <1>14
<1>16. CfmmPool(q)
  <2>1. q.res[s] \in Nat /\ q.res[o] \in Nat
    BY <1>6, <1>7, <1>10, <1>13, <1>14
  <2>2. /\ q.treasury[s] \in Nat /\ q.treasury[o] \in Nat /\ q.first[s] \in Nat
        /\ q.first[o] \in Nat /\ q.second[s] \in Nat /\ q.second[o] \in Nat
    BY <1>7, <1>10, <1>14
  <2>3. /\ q.res \in [Side -> Nat] /\ q.treasury \in [Side -> Nat]
        /\ q.first \in [Side -> Nat] /\ q.second \in [Side -> Nat]
    BY <1>1, <1>10, <2>1, <2>2
  <2>4. Covered(q)
    BY <1>1, <1>13, <1>15, <2>1, <2>2 DEF Covered
  <2>5. /\ p.ver \in ClassicVer => q.treasury = Zero /\ q.tfee = 0
        /\ p.ver \notin RoyaltyVer => q.first = Zero /\ q.fee1 = 0
        /\ p.ver # "RoyaltyV2" => q.second = Zero /\ q.fee2 = 0
    BY <1>1, <1>2, <1>9, NothingAside DEF CfmmTyped, CfmmFields, a1, a2, a3
  <2>6. q.ver = p.ver /\ q.native = p.native /\ q.base = p.base /\ q.lq = p.lq
        /\ q.fee = p.fee /\ q.tfee = p.tfee /\ q.fee1 = p.fee1 /\ q.fee2 = p.fee2
        /\ q.nonce = p.nonce
    BY <1>9 DEF CfmmFields
  <2>7. CfmmTyped(q)
    BY <1>2, <1>9, <2>3, <2>5, <2>6 DEF CfmmTyped
  <2> QED
    BY <2>4, <2>7 DEF CfmmPool
<1>17. Pure(q)[s] = x1 /\ Pure(q)[o] = y1
  BY <1>1, <1>15, <1>16, PureFacts
<1>18. Pure(p)[s] * Pure(p)[o] <= x1 * y1
  <2> DEFINE af == amount * fee
  <2>1. af \in Nat /\ FeeDen \in Nat \ {0}
    BY <1>5, PoolMathAssumption
  <2>2. Pure(p)[s] * FeeDen + af <= x1 * FeeDen
    <3>1. x1 * FeeDen = Pure(p)[s] * FeeDen + amount * FeeDen - (a1 + a2 + a3) * FeeDen
      BY <1>7, <1>13, <2>1
    <3>2. (a1 + a2 + a3) * FeeDen \in Nat /\ amount * FeeDen \in Nat /\ Pure(p)[s] * FeeDen \in Nat
      BY <1>7, <1>13, <2>1
    <3> QED
      BY <1>11, <2>1, <3>1, <3>2
  <2>3. (Pure(p)[o] - y1) * (Pure(p)[s] * FeeDen + af) <= Pure(p)[o] * af
    <3>1. Pure(p)[o] - y1 = out
      BY <1>6, <1>13
    <3>2. Pure(p)[o] * amount * fee = Pure(p)[o] * af
      BY <1>5, <1>13
    <3> QED
      BY <1>6, <3>1, <3>2
  <2> HIDE DEF af, x1, y1
  <2> QED
    BY <1>13, <2>1, <2>2, <2>3, ProductGrows
<1>19. Pure(p)["x"] * Pure(p)["y"] <= Pure(q)["x"] * Pure(q)["y"]
  <2>1. CASE s = "x" /\ o = "y"
    BY <1>17, <1>18, <2>1
  <2>2. CASE s = "y" /\ o = "x"
    BY <1>13, <1>17, <1>18, <2>2
  <2> QED
    BY <1>1, <2>1, <2>2 DEF Side, o, Other
<1> QED
  BY <1>9, <1>16, <1>19 DEF CfmmFields, q

(* What a weighted pool prices by.                                         *)
LEMMA BalancePureFacts ==
    ASSUME NEW p, BalancePool(p)
    PROVE  /\ BalancePure(p) \in [Side -> Nat]
           /\ \A s \in Side : BalancePure(p)[s] = p.res[s] - p.treasury[s]
<1>1. \A s \in Side : p.res[s] \in Nat /\ p.treasury[s] \in Nat /\ p.treasury[s] <= p.res[s]
  BY DEF BalancePool
<1>2. BalancePure(p) = [s \in Side |-> p.res[s] - p.treasury[s]]
  BY DEF BalancePure, Minus
<1> QED
  BY <1>1, <1>2

(* Whatever the curve is, its output is one of the amounts searched.       *)
LEMMA MaxOf ==
    ASSUME NEW n \in Nat, NEW S \in SUBSET (1 .. n)
    PROVE  Max({0} \cup S) \in {0} \cup S /\ \A i \in {0} \cup S : i <= Max({0} \cup S)
<1> DEFINE T == {0} \cup S
           B == {n - i : i \in T}
<1>1. T # {} /\ T \subseteq 0 .. n
  OBVIOUS
<1>2. B # {} /\ B \subseteq Nat
  BY <1>1
<1>3. PICK b \in B : \A c \in B : b <= c
  BY <1>2, LeastOf
<1>4. PICK m \in T : b = n - m
  OBVIOUS
<1>5. \A i \in T : i <= m
  BY <1>1, <1>3, <1>4
<1>6. \E m1 \in T : \A i \in T : m1 >= i
  BY <1>1, <1>5
<1>7. Max(T) \in T /\ \A i \in T : Max(T) >= i
  BY <1>6 DEF Max
<1> QED
  BY <1>1, <1>7

(* The output of a weighted pool lies in what it may trade.                *)
LEMMA BalanceOutputFacts ==
    ASSUME NEW p, BalancePool(p), NEW s \in Side, NEW amount
    PROVE  BalanceOutput(p, s, amount) \in Nat /\ BalanceOutput(p, s, amount) <= BalancePure(p)[Other(s)]
<1> DEFINE n == BalancePure(p)[Other(s)]
<1>1. n \in Nat
  BY BalancePureFacts, Sides
<1>2. PICK S \in SUBSET (1 .. n) : BalanceOutput(p, s, amount) = Max({0} \cup S)
  <2> DEFINE w == p.weight
             pure == BalancePure(p)
             fee == p.fee[s] - p.tfee
             old == pure["x"] ^ w["x"] * pure["y"] ^ w["y"]
             S == {out \in 1 .. n : NewInvariant(pure, w, fee, s, amount, out) >= old}
  <2>1. BalanceOutput(p, s, amount) = Max({0} \cup S)
    BY Zenon DEF BalanceOutput, BalanceCurve
  <2>2. S \in SUBSET (1 .. n)
    <3> HIDE DEF old, pure, w, fee
    <3> QED
      OBVIOUS
  <2> HIDE DEF S
  <2> QED
    BY <2>1, <2>2
<1> HIDE DEF n
<1>3. Max({0} \cup S) \in {0} \cup S
  BY <1>1, MaxOf
<1>4. \A i \in {0} \cup S : i \in Nat /\ i <= n
  BY <1>1
<1>5. BalanceOutput(p, s, amount) \in {0} \cup S
  BY <1>2, <1>3
<1> QED
  BY <1>4, <1>5 DEF n

(* A swap leaves a weighted pool sound (swap of balance_pool.rs).          *)
LEMMA BalanceSwapKeeps ==
    ASSUME NEW p, BalancePool(p), FeeFits(p), NEW side \in {"bid", "ask"}, NEW amount \in Nat \ {0}
    PROVE  LET q == BalanceSwap(p, side, amount)
           IN  /\ BalancePool(q)
               /\ q.ver = p.ver /\ q.native = p.native /\ q.base = p.base /\ q.lq = p.lq
               /\ q.weight = p.weight /\ q.fee = p.fee /\ q.tfee = p.tfee
<1> DEFINE s == InputSide(p, side)
           o == Other(s)
           out == BalanceOutput(p, s, amount)
           n == amount * p.tfee
           a == (n % BalanceWord) \div FeeDen
           q == BalanceSwap(p, side, amount)
<1>1. s \in Side /\ o \in Side /\ o # s /\ \A t \in Side : t = s \/ t = o
  BY Sides DEF InputSide, BalancePool
<1>2. /\ p.res \in [Side -> Nat] /\ p.treasury \in [Side -> Nat] /\ p.tfee \in Nat
      /\ p = [f \in BalanceFields |-> p[f]] /\ \A t \in Side : p.treasury[t] <= p.res[t]
  BY DEF BalancePool
<1>3. out \in Nat /\ out <= p.res[o] - p.treasury[o]
  BY <1>1, BalanceOutputFacts, BalancePureFacts
<1>4. p.tfee <= FeeDen
  <2>1. AsideOf(p) = p.tfee
    BY DEF AsideOf, BalancePool, BalanceVer, CfmmVer, ClassicVer, FeeSwitchVer, RoyaltyVer
  <2>2. p.tfee < p.fee[s] /\ p.fee[s] <= FeeDen /\ p.fee[s] \in Nat
    BY <1>1, <2>1 DEF FeeFits, BalancePool
  <2> QED
    BY <1>2, <2>2, PoolMathAssumption
<1>5. n \in Nat /\ n <= amount * FeeDen
  BY <1>2, <1>4, MulLe, PoolMathAssumption
<1>6. a \in Nat /\ a <= amount
  <2> DEFINE m == n % BalanceWord
  <2> HIDE DEF n
  <2>1. m \in Nat /\ m <= n
    BY <1>5, BalancePoolsAssumption
  <2>2. a = m \div FeeDen
    OBVIOUS
  <2> HIDE DEF m, a
  <2>3. m <= amount * FeeDen /\ amount * FeeDen \in Nat
    BY <1>5, <2>1, PoolMathAssumption
  <2> QED
    BY <2>1, <2>2, <2>3, DivLe, PoolMathAssumption
<1>7. q = [p EXCEPT !.res = AddOn(AddOn(p.res, s, amount), o, -out),
                    !.treasury = AddOn(p.treasury, s, a)]
  BY DEF BalanceSwap
<1> HIDE DEF s, o, out, n, a, q
<1>8. /\ q.res = AddOn(AddOn(p.res, s, amount), o, -out)
      /\ q.treasury = AddOn(p.treasury, s, a)
      /\ \A f \in BalanceFields \ {"res", "treasury"} : q[f] = p[f]
      /\ q = [f \in BalanceFields |-> q[f]]
  BY <1>2, <1>7 DEF BalanceFields
<1>9. /\ q.res[s] = p.res[s] + amount /\ q.res[o] = p.res[o] - out
      /\ q.treasury[s] = p.treasury[s] + a /\ q.treasury[o] = p.treasury[o]
      /\ q.res \in [Side -> Int] /\ q.treasury \in [Side -> Int]
  BY <1>1, <1>2, <1>3, <1>6, <1>8 DEF AddOn
<1>10. /\ p.res[s] \in Nat /\ p.treasury[s] \in Nat /\ p.res[o] \in Nat /\ p.treasury[o] \in Nat
       /\ p.treasury[s] <= p.res[s]
  BY <1>1, <1>2
<1>11. /\ q.res[s] \in Nat /\ q.res[o] \in Nat /\ q.treasury[s] \in Nat /\ q.treasury[o] \in Nat
       /\ q.treasury[s] <= q.res[s] /\ q.treasury[o] <= q.res[o]
  BY <1>3, <1>6, <1>9, <1>10
<1>12. /\ q.res \in [Side -> Nat] /\ q.treasury \in [Side -> Nat]
       /\ \A t \in Side : q.treasury[t] <= q.res[t]
  BY <1>1, <1>9, <1>11
<1>13. /\ q.ver = p.ver /\ q.native = p.native /\ q.base = p.base /\ q.lq = p.lq
       /\ q.weight = p.weight /\ q.fee = p.fee /\ q.tfee = p.tfee
  BY <1>8 DEF BalanceFields
<1>14. BalancePool(q)
  BY <1>8, <1>12, <1>13 DEF BalancePool
<1> QED
  BY <1>13, <1>14 DEF q

(* The bonding curves. What the tokens out have cost is a difference of    *)
(* two values of one growing function of the supply.                       *)
CostTo(p, n) == (BDenom * p.aNum) * Power3(n) + (3 * ADenom * p.bNum) * n

(* The cost of the tokens grows with the supply.                           *)
LEMMA CostFacts ==
    ASSUME NEW p, p.aNum \in Nat, p.bNum \in Nat, NEW m \in Nat, NEW n \in Nat, m <= n
    PROVE  /\ CostTo(p, m) \in Nat /\ CostTo(p, n) \in Nat
           /\ CurveCost(p, m, n) = CostTo(p, n) - CostTo(p, m)
           /\ CostTo(p, m) <= CostTo(p, n)
           /\ CostTo(p, 0) = 0
<1> DEFINE k == BDenom * p.aNum
           l == 3 * ADenom * p.bNum
<1>1. k \in Nat /\ l \in Nat
  BY QuadraticPoolsAssumption
<1>2. Power3(m) \in Nat /\ Power3(n) \in Nat /\ Power3(m) <= Power3(n) /\ Power3(0) = 0
  <2>1. m * m \in Nat /\ n * n \in Nat /\ m * m <= m * n /\ m * n <= n * n
    BY MulLe
  <2>2. (m * m) * m <= (n * n) * m /\ m * (n * n) <= n * (n * n)
    BY <2>1, MulLe
  <2>3. (m * m) * m \in Nat /\ (n * n) * n \in Nat /\ m * (n * n) = (n * n) * m
        /\ n * (n * n) = (n * n) * n
    BY <2>1
  <2> QED
    BY <2>2, <2>3 DEF Power3
<1> HIDE DEF k, l
<1>3. /\ CostTo(p, m) = k * Power3(m) + l * m
      /\ CostTo(p, n) = k * Power3(n) + l * n
      /\ CostTo(p, 0) = k * Power3(0) + l * 0
      /\ CurveCost(p, m, n) = k * (Power3(n) - Power3(m)) + l * (n - m)
  BY DEF CostTo, CurveCost, k, l
<1>4. /\ k * (Power3(n) - Power3(m)) = k * Power3(n) - k * Power3(m)
      /\ l * (n - m) = l * n - l * m
      /\ k * Power3(m) \in Nat /\ k * Power3(n) \in Nat /\ l * m \in Nat /\ l * n \in Nat
  BY <1>1, <1>2
<1>5. k * (Power3(n) - Power3(m)) \in Nat /\ l * (n - m) \in Nat
  <2>1. Power3(n) - Power3(m) \in Nat /\ n - m \in Nat
    BY <1>2
  <2> QED
    BY <1>1, <2>1
<1>6. k * Power3(0) + l * 0 = 0
  BY <1>1, <1>2
<1> QED
  BY <1>3, <1>4, <1>5, <1>6

(* The common denominator of the curve is a factor.                        *)
LEMMA ScaledFacts ==
    ASSUME NEW a \in Int, NEW b \in Int
    PROVE  /\ Scaled(a) \in Int /\ Scaled(a + b) = Scaled(a) + Scaled(b)
           /\ Scaled(a - b) = Scaled(a) - Scaled(b)
           /\ Scaled(1) \in Nat \ {0}
           /\ (Scaled(a) <= Scaled(b)) <=> (a <= b)
           /\ Scaled(a) = a * Scaled(1)
           /\ Scaled(0) = 0
<1> DEFINE k == 3 * ADenom * BDenom
<1>1. ADenom \in Nat \ {0} /\ BDenom \in Nat \ {0}
  BY QuadraticPoolsAssumption
<1>2. k \in Nat \ {0}
  BY <1>1
<1>3. ASSUME NEW c \in Int PROVE Scaled(c) = c * k
  BY <1>1 DEF Scaled
<1> HIDE DEF k
<1>4. Scaled(a) = a * k /\ Scaled(b) = b * k /\ Scaled(a + b) = (a + b) * k
      /\ Scaled(a - b) = (a - b) * k /\ Scaled(1) = 1 * k /\ Scaled(0) = 0 * k
  BY <1>3
<1>5. (a + b) * k = a * k + b * k /\ (a - b) * k = a * k - b * k /\ a * k \in Int /\ b * k \in Int
      /\ 1 * k = k /\ 0 * k = 0
  BY <1>2
<1>6. a <= b => a * k <= b * k
  BY <1>2, MulLe
<1>7. a * k <= b * k => a <= b
  BY <1>2, MulCancel
<1> QED
  BY <1>2, <1>4, <1>5, <1>6, <1>7

(* A purchase gets what the curve gives for the input, or nothing.         *)
LEMMA BoughtFacts ==
    ASSUME NEW p, QuadraticPool(p), NEW input \in Int
    PROVE  LET n == QuadraticOutput(p, "x", input)
           IN  /\ n \in Nat /\ n <= p.res["y"]
               /\ n = 0 \/ CurveCost(p, Supply(p), Supply(p) + n) <= Scaled(input)
<1> DEFINE S == {n \in 1 .. p.res["y"] :
                   CurveCost(p, Supply(p), Supply(p) + n) <= Scaled(input)}
<1>1. QuadraticOutput(p, "x", input) = Max({0} \cup S)
  BY DEF QuadraticOutput
<1>2. p.res["y"] \in Nat
  BY DEF QuadraticPool, QuadraticTyped, Side
<1>3. S \in SUBSET (1 .. p.res["y"])
  OBVIOUS
<1>4. \A i \in {0} \cup S : i \in Nat /\ i <= p.res["y"]
                /\ (i = 0 \/ CurveCost(p, Supply(p), Supply(p) + i) <= Scaled(input))
  BY <1>2
<1> HIDE DEF S
<1>5. Max({0} \cup S) \in {0} \cup S
  BY <1>2, <1>3, MaxOf
<1> QED
  BY <1>1, <1>4, <1>5

(* A sale pays no more than the tokens have cost, so it can be paid.       *)
LEMMA SoldFacts ==
    ASSUME NEW p, QuadraticPool(p), NEW amount \in Nat, amount <= Supply(p)
    PROVE  LET n == QuadraticOutput(p, "y", amount)
           IN  /\ n \in Nat
               /\ Scaled(n) <= CurveCost(p, Supply(p) - amount, Supply(p))
               /\ n + LockedOf(p) <= p.res["x"]
<1> DEFINE t == Supply(p)
           c == CurveCost(p, t - amount, t)
           n == QuadraticOutput(p, "y", amount)
<1>1. /\ p.res["x"] \in Nat /\ LockedOf(p) \in Nat /\ t \in Nat /\ p.aNum \in Nat /\ p.bNum \in Nat
  BY QuadraticPoolsAssumption DEF QuadraticPool, QuadraticTyped, Side, Supply, LockedOf
<1> HIDE DEF t
<1>2. t - amount \in Nat /\ t - amount <= t
  BY <1>1 DEF t
<1>3. /\ c = CostTo(p, t) - CostTo(p, t - amount)
      /\ CostTo(p, t) \in Nat /\ CostTo(p, t - amount) \in Nat /\ CostTo(p, t - amount) <= CostTo(p, t)
      /\ CurveCost(p, 0, t) = CostTo(p, t)
  <2>1. CurveCost(p, 0, t) = CostTo(p, t) - CostTo(p, 0) /\ CostTo(p, 0) = 0 /\ CostTo(p, t) \in Nat
    BY <1>1, CostFacts
  <2> QED
    BY <1>1, <1>2, <2>1, CostFacts
<1> HIDE DEF c
<1>4. n = c \div Scaled(1) /\ c \in Nat
  BY <1>1, <1>3 DEF QuadraticOutput, c, t
<1>5. n \in Nat /\ n * Scaled(1) <= c
  <2>1. Scaled(1) \in Nat \ {0}
    BY ScaledFacts
  <2> QED
    BY <1>4, <2>1, DivFacts
<1> HIDE DEF n
<1>6. Scaled(n) <= c
  BY <1>5, ScaledFacts
<1> DEFINE r == p.res["x"] - LockedOf(p)
<1>7. Scaled(r) >= CostTo(p, t) /\ r \in Int
  BY <1>1, <1>3 DEF QuadraticPool, Backed, t
<1> HIDE DEF r
<1>8. n \in Int /\ Scaled(n) \in Int /\ Scaled(r) \in Int
  BY <1>5, <1>7, ScaledFacts
<1>9. Scaled(n) <= Scaled(r)
  BY <1>3, <1>6, <1>7, <1>8
<1>10. n <= r
  BY <1>7, <1>8, <1>9, ScaledFacts
<1> QED
  BY <1>1, <1>5, <1>6, <1>10 DEF n, c, t, r

(* The part of an amount that is kept as a fee and the part that is traded *)
(* are no more than the amount.                                            *)
LEMMA KeptFacts ==
    ASSUME NEW a \in Nat, NEW parts \in {0, 1}
    PROVE  /\ AdjustedXFee(parts, a) \in Nat /\ AdjustedXFee(parts, a) <= a
           /\ (a * (FeePart - parts)) \div FeePart \in Int
           /\ (a * (FeePart - parts)) \div FeePart + AdjustedXFee(parts, a) <= a
<1> DEFINE f == FeePart
           n == a * parts
           m == a * (f - parts)
           q == n \div f
           u == m \div f
           g == AdjustedXFee(parts, a)
<1>1. f \in Nat \ {0} /\ f - parts \in Nat /\ parts \in Nat /\ parts <= f
  BY QuadraticPoolsAssumption
<1>2. g = q + (IF n % f = 0 THEN 0 ELSE 1)
  BY DEF AdjustedXFee
<1> HIDE DEF g, f
<1>3. n \in Nat /\ m \in Nat /\ m = a * f - n /\ a * f \in Nat /\ n <= a * f
  <2>1. parts = 0 \/ parts = 1
    OBVIOUS
  <2>2. CASE parts = 0
    BY <1>1, <2>2
  <2>3. CASE parts = 1
    BY <1>1, <2>3, MulLe
  <2> QED
    BY <2>1, <2>2, <2>3
<1> HIDE DEF n, m
<1>4. q \in Nat /\ q * f <= n /\ n < q * f + f /\ n % f = n - f * q
  BY <1>1, <1>3, DivFacts, ModFacts
<1>5. u \in Nat /\ u * f <= m
  BY <1>1, <1>3, DivFacts
<1> HIDE DEF q, u
<1>6. g \in Nat /\ g * f < n + f
  <2>1. CASE n % f = 0
    BY <1>1, <1>2, <1>3, <1>4, <2>1
  <2>2. CASE n % f # 0
    <3>1. (q + 1) * f = q * f + f /\ q * f \in Nat
      BY <1>1, <1>4
    <3> QED
      BY <1>1, <1>2, <1>3, <1>4, <2>2, <3>1
  <2> QED
    BY <2>1, <2>2
<1>7. g <= a
  <2> SUFFICES ASSUME a + 1 <= g PROVE FALSE
    BY <1>6
  <2>1. (a + 1) * f <= g * f /\ (a + 1) * f = a * f + f /\ g * f \in Nat
    BY <1>1, <1>6, MulLe
  <2> QED
    BY <1>1, <1>3, <1>6, <2>1
<1>8. u + g <= a
  <2> SUFFICES ASSUME a + 1 <= u + g PROVE FALSE
    BY <1>5, <1>6
  <2>1. (a + 1) * f <= (u + g) * f /\ (a + 1) * f = a * f + f /\ (u + g) * f = u * f + g * f
        /\ u * f \in Nat /\ g * f \in Nat
    BY <1>1, <1>5, <1>6, MulLe
  <2> QED
    BY <1>1, <1>3, <1>5, <1>6, <2>1
<1> QED
  BY <1>5, <1>6, <1>7, <1>8 DEF u, g, m, f

(* What is taken of an input and an output for the operator's part.        *)
LEMMA AdjustedFacts ==
    ASSUME NEW a \in Nat, NEW parts \in {0, 1}
    PROVE  /\ AdjustedXFee(parts, a) \in Nat /\ AdjustedXFee(parts, a) <= a
           /\ AdjustedXInput(parts, a) \in Int
           /\ AdjustedXInput(parts, a) + AdjustedXFee(parts, a) <= a
           /\ AdjustedXOutput(parts, a) \in Int
           /\ AdjustedXOutput(parts, a) + AdjustedXFee(parts, a) <= a
<1> DEFINE u == (a * (FeePart - parts)) \div FeePart
<1>1. u \in Int /\ u + AdjustedXFee(parts, a) <= a
      /\ AdjustedXFee(parts, a) \in Nat /\ AdjustedXFee(parts, a) <= a
  BY KeptFacts
<1>2. AdjustedXInput(parts, a) \in {u - 2, u - 1} /\ AdjustedXOutput(parts, a) \in {u - 1, u - 0}
  BY DEF AdjustedXInput, AdjustedXOutput
<1> HIDE DEF u
<1> QED
  BY <1>1, <1>2

(* A trade on the curve leaves a pool that can buy back what it has sold.  *)
LEMMA QuadraticTrade ==
    ASSUME NEW p, QuadraticPool(p), NEW q, QuadraticTyped(q), q.ver = p.ver,
           q.aNum = p.aNum, q.bNum = p.bNum,
           NEW paid \in Int, q.res["x"] - LockedOf(q) >= p.res["x"] - LockedOf(p) + paid,
           Scaled(paid) >= CostTo(p, Supply(q)) - CostTo(p, Supply(p))
    PROVE  QuadraticPool(q)
<1> DEFINE r == p.res["x"] - LockedOf(p)
           z == q.res["x"] - LockedOf(q)
<1>1. /\ Supply(p) \in Nat /\ Supply(q) \in Nat /\ r \in Int /\ z \in Int
      /\ p.aNum \in Nat /\ p.bNum \in Nat
  BY QuadraticPoolsAssumption DEF QuadraticPool, QuadraticTyped, Supply, LockedOf, Side
<1>2. /\ CurveCost(p, 0, Supply(p)) = CostTo(p, Supply(p))
      /\ CurveCost(p, 0, Supply(q)) = CostTo(p, Supply(q))
      /\ CostTo(p, Supply(p)) \in Nat /\ CostTo(p, Supply(q)) \in Nat
  <2>1. ASSUME NEW n \in Nat PROVE CurveCost(p, 0, n) = CostTo(p, n) /\ CostTo(p, n) \in Nat
    BY <1>1, CostFacts
  <2> QED
    BY <1>1, <2>1
<1>3. CurveCost(q, 0, Supply(q)) = CurveCost(p, 0, Supply(q))
  BY DEF CurveCost
<1>4. Scaled(r) >= CostTo(p, Supply(p))
  BY <1>2 DEF QuadraticPool, Backed
<1> HIDE DEF r
<1>5. Scaled(r + paid) = Scaled(r) + Scaled(paid) /\ Scaled(r) \in Int /\ Scaled(paid) \in Int
  BY <1>1, ScaledFacts
<1>6. r + paid <= z
  BY DEF r
<1> HIDE DEF z
<1>7. Scaled(r + paid) <= Scaled(z) /\ Scaled(z) \in Int /\ Scaled(r + paid) \in Int
  <2>1. r + paid \in Int
    BY <1>1
  <2> QED
    BY <1>1, <1>6, <2>1, ScaledFacts
<1>8. Scaled(z) >= CostTo(p, Supply(q))
  BY <1>2, <1>4, <1>5, <1>7
<1> QED
  BY <1>2, <1>3, <1>8 DEF z, QuadraticPool, Backed

(* A swap leaves a bonding curve able to buy back what it has sold,        *)
(* whichever way it goes and whatever the curve has left (swap of          *)
(* quadratic_pool.rs).                                                     *)
LEMMA QuadraticSwapKeeps ==
    ASSUME NEW p, QuadraticPool(p), NEW side \in {"bid", "ask"}, NEW amount \in Nat \ {0},
           InputSide(p, side) = "y" => amount <= Supply(p)
    PROVE  LET q == QuadraticSwap(p, side, amount)
           IN  /\ QuadraticPool(q)
               /\ q.ver = p.ver /\ q.native = p.native /\ q.base = p.base /\ q.lq = p.lq
               /\ q.aNum = p.aNum /\ q.bNum = p.bNum /\ q.cap = p.cap /\ q.parts = p.parts
               /\ p.ver = "QuadraticV1" => q.kept = p.kept
<1> DEFINE s == InputSide(p, side)
           x == p.res["x"]
           y == p.res["y"]
           t == Supply(p)
           fee == AdjustedXFee(p.parts, amount)
           input == IF p.ver = "QuadraticV1" THEN amount ELSE AdjustedXInput(p.parts, amount)
           n == QuadraticOutput(p, "x", input)
           m == QuadraticOutput(p, "y", amount)
           q == QuadraticSwap(p, side, amount)
<1>1. /\ QuadraticTyped(p) /\ p.ver \in {"QuadraticV1", "QuadraticT2T"} /\ s \in Side
      /\ x \in Nat /\ y \in Nat /\ p.kept \in Nat /\ p.parts \in {0, 1} /\ p.res \in [Side -> Nat]
      /\ y <= Emission /\ Emission \in Nat /\ MinAda \in Nat /\ p.aNum \in Nat /\ p.bNum \in Nat
      /\ p = [f \in QuadraticFields |-> p[f]]
      /\ p.ver = "QuadraticV1" => p.base = "x" /\ p.kept = 0
  BY Sides, QuadraticPoolsAssumption
     DEF QuadraticPool, QuadraticTyped, Side, QuadraticVer, InputSide
<1>2. t = Emission - y /\ t \in Nat
  BY <1>1 DEF Supply
<1>3. fee \in Nat /\ fee <= amount /\ AdjustedXInput(p.parts, amount) \in Int
      /\ AdjustedXInput(p.parts, amount) + fee <= amount
  BY <1>1, AdjustedFacts
<1>5. CASE s = "x"
  <2>1. input \in Int
    BY <1>3
  <2>2. n \in Nat /\ n <= y /\ (n = 0 \/ CurveCost(p, t, t + n) <= Scaled(input))
    BY <2>1, BoughtFacts
  <2>3. SafeOutput(p, side, n) = n
    BY <1>1, <1>5, <2>2 DEF SafeOutput, InputSide, Other
  <2> DEFINE kept == IF p.ver = "QuadraticV1" THEN p.kept ELSE p.kept + fee
             paid == IF p.ver = "QuadraticV1" THEN amount ELSE amount - fee
             res == Pair(x + amount, y - n)
  <2>4. q = [p EXCEPT !.res = res, !.kept = kept]
    <3>1. CASE p.ver = "QuadraticV1"
      <4>1. q = [p EXCEPT !.res = AddOn(AddOn(p.res, "x", amount), "y", -n)]
        BY <1>5, <2>3, <3>1 DEF QuadraticSwap, QuadraticSwapV1, Other
      <4>2. AddOn(AddOn(p.res, "x", amount), "y", -n) = res
        BY <1>1, <2>2 DEF AddOn, Pair, Side
      <4> HIDE DEF res, q
      <4> QED
        BY <1>1, <3>1, <4>1, <4>2 DEF QuadraticFields
    <3>2. CASE p.ver = "QuadraticT2T"
      BY <1>5, <2>3, <3>2 DEF QuadraticSwap, QuadraticSwapT2T
    <3> QED
      BY <1>1, <3>1, <3>2
  <2>5. paid \in Nat /\ input <= paid
    BY <1>3, <2>1
  <2>6. kept \in Nat /\ (p.ver = "QuadraticV1" => kept = p.kept)
    BY <1>1, <1>3
  <2>7. res \in [Side -> Nat] /\ res["x"] = x + amount /\ res["y"] = y - n
    BY <1>1, <2>2 DEF Pair, Side
  <2>8. (p.ver = "QuadraticV1" => paid = amount)
        /\ (p.ver = "QuadraticT2T" => paid = amount - fee /\ kept = p.kept + fee)
    BY <1>1
  <2> HIDE DEF kept, res, q, n, input, paid, fee, t
  <2>9. /\ q.res = res /\ q.kept = kept /\ q = [f \in QuadraticFields |-> q[f]]
        /\ \A f \in QuadraticFields \ {"res", "kept"} : q[f] = p[f]
    BY <1>1, <2>4 DEF QuadraticFields
  <2>10. /\ q.ver = p.ver /\ q.native = p.native /\ q.base = p.base /\ q.lq = p.lq
         /\ q.aNum = p.aNum /\ q.bNum = p.bNum /\ q.cap = p.cap /\ q.parts = p.parts
    BY <2>9 DEF QuadraticFields
  <2>11. y - n <= Emission
    BY <1>1, <2>2
  <2>12. QuadraticTyped(q)
    BY <1>1, <2>6, <2>7, <2>9, <2>10, <2>11 DEF QuadraticTyped
  <2>13. Supply(q) = t + n /\ t + n \in Nat
    BY <1>1, <1>2, <2>2, <2>7, <2>9 DEF Supply
  <2>14. Scaled(paid) >= CostTo(p, t + n) - CostTo(p, t)
    <3>1. /\ CurveCost(p, t, t + n) = CostTo(p, t + n) - CostTo(p, t)
          /\ CostTo(p, t) \in Nat /\ CostTo(p, t + n) \in Nat
      BY <1>1, <1>2, <2>2, <2>13, CostFacts
    <3>2. /\ Scaled(input) <= Scaled(paid) /\ Scaled(input) \in Int /\ Scaled(paid) \in Int
          /\ Scaled(0) = 0 /\ Scaled(0) <= Scaled(paid)
      <4>1. paid \in Int /\ 0 \in Int /\ 0 <= paid
        BY <2>5
      <4> QED
        BY <2>1, <2>5, <4>1, ScaledFacts
    <3>3. n = 0 => t + n = t
      BY <1>2
    <3> QED
      BY <2>2, <3>1, <3>2, <3>3
  <2>15. q.res["x"] - LockedOf(q) >= p.res["x"] - LockedOf(p) + paid
    BY <1>1, <1>3, <2>5, <2>6, <2>7, <2>8, <2>9, <2>10 DEF LockedOf
  <2>16. QuadraticPool(q)
    <3>1. paid \in Int
      BY <2>5
    <3> QED
      BY <2>10, <2>12, <2>13, <2>14, <2>15, <3>1, QuadraticTrade DEF t
  <2> QED
    BY <2>6, <2>9, <2>10, <2>16 DEF q
<1>6. CASE s = "y"
  <2>1. amount <= t
    BY <1>6
  <2>2. m \in Nat /\ Scaled(m) <= CurveCost(p, t - amount, t) /\ m + LockedOf(p) <= x
    BY <2>1, SoldFacts
  <2>3. SafeOutput(p, side, m) = m
    BY <1>1, <1>6, <2>2 DEF SafeOutput, InputSide, Other, LockedOf
  <2> DEFINE back == IF p.ver = "QuadraticV1" THEN m ELSE AdjustedXOutput(p.parts, m)
             cut == AdjustedXFee(p.parts, m)
             kept == IF p.ver = "QuadraticV1" THEN p.kept ELSE p.kept + cut
             res == Pair(x - back, y + amount)
  <2>4. cut \in Nat /\ back \in Int /\ back <= m
        /\ (p.ver = "QuadraticT2T" => back + cut <= m)
    BY <1>1, <2>2, AdjustedFacts
  <2>5. q = [p EXCEPT !.res = res, !.kept = kept]
    <3>1. CASE p.ver = "QuadraticV1"
      <4>1. q = [p EXCEPT !.res = AddOn(AddOn(p.res, "y", amount), "x", -m)]
        BY <1>6, <2>3, <3>1 DEF QuadraticSwap, QuadraticSwapV1, Other
      <4>2. AddOn(AddOn(p.res, "y", amount), "x", -m) = res
        BY <1>1, <2>2, <3>1 DEF AddOn, Pair, Side
      <4> HIDE DEF res, q
      <4> QED
        BY <1>1, <3>1, <4>1, <4>2 DEF QuadraticFields
    <3>2. CASE p.ver = "QuadraticT2T"
      BY <1>6, <2>3, <3>2 DEF QuadraticSwap, QuadraticSwapT2T
    <3> QED
      BY <1>1, <3>1, <3>2
  <2>6. kept \in Nat /\ (p.ver = "QuadraticV1" => kept = p.kept /\ back = m)
        /\ (p.ver = "QuadraticT2T" => kept = p.kept + cut)
    BY <1>1, <2>4
  <2>7. LockedOf(p) \in Nat
    BY <1>1 DEF LockedOf
  <2>8. res \in [Side -> Nat] /\ res["x"] = x - back /\ res["y"] = y + amount
    <3>1. x - back \in Nat
      BY <1>1, <2>2, <2>4, <2>7
    <3> QED
      BY <1>1, <3>1 DEF Pair, Side
  <2> HIDE DEF kept, res, q, m, back, cut, fee, t
  <2>9. /\ q.res = res /\ q.kept = kept /\ q = [f \in QuadraticFields |-> q[f]]
        /\ \A f \in QuadraticFields \ {"res", "kept"} : q[f] = p[f]
    BY <1>1, <2>5 DEF QuadraticFields
  <2>10. /\ q.ver = p.ver /\ q.native = p.native /\ q.base = p.base /\ q.lq = p.lq
         /\ q.aNum = p.aNum /\ q.bNum = p.bNum /\ q.cap = p.cap /\ q.parts = p.parts
    BY <2>9 DEF QuadraticFields
  <2>11. y + amount <= Emission
    BY <1>1, <1>2, <2>1
  <2>12. QuadraticTyped(q)
    BY <1>1, <2>6, <2>8, <2>9, <2>10, <2>11 DEF QuadraticTyped
  <2>13. Supply(q) = t - amount /\ t - amount \in Nat /\ t - amount <= t
    BY <1>1, <1>2, <2>1, <2>8, <2>9 DEF Supply
  <2>14. Scaled(-m) >= CostTo(p, t - amount) - CostTo(p, t)
    <3>1. /\ CurveCost(p, t - amount, t) = CostTo(p, t) - CostTo(p, t - amount)
          /\ CostTo(p, t) \in Nat /\ CostTo(p, t - amount) \in Nat
      BY <1>1, <1>2, <2>13, CostFacts
    <3>2. m \in Int /\ 0 - m = -m
      BY <2>2
    <3>3. Scaled(0 - m) = Scaled(0) - Scaled(m) /\ Scaled(0) = 0 /\ Scaled(m) \in Int
      BY <3>2, ScaledFacts
    <3>4. Scaled(-m) = -Scaled(m) /\ Scaled(m) \in Int
      BY <3>2, <3>3
    <3> QED
      BY <2>2, <3>1, <3>4
  <2>15. q.res["x"] - LockedOf(q) >= p.res["x"] - LockedOf(p) + (-m)
    BY <1>1, <2>2, <2>4, <2>6, <2>8, <2>9, <2>10 DEF LockedOf
  <2>16. QuadraticPool(q)
    <3>1. -m \in Int
      BY <2>2
    <3> QED
      BY <2>10, <2>12, <2>13, <2>14, <2>15, <3>1, QuadraticTrade DEF t
  <2> QED
    BY <2>6, <2>9, <2>10, <2>16 DEF q
<1> QED
  BY <1>1, <1>5, <1>6 DEF Side

(* The kinds of pools are disjoint.                                        *)
LEMMA PoolKinds ==
    /\ CfmmVer \cap BalanceVer = {} /\ CfmmVer \cap QuadraticVer = {}
    /\ BalanceVer \cap QuadraticVer = {}
    /\ "Stable" \notin CfmmVer \cup BalanceVer \cup QuadraticVer
    /\ QuadraticVer = {"QuadraticV1", "QuadraticT2T"}
BY DEF CfmmVer, ClassicVer, FeeSwitchVer, RoyaltyVer, BalanceVer, QuadraticVer

(* What all sound pools have in common.                                    *)
LEMMA PoolOkFacts ==
    ASSUME NEW p, PoolOk(p)
    PROVE  /\ p.res \in [Side -> Nat] /\ p.lq \in Nat
           /\ p.native \in Side \cup {"none"} /\ p.base \in Side
           /\ p.ver \in CfmmVer \cup BalanceVer \cup QuadraticVer
BY PoolMathAssumption
   DEF PoolOk, CfmmPool, CfmmTyped, BalancePool, QuadraticPool, QuadraticTyped, Side

(* Adding to the amount of one asset leaves the others.                    *)
LEMMA AddAssetFacts ==
    ASSUME NEW v, IsValue(v), NEW native \in Side \cup {"none"}, NEW s \in Side, NEW n \in Int
    PROVE  LET w == AddAsset(v, native, s, n)
           IN  /\ IsValue(w) /\ w.lq = v.lq
               /\ AmountOf(w, native, s) = AmountOf(v, native, s) + n
               /\ AmountOf(w, native, Other(s)) = AmountOf(v, native, Other(s))
               /\ native \in Side => w[native] = v[native]
               /\ native = "none" => w.ada = v.ada
<1>1. (s = "x" \/ s = "y") /\ (native = "x" \/ native = "y" \/ native = "none")
  BY DEF Side
<1>2. CASE s = native
  BY <1>1, <1>2 DEF AddAsset, IsValue, AmountOf, Other, Side
<1>3. CASE s # native /\ s = "x"
  <2>1. AddAsset(v, native, s, n) = [ada |-> v.ada, x |-> v.x + n, y |-> v.y, lq |-> v.lq]
    BY <1>3 DEF AddAsset, IsValue
  <2>2. native = "y" \/ native = "none"
    BY <1>1, <1>3
  <2> QED
    BY <1>3, <2>1, <2>2 DEF IsValue, AmountOf, Other, Side
<1>4. CASE s # native /\ s = "y"
  <2>1. AddAsset(v, native, s, n) = [ada |-> v.ada, x |-> v.x, y |-> v.y + n, lq |-> v.lq]
    BY <1>4 DEF AddAsset, IsValue
  <2>2. native = "x" \/ native = "none"
    BY <1>1, <1>4
  <2> QED
    BY <1>4, <2>1, <2>2 DEF IsValue, AmountOf, Other, Side
<1> QED
  BY <1>1, <1>2, <1>3, <1>4

(* What the order book sees of the reserves: all but what is held back.    *)
HeldBack(p, s) == IF p.ver = "QuadraticV1" /\ s = "x" THEN MinAda ELSE 0

(* For every kind it is the same.                                          *)
LEMMA LiquidityFacts ==
    ASSUME NEW p, PoolOk(p)
    PROVE  AnyLiquidity(p) = [base  |-> p.res[p.base] - HeldBack(p, p.base),
                              quote |-> p.res[Other(p.base)] - HeldBack(p, Other(p.base))]
<1>1. p.base \in Side /\ Other(p.base) \in Side /\ p.res["x"] \in Nat /\ p.res["y"] \in Nat
      /\ p.res[p.base] \in Nat /\ p.res[Other(p.base)] \in Nat
  BY PoolOkFacts, Sides DEF Side
<1>2. CASE p.ver \in CfmmVer \cup BalanceVer
  <2>1. p.ver # "QuadraticV1" /\ p.ver \notin QuadraticVer
    BY <1>2, PoolKinds
  <2>2. HeldBack(p, p.base) = 0 /\ HeldBack(p, Other(p.base)) = 0
    BY <2>1 DEF HeldBack
  <2>3. AnyLiquidity(p) = [base |-> p.res[p.base], quote |-> p.res[Other(p.base)]]
    BY <1>2 DEF AnyLiquidity, ClassicLiquidity, BalanceLiquidity
  <2> QED
    BY <1>1, <2>2, <2>3
<1>3. CASE p.ver \in QuadraticVer
  <2>1. QuadraticPool(p) /\ AnyLiquidity(p) = QuadraticLiquidity(p)
    BY <1>3, PoolKinds DEF PoolOk, AnyLiquidity
  <2>2. p.ver = "QuadraticV1" => p.res["x"] >= MinAda
    <3>1. Supply(p) \in Nat /\ p.aNum \in Nat /\ p.bNum \in Nat /\ MinAda \in Nat
      BY <1>1, <2>1, QuadraticPoolsAssumption DEF QuadraticPool, QuadraticTyped, Supply
    <3>2. CurveCost(p, 0, Supply(p)) \in Nat
      <4>1. CurveCost(p, 0, Supply(p)) = CostTo(p, Supply(p)) - CostTo(p, 0)
            /\ CostTo(p, 0) = 0 /\ CostTo(p, Supply(p)) \in Nat
        BY <3>1, CostFacts
      <4> QED
        BY <4>1
    <3> HAVE p.ver = "QuadraticV1"
    <3> DEFINE r == p.res["x"] - MinAda
    <3>3. r \in Int
      BY <1>1, <3>1
    <3>4. Scaled(r) >= CurveCost(p, 0, Supply(p))
      BY <2>1 DEF QuadraticPool, Backed, LockedOf
    <3> HIDE DEF r
    <3>5. 0 \in Int /\ Scaled(0) = 0 /\ Scaled(r) \in Int
      BY <3>3, ScaledFacts
    <3>6. Scaled(0) <= Scaled(r)
      BY <3>2, <3>4, <3>5
    <3>7. 0 <= r
      BY <3>3, <3>5, <3>6, ScaledFacts
    <3> QED
      BY <1>1, <3>1, <3>7 DEF r
  <2>3. CASE p.ver = "QuadraticV1"
    BY <1>1, <2>1, <2>2, <2>3, QuadraticPoolsAssumption
       DEF QuadraticLiquidity, QuadraticPool, QuadraticTyped, HeldBack, Other, Side
  <2>4. CASE p.ver = "QuadraticT2T"
    BY <1>1, <2>1, <2>4 DEF QuadraticLiquidity, QuadraticPool, QuadraticTyped, HeldBack, Other, Side
  <2> QED
    BY <1>3, <2>3, <2>4, PoolKinds
<1> QED
  BY <1>2, <1>3, PoolOkFacts

(* What the engine adds to the output it has consumed and takes from it    *)
(* makes it the pool it goes on with.                                      *)
LEMMA ProducedValue ==
    ASSUME NEW p, PoolOk(p), NEW q, PoolOk(q), q.ver = p.ver, q.native = p.native,
           q.base = p.base, q.lq = p.lq, TradeSide(p, q) # Refused,
           NEW u, ValueHolds(p, u.value), "value" \in DOMAIN u
    PROVE  ValueHolds(q, Produced(u, p, q).value)
<1> DEFINE b == p.base
           c == Other(b)
           s == InputSide(p, TradeSide(p, q))
           gain == Gain(p, q)
           loss == Loss(p, q)
           v == u.value
           v1 == AddAsset(v, p.native, Other(s), -loss)
           v2 == AddAsset(v1, p.native, s, gain)
<1>1. /\ p.res \in [Side -> Nat] /\ q.res \in [Side -> Nat] /\ b \in Side /\ c \in Side /\ c # b
      /\ p.native \in Side \cup {"none"} /\ \A t \in Side : t = b \/ t = c
  BY PoolOkFacts, Sides
<1>2. /\ AnyLiquidity(p) = [base |-> p.res[b] - HeldBack(p, b), quote |-> p.res[c] - HeldBack(p, c)]
      /\ AnyLiquidity(q) = [base |-> q.res[b] - HeldBack(p, b), quote |-> q.res[c] - HeldBack(p, c)]
      /\ HeldBack(p, b) \in Nat /\ HeldBack(p, c) \in Nat
  BY LiquidityFacts, QuadraticPoolsAssumption DEF HeldBack
<1>3. p.res[b] \in Nat /\ p.res[c] \in Nat /\ q.res[b] \in Nat /\ q.res[c] \in Nat
  BY <1>1
<1>4. /\ s \in Side /\ gain \in Int /\ loss \in Int
      /\ q.res[s] = p.res[s] + gain /\ q.res[Other(s)] = p.res[Other(s)] - loss
  <2>1. CASE TradeSide(p, q) = "bid" /\ q.res[b] < p.res[b] /\ q.res[c] > p.res[c]
    <3>1. s = c /\ Other(s) = b
      BY <1>1, <2>1 DEF InputSide, Other, Side
    <3>2. gain = q.res[c] - p.res[c] /\ loss = p.res[b] - q.res[b]
      BY <1>2, <1>3, <2>1 DEF Gain, Loss
    <3> QED
      BY <1>1, <1>3, <3>1, <3>2
  <2>2. CASE TradeSide(p, q) = "ask" /\ q.res[b] > p.res[b] /\ q.res[c] < p.res[c]
    <3>1. s = b /\ Other(s) = c
      BY <1>1, <2>2 DEF InputSide
    <3>2. gain = q.res[b] - p.res[b] /\ loss = p.res[c] - q.res[c]
      BY <1>2, <1>3, <2>2 DEF Gain, Loss
    <3> QED
      BY <1>1, <1>3, <3>1, <3>2
  <2>3. \/ TradeSide(p, q) = "bid" /\ q.res[b] < p.res[b] /\ q.res[c] > p.res[c]
        \/ TradeSide(p, q) = "ask" /\ q.res[b] > p.res[b] /\ q.res[c] < p.res[c]
    BY <1>2, <1>3 DEF TradeSide
  <2> QED
    BY <2>1, <2>2, <2>3
<1>5. Produced(u, p, q).value = v2
  BY DEF Produced
<1> HIDE DEF b, c, s, gain, loss
<1>6. Other(s) \in Side /\ Other(Other(s)) = s /\ -loss \in Int /\ IsValue(v)
      /\ \A t \in Side : t = s \/ t = Other(s)
  BY <1>4, Sides DEF Other, Side, ValueHolds
<1>7. /\ IsValue(v1) /\ v1.lq = v.lq
      /\ AmountOf(v1, p.native, Other(s)) = AmountOf(v, p.native, Other(s)) + (-loss)
      /\ AmountOf(v1, p.native, s) = AmountOf(v, p.native, s)
      /\ p.native \in Side => v1[p.native] = v[p.native]
      /\ p.native = "none" => v1.ada = v.ada
  <2> HIDE DEF v
  <2>1. Other(s) \in Side /\ -loss \in Int /\ IsValue(v) /\ p.native \in Side \cup {"none"}
    BY <1>1, <1>6
  <2> QED
    BY <1>6, <2>1, AddAssetFacts
<1> HIDE DEF v1
<1>8. /\ IsValue(v2) /\ v2.lq = v1.lq
      /\ AmountOf(v2, p.native, s) = AmountOf(v1, p.native, s) + gain
      /\ AmountOf(v2, p.native, Other(s)) = AmountOf(v1, p.native, Other(s))
      /\ p.native \in Side => v2[p.native] = v1[p.native]
      /\ p.native = "none" => v2.ada = v1.ada
  BY <1>1, <1>4, <1>6, <1>7, AddAssetFacts
<1> HIDE DEF v2
<1>9. ASSUME NEW t \in Side PROVE AmountOf(v2, q.native, t) = q.res[t]
  <2>1. AmountOf(v, p.native, s) = p.res[s] /\ AmountOf(v, p.native, Other(s)) = p.res[Other(s)]
    BY <1>4, <1>6 DEF ValueHolds
  <2>2. p.res[s] \in Nat /\ p.res[Other(s)] \in Nat
    BY <1>1, <1>4, <1>6
  <2> QED
    BY <1>4, <1>6, <1>7, <1>8, <2>1, <2>2
<1>10. ValueHolds(q, v2)
  BY <1>7, <1>8, <1>9 DEF ValueHolds
<1> QED
  BY <1>5, <1>10

(* The value an order leaves is made from the pool in memory.              *)
LEMMA PooledFacts ==
    ASSUME NEW q, PoolOk(q), NEW u, q.native = "none" => u.value.ada \in Nat
    PROVE  ValueHolds(q, PooledValue(q, u))
<1>1. /\ q.res["x"] \in Nat /\ q.res["y"] \in Nat /\ q.lq \in Nat
      /\ q.native \in {"x", "y", "none"} /\ MaxLqCap \in Nat
  BY PoolOkFacts, PoolMathAssumption DEF Side
<1>2. CASE q.native = "x"
  BY <1>1, <1>2 DEF PooledValue, MadeOf, ValueHolds, IsValue, AmountOf, Side
<1>3. CASE q.native = "y"
  BY <1>1, <1>3 DEF PooledValue, MadeOf, ValueHolds, IsValue, AmountOf, Side
<1>4. CASE q.native = "none"
  BY <1>1, <1>4 DEF PooledValue, MadeOf, ValueHolds, IsValue, AmountOf, Side
<1> QED
  BY <1>1, <1>2, <1>3, <1>4

(* An output with the pool's value and datum is read as the pool.          *)
LEMMA ReservesRead ==
    ASSUME NEW p, PoolOk(p), NEW u, ValueHolds(p, u.value)
    PROVE  /\ Reserves(u, p.native) = p.res
           /\ p.ver \notin QuadraticVer => MaxLqCap - u.value.lq = p.lq
<1>1. p.res = [s \in Side |-> p.res[s]] /\ p.lq \in Nat /\ MaxLqCap \in Nat
  BY PoolOkFacts, PoolMathAssumption
<1>2. Reserves(u, p.native) = [s \in Side |-> p.res[s]]
  BY DEF Reserves, ValueHolds
<1> QED
  BY <1>1, <1>2 DEF ValueHolds

(* A constant-product pool reads back,                                     *)
LEMMA CfmmReadsBack ==
    ASSUME NEW p, p.ver \in CfmmVer, PoolOk(p), p.ver # "FeeSwitchBiDir",
           NEW u, u.ver = p.ver, ValueHolds(p, u.value), CfmmHolds(p, u)
    PROVE  ParseCfmm(u, p.native, p.base) \in {p, Refused}
<1> DEFINE P == Parsed(u, p.native, p.base)
<1>1. CfmmTyped(p) /\ p = [f \in CfmmFields |-> p[f]]
  BY PoolKinds DEF PoolOk, CfmmPool, CfmmTyped
<1>2. /\ P.ver = p.ver /\ P.native = p.native /\ P.base = p.base /\ P.res = p.res /\ P.lq = p.lq
      /\ P.stake = p.stake /\ P.treasury = Zero /\ P.first = Zero /\ P.second = Zero
      /\ P.fee = Zero /\ P.tfee = 0 /\ P.fee1 = 0 /\ P.fee2 = 0 /\ P.nonce = 0 /\ P.bound = 0
      /\ P.admin = NoKey /\ P.treasuryAddress = NoKey /\ P.key1 = NoKey /\ P.key2 = NoKey
      /\ P = [f \in CfmmFields |-> P[f]]
  <2>1. Reserves(u, p.native) = p.res /\ MaxLqCap - u.value.lq = p.lq /\ u.stake = p.stake
    BY ReservesRead, PoolKinds DEF CfmmHolds
  <2> QED
    BY <2>1 DEF Parsed, CfmmFields
<1> HIDE DEF P
<1>3. CASE p.ver \in ClassicVer
  <2>1. /\ p.treasury = Zero /\ p.first = Zero /\ p.second = Zero
        /\ p.tfee = 0 /\ p.fee1 = 0 /\ p.fee2 = 0
    BY <1>1, <1>3 DEF CfmmTyped, ClassicVer, RoyaltyVer
  <2>2. /\ p.nonce = 0 /\ p.admin = NoKey /\ p.treasuryAddress = NoKey
        /\ p.key1 = NoKey /\ p.key2 = NoKey
    BY <1>3 DEF CfmmHolds, Blank, ClassicVer, RoyaltyVer
  <2> DEFINE w == ParseClassic(u, p.native, p.base)
  <2>3. w = [P EXCEPT !.bound = p.bound, !.fee = p.fee]
    BY <1>3 DEF ParseClassic, LegacyConfig, CfmmHolds, LegacyHolds, P
  <2> HIDE DEF w
  <2>4. w = [f \in CfmmFields |-> w[f]] /\ \A f \in CfmmFields : w[f] = p[f]
    BY <1>2, <2>1, <2>2, <2>3 DEF CfmmFields
  <2>5. w = p
    BY <1>1, <2>4
  <2> QED
    BY <1>3, <2>5 DEF ParseCfmm, w
<1>4. CASE p.ver \in FeeSwitchVer
  <2>1. p.first = Zero /\ p.second = Zero /\ p.fee1 = 0 /\ p.fee2 = 0
    BY <1>1, <1>4 DEF CfmmTyped, FeeSwitchVer, RoyaltyVer
  <2>2. /\ p.nonce = 0 /\ p.admin = NoKey /\ p.treasuryAddress = NoKey
        /\ p.key1 = NoKey /\ p.key2 = NoKey
    BY <1>4 DEF CfmmHolds, Blank, FeeSwitchVer, RoyaltyVer
  <2> DEFINE w == [P EXCEPT !.fee = p.fee, !.tfee = p.tfee, !.treasury = p.treasury,
                            !.bound = p.bound]
  <2>3. ParseFeeSwitch(u, p.native, p.base) = IF Accepted(w, u) THEN w ELSE Refused
    BY <1>4 DEF ParseFeeSwitch, FeeSwitchConfig, CfmmHolds, FeeSwitchHolds, P
  <2>4. w = [f \in CfmmFields |-> w[f]] /\ \A f \in CfmmFields : w[f] = p[f]
    BY <1>2, <2>1, <2>2 DEF CfmmFields
  <2> HIDE DEF w
  <2>5. w = p
    BY <1>1, <2>4
  <2>6. ParseCfmm(u, p.native, p.base) = ParseFeeSwitch(u, p.native, p.base)
    BY <1>4 DEF ParseCfmm, ClassicVer, FeeSwitchVer
  <2> QED
    BY <2>3, <2>5, <2>6
<1>5. CASE p.ver \in RoyaltyVer
  <2>1. p.bound = 0 /\ (p.ver # "RoyaltyV2" => p.key2 = NoKey /\ p.second = Zero /\ p.fee2 = 0)
    BY <1>1, <1>5 DEF CfmmTyped, CfmmHolds, Blank
  <2> DEFINE w == [P EXCEPT !.fee = p.fee, !.tfee = p.tfee,
                 !.fee1 = p.fee1, !.fee2 = p.fee2, !.treasury = p.treasury,
                 !.first = p.first, !.second = p.second, !.admin = p.admin,
                 !.treasuryAddress = p.treasuryAddress,
                 !.key1 = p.key1, !.key2 = p.key2, !.nonce = p.nonce]
             conf == IF u.ver = "RoyaltyV2" THEN RoyaltyV2Config(u.datum) ELSE RoyaltyConfig(u.datum)
  <2>2. /\ Pair(conf.fee, conf.fee) = p.fee /\ conf.tfee = p.tfee /\ conf.fee1 = p.fee1
        /\ conf.fee2 = p.fee2 /\ conf.treasury = p.treasury /\ conf.first = p.first
        /\ conf.second = p.second /\ conf.admin = p.admin
        /\ conf.treasuryAddress = p.treasuryAddress /\ conf.key1 = p.key1
        /\ conf.key2 = p.key2 /\ conf.nonce = p.nonce
    <3>1. CASE p.ver = "RoyaltyV2"
      BY <3>1 DEF CfmmHolds, RoyaltyV2Holds, RoyaltyV2Config
    <3>2. CASE p.ver # "RoyaltyV2"
      BY <1>5, <2>1, <3>2 DEF CfmmHolds, RoyaltyHolds, RoyaltyConfig
    <3> QED
      BY <3>1, <3>2
  <2>3. ParseRoyalty(u, p.native, p.base) =
          LET r == [P EXCEPT
                 !.fee = Pair(conf.fee, conf.fee), !.tfee = conf.tfee,
                 !.fee1 = conf.fee1, !.fee2 = conf.fee2, !.treasury = conf.treasury,
                 !.first = conf.first, !.second = conf.second, !.admin = conf.admin,
                 !.treasuryAddress = conf.treasuryAddress,
                 !.key1 = conf.key1, !.key2 = conf.key2, !.nonce = conf.nonce]
          IN  IF Accepted(r, u) THEN r ELSE Refused
    BY DEF ParseRoyalty, P
  <2> HIDE DEF conf
  <2>4. ParseRoyalty(u, p.native, p.base) = IF Accepted(w, u) THEN w ELSE Refused
    BY <2>2, <2>3
  <2>5. w = [f \in CfmmFields |-> w[f]] /\ \A f \in CfmmFields : w[f] = p[f]
    BY <1>2, <2>1 DEF CfmmFields
  <2> HIDE DEF w
  <2>6. w = p
    BY <1>1, <2>5
  <2>7. ParseCfmm(u, p.native, p.base) = ParseRoyalty(u, p.native, p.base)
    BY <1>5 DEF ParseCfmm, ClassicVer, FeeSwitchVer, RoyaltyVer
  <2> QED
    BY <2>4, <2>6, <2>7
<1> QED
  BY <1>3, <1>4, <1>5 DEF CfmmVer

(* and so does every kind that writes what it reads.                       *)
LEMMA ReadsBack ==
    ASSUME NEW p, PoolOk(p), p.ver \in RoundTrip,
           NEW u, u.ver = p.ver, ValueHolds(p, u.value), DatumHolds(p, u)
    PROVE  AnyParse(u, p.native, p.base) \in {p, Refused}
<1>1. CASE p.ver \in CfmmVer
  <2>1. p.ver # "FeeSwitchBiDir" /\ CfmmHolds(p, u)
    BY <1>1, PoolKinds DEF RoundTrip, DatumHolds, BalanceVer, QuadraticVer
  <2>2. AnyParse(u, p.native, p.base) = ParseCfmm(u, p.native, p.base)
    BY <1>1 DEF AnyParse
  <2> QED
    BY <1>1, <2>1, <2>2, CfmmReadsBack
<1>2. CASE p.ver \in BalanceVer
  <2>1. BalancePool(p) /\ p = [f \in BalanceFields |-> p[f]] /\ BalanceHolds(p, u.datum)
    BY <1>2, PoolKinds DEF PoolOk, BalancePool, DatumHolds
  <2>2. Reserves(u, p.native) = p.res /\ MaxLqCap - u.value.lq = p.lq
    BY <1>2, PoolKinds, ReservesRead
  <2> DEFINE w == [ver |-> u.ver, native |-> p.native, base |-> p.base,
                   res |-> Reserves(u, p.native), lq |-> MaxLqCap - u.value.lq,
                   weight |-> Pair(AdaWeight, TokenWeight),
                   fee |-> p.fee, tfee |-> p.tfee, treasury |-> p.treasury]
  <2>3. ParseBalance(u, p.native, p.base) \in {w, Refused}
    BY <2>1 DEF ParseBalance, BalanceConfig, BalanceHolds
  <2>4. w = [f \in BalanceFields |-> w[f]] /\ \A f \in BalanceFields : w[f] = p[f]
    BY <2>1, <2>2 DEF BalanceFields, BalancePool
  <2> HIDE DEF w
  <2>5. w = p
    BY <2>1, <2>4
  <2> QED
    BY <1>2, <2>3, <2>5, PoolKinds DEF AnyParse
<1>3. CASE p.ver \in QuadraticVer
  <2>1. QuadraticTyped(p) /\ p = [f \in QuadraticFields |-> p[f]] /\ QuadraticHolds(p, u.datum)
    BY <1>3, PoolKinds DEF PoolOk, QuadraticPool, QuadraticTyped, DatumHolds
  <2>2. Reserves(u, p.native) = p.res
    BY ReservesRead
  <2> DEFINE w == [ver |-> u.ver, native |-> p.native, base |-> p.base,
                   res |-> Reserves(u, p.native), lq |-> MaxLqCap,
                   aNum |-> p.aNum, bNum |-> p.bNum, cap |-> p.cap, kept |-> p.kept,
                   parts |-> IF u.ver = "QuadraticV1" THEN 0 ELSE 1]
  <2>3. ParseQuadratic(u, p.native, p.base) \in {w, Refused}
    <3>1. CASE p.ver = "QuadraticV1"
      BY <2>1, <3>1 DEF ParseQuadratic, QuadraticConfig, QuadraticHolds, QuadraticTyped
    <3>2. CASE p.ver = "QuadraticT2T"
      BY <2>1, <3>2 DEF ParseQuadratic, QuadraticConfig, QuadraticT2TConfig, QuadraticHolds
    <3> QED
      BY <1>3, <3>1, <3>2, PoolKinds
  <2>4. w = [f \in QuadraticFields |-> w[f]] /\ \A f \in QuadraticFields : w[f] = p[f]
    BY <2>1, <2>2 DEF QuadraticFields, QuadraticTyped
  <2> HIDE DEF w
  <2>5. w = p
    BY <2>1, <2>4
  <2> QED
    BY <1>3, <2>3, <2>5, PoolKinds DEF AnyParse
<1> QED
  BY <1>1, <1>2, <1>3, PoolOkFacts

(* What neither swaps nor orders change.                                   *)
SameConfig(p, q) ==
    /\ q.ver = p.ver /\ q.native = p.native /\ q.base = p.base
    /\ p.ver \in CfmmVer =>
          /\ q.bound = p.bound /\ q.key1 = p.key1 /\ q.key2 = p.key2
          /\ p.ver \notin RoyaltyVer =>
                /\ q.fee = p.fee /\ q.tfee = p.tfee /\ q.nonce = p.nonce
                /\ q.admin = p.admin /\ q.treasuryAddress = p.treasuryAddress
          /\ p.ver \in RoyaltyVer => q.fee["x"] = q.fee["y"]
    /\ p.ver \in BalanceVer => q.fee = p.fee /\ q.tfee = p.tfee
    /\ p.ver \in QuadraticVer => q.aNum = p.aNum /\ q.bNum = p.bNum /\ q.cap = p.cap

(* A pair of amounts is its parts.                                         *)
LEMMA PairOf ==
    ASSUME NEW a, a = [s \in Side |-> a[s]]
    PROVE  Pair(a["x"], a["y"]) = a
BY DEF Pair, Side

(* A royalty pool's datum, field by field.                                *)
LEMMA FourWrites ==
    ASSUME NEW d, NEW i, NEW j, NEW k, NEW l, NEW a, NEW b, NEW c, NEW e,
           {i, j, k, l} \subseteq DOMAIN d, i # j, i # k, i # l, j # k, j # l, k # l
    PROVE  LET w == [d EXCEPT ![i] = a, ![j] = b, ![k] = c, ![l] = e]
           IN  /\ DOMAIN w = DOMAIN d
               /\ w[i] = a /\ w[j] = b /\ w[k] = c /\ w[l] = e
               /\ \A n \in DOMAIN d \ {i, j, k, l} : w[n] = d[n]
OBVIOUS

(* The datum a royalty pool with two holders writes,                       *)
LEMMA V2Written ==
    ASSUME NEW d, NEW q, 4 .. 18 \subseteq DOMAIN d
    PROVE  LET e == UpdateRoyaltyV2(d, q)
           IN  /\ DOMAIN e = DOMAIN d
               /\ e[4] = q.fee["x"] /\ e[5] = q.tfee /\ e[6] = q.fee1 /\ e[7] = q.fee2
               /\ e[8] = q.treasury["x"] /\ e[9] = q.treasury["y"]
               /\ e[10] = q.first["x"] /\ e[11] = q.first["y"]
               /\ e[12] = q.second["x"] /\ e[13] = q.second["y"]
               /\ e[14] = <<q.admin>> /\ e[15] = q.treasuryAddress
               /\ e[16] = d[16] /\ e[17] = d[17] /\ e[18] = q.nonce
<1> DEFINE d1 == [d EXCEPT ![4] = q.fee["x"], ![5] = q.tfee, ![6] = q.fee1, ![7] = q.fee2]
           d2 == [d1 EXCEPT ![8] = q.treasury["x"], ![9] = q.treasury["y"],
                            ![10] = q.first["x"], ![11] = q.first["y"]]
           d3 == [d2 EXCEPT ![12] = q.second["x"], ![13] = q.second["y"],
                            ![14] = <<q.admin>>, ![15] = q.treasuryAddress]
           e == UpdateRoyaltyV2(d, q)
<1>0. e = [d3 EXCEPT ![18] = q.nonce]
  BY DEF UpdateRoyaltyV2
<1>1. /\ {4, 5, 6, 7} \subseteq DOMAIN d /\ {8, 9, 10, 11} \subseteq DOMAIN d
      /\ {12, 13, 14, 15} \subseteq DOMAIN d /\ 18 \in DOMAIN d /\ {16, 17} \subseteq DOMAIN d
  OBVIOUS
<1>2. /\ DOMAIN d1 = DOMAIN d
      /\ d1[4] = q.fee["x"] /\ d1[5] = q.tfee /\ d1[6] = q.fee1 /\ d1[7] = q.fee2
      /\ \A n \in DOMAIN d \ {4, 5, 6, 7} : d1[n] = d[n]
  BY <1>1, FourWrites
<1> HIDE DEF d1
<1>3. /\ DOMAIN d2 = DOMAIN d1
      /\ d2[8] = q.treasury["x"] /\ d2[9] = q.treasury["y"]
      /\ d2[10] = q.first["x"] /\ d2[11] = q.first["y"]
      /\ \A n \in DOMAIN d1 \ {8, 9, 10, 11} : d2[n] = d1[n]
  BY <1>1, <1>2, FourWrites
<1> HIDE DEF d2
<1>4. /\ DOMAIN d3 = DOMAIN d2
      /\ d3[12] = q.second["x"] /\ d3[13] = q.second["y"]
      /\ d3[14] = <<q.admin>> /\ d3[15] = q.treasuryAddress
      /\ \A n \in DOMAIN d2 \ {12, 13, 14, 15} : d3[n] = d2[n]
  BY <1>1, <1>2, <1>3, FourWrites
<1> HIDE DEF d3, e
<1>5. DOMAIN e = DOMAIN d3 /\ e[18] = q.nonce /\ \A n \in DOMAIN d3 \ {18} : e[n] = d3[n]
  BY <1>0, <1>1, <1>2, <1>3, <1>4
<1>6. /\ e[4] = q.fee["x"] /\ e[5] = q.tfee /\ e[6] = q.fee1 /\ e[7] = q.fee2
      /\ e[8] = q.treasury["x"] /\ e[9] = q.treasury["y"]
      /\ e[10] = q.first["x"] /\ e[11] = q.first["y"]
  BY <1>1, <1>2, <1>3, <1>4, <1>5
<1>7. /\ e[12] = q.second["x"] /\ e[13] = q.second["y"]
      /\ e[14] = <<q.admin>> /\ e[15] = q.treasuryAddress
      /\ e[16] = d[16] /\ e[17] = d[17]
  BY <1>1, <1>2, <1>3, <1>4, <1>5
<1> QED
  BY <1>2, <1>3, <1>4, <1>5, <1>6, <1>7 DEF e

(* and that of one with one holder.                                        *)
LEMMA V1Written ==
    ASSUME NEW d, NEW q, 4 .. 14 \subseteq DOMAIN d
    PROVE  LET e == UpdateRoyalty(d, q)
           IN  /\ DOMAIN e = DOMAIN d
               /\ e[4] = q.fee["x"] /\ e[5] = q.tfee /\ e[6] = q.fee1
               /\ e[7] = q.treasury["x"] /\ e[8] = q.treasury["y"]
               /\ e[9] = q.first["x"] /\ e[10] = q.first["y"]
               /\ e[11] = <<q.admin>> /\ e[12] = q.treasuryAddress
               /\ e[13] = d[13] /\ e[14] = q.nonce
<1> DEFINE d1 == [d EXCEPT ![4] = q.fee["x"], ![5] = q.tfee, ![6] = q.fee1,
                           ![7] = q.treasury["x"]]
           d2 == [d1 EXCEPT ![8] = q.treasury["y"], ![9] = q.first["x"], ![10] = q.first["y"],
                            ![11] = <<q.admin>>]
           e == UpdateRoyalty(d, q)
<1>0. e = [d2 EXCEPT ![12] = q.treasuryAddress, ![14] = q.nonce]
  BY DEF UpdateRoyalty
<1>1. /\ {4, 5, 6, 7} \subseteq DOMAIN d /\ {8, 9, 10, 11} \subseteq DOMAIN d
      /\ {12, 13, 14} \subseteq DOMAIN d
  OBVIOUS
<1>2. /\ DOMAIN d1 = DOMAIN d
      /\ d1[4] = q.fee["x"] /\ d1[5] = q.tfee /\ d1[6] = q.fee1 /\ d1[7] = q.treasury["x"]
      /\ \A n \in DOMAIN d \ {4, 5, 6, 7} : d1[n] = d[n]
  BY <1>1, FourWrites
<1> HIDE DEF d1
<1>3. /\ DOMAIN d2 = DOMAIN d1
      /\ d2[8] = q.treasury["y"] /\ d2[9] = q.first["x"]
      /\ d2[10] = q.first["y"] /\ d2[11] = <<q.admin>>
      /\ \A n \in DOMAIN d1 \ {8, 9, 10, 11} : d2[n] = d1[n]
  BY <1>1, <1>2, FourWrites
<1> HIDE DEF d2, e
<1>4. /\ DOMAIN e = DOMAIN d2 /\ e[12] = q.treasuryAddress /\ e[14] = q.nonce
      /\ \A n \in DOMAIN d2 \ {12, 14} : e[n] = d2[n]
  BY <1>0, <1>1, <1>2, <1>3
<1>5. /\ e[4] = q.fee["x"] /\ e[5] = q.tfee /\ e[6] = q.fee1 /\ e[7] = q.treasury["x"]
      /\ e[8] = q.treasury["y"] /\ e[9] = q.first["x"]
      /\ e[10] = q.first["y"] /\ e[11] = <<q.admin>> /\ e[13] = d[13]
  BY <1>1, <1>2, <1>3, <1>4
<1> QED
  BY <1>2, <1>3, <1>4, <1>5 DEF e

(* The datum written for the pool after a step holds that pool, if the one *)
(* it was made from held the pool before.                                  *)
LEMMA DatumWritten ==
    ASSUME NEW p, p.ver \in RoundTrip, NEW q, PoolOk(q), SameConfig(p, q),
           NEW u, DatumHolds(p, u), Written(p.ver) \subseteq DOMAIN u.datum,
           NEW v, v.datum = UpdateDatum(u.datum, q), p.ver \in CfmmVer => v.stake = q.stake
    PROVE  DatumHolds(q, v) /\ Written(p.ver) \subseteq DOMAIN v.datum
<1> DEFINE d == u.datum
           e == v.datum
<1>1. q.ver = p.ver
  BY DEF SameConfig
<1>2. CASE p.ver \in ClassicVer
  <2>1. e = d /\ p.ver \in CfmmVer /\ p.ver \notin FeeSwitchVer /\ p.ver \notin RoyaltyVer
        /\ p.ver # "RoyaltyV2"
    BY <1>1, <1>2 DEF UpdateDatum, CfmmVer, ClassicVer, FeeSwitchVer, RoyaltyVer
  <2>2. CfmmHolds(q, v)
    BY <1>1, <1>2, <2>1 DEF DatumHolds, CfmmHolds, LegacyHolds, Blank, SameConfig
  <2> QED
    BY <1>1, <2>1, <2>2, PoolKinds DEF DatumHolds
<1>3. CASE p.ver \in FeeSwitchVer
  <2>1. /\ e = UpdateFeeSwitch(d, q.treasury) /\ p.ver \in CfmmVer
        /\ p.ver \notin ClassicVer /\ p.ver \notin RoyaltyVer /\ p.ver # "RoyaltyV2"
        /\ p.ver \in {"FeeSwitchV1", "FeeSwitchV2"}
    BY <1>1, <1>3
       DEF UpdateDatum, CfmmVer, ClassicVer, FeeSwitchVer, RoyaltyVer, RoundTrip, BalanceVer, QuadraticVer
  <2>2. {4, 5, 6, 7} \subseteq DOMAIN d
    BY <2>1 DEF Written, NumbersOf
  <2>3. /\ DOMAIN e = DOMAIN d /\ e[4] = d[4] /\ e[5] = d[5]
        /\ e[6] = q.treasury["x"] /\ e[7] = q.treasury["y"]
        /\ 9 \in DOMAIN d => e[9] = d[9]
    BY <2>1, <2>2 DEF UpdateFeeSwitch
  <2>4. q.treasury = [s \in Side |-> q.treasury[s]]
    BY <1>1, <2>1, PoolKinds DEF PoolOk, CfmmPool, CfmmTyped
  <2> HIDE DEF d, e
  <2>5. FeeSwitchHolds(p, d)
    BY <1>3, <2>1 DEF DatumHolds, CfmmHolds, d
  <2>6. q.fee = p.fee /\ q.tfee = p.tfee /\ q.bound = p.bound
    BY <2>1 DEF SameConfig
  <2>7. FeeSwitchHolds(q, e)
    BY <2>3, <2>4, <2>5, <2>6, PairOf DEF FeeSwitchHolds, Optional
  <2>8. CfmmHolds(q, v)
    BY <1>1, <1>3, <2>1, <2>7 DEF DatumHolds, CfmmHolds, Blank, SameConfig, e
  <2> QED
    BY <1>1, <2>1, <2>3, <2>8, PoolKinds DEF DatumHolds, d, e
<1>4. CASE p.ver = "RoyaltyV2"
  <2>1. /\ e = UpdateRoyaltyV2(d, q) /\ p.ver \in CfmmVer /\ p.ver \in RoyaltyVer
        /\ p.ver \notin ClassicVer /\ p.ver \notin FeeSwitchVer
    BY <1>1, <1>4 DEF UpdateDatum, CfmmVer, ClassicVer, FeeSwitchVer, RoyaltyVer
  <2>2. 4 .. 18 \subseteq DOMAIN d
    <3>1. Written(p.ver) = (4 .. 13) \cup {18} \cup (14 .. 17)
      BY <1>4 DEF Written, NumbersOf, CredentialsOf, ClassicVer, BalanceVer
    <3> QED
      BY <3>1
  <2>3. /\ DOMAIN e = DOMAIN d
        /\ e[4] = q.fee["x"] /\ e[5] = q.tfee /\ e[6] = q.fee1 /\ e[7] = q.fee2
        /\ e[8] = q.treasury["x"] /\ e[9] = q.treasury["y"]
        /\ e[10] = q.first["x"] /\ e[11] = q.first["y"]
        /\ e[12] = q.second["x"] /\ e[13] = q.second["y"]
        /\ e[14] = <<q.admin>> /\ e[15] = q.treasuryAddress
        /\ e[16] = d[16] /\ e[17] = d[17] /\ e[18] = q.nonce
    <3> HIDE DEF d, e
    <3> QED
      BY <2>1, <2>2, V2Written
  <2>4. /\ q.treasury = [s \in Side |-> q.treasury[s]] /\ q.first = [s \in Side |-> q.first[s]]
        /\ q.second = [s \in Side |-> q.second[s]] /\ q.fee = [s \in Side |-> q.fee[s]]
        /\ q.fee["x"] = q.fee["y"]
    BY <1>1, <2>1, PoolKinds DEF PoolOk, CfmmPool, CfmmTyped, SameConfig
  <2> HIDE DEF d, e
  <2>5. RoyaltyV2Holds(p, d) /\ q.key1 = p.key1 /\ q.key2 = p.key2 /\ q.bound = p.bound
    BY <1>4, <2>1 DEF DatumHolds, CfmmHolds, SameConfig, d
  <2>6. /\ Pair(e[4], e[4]) = q.fee /\ Pair(e[8], e[9]) = q.treasury
        /\ Pair(e[10], e[11]) = q.first /\ Pair(e[12], e[13]) = q.second
    <3>1. Pair(q.fee["x"], q.fee["y"]) = q.fee /\ Pair(q.treasury["x"], q.treasury["y"]) = q.treasury
          /\ Pair(q.first["x"], q.first["y"]) = q.first
          /\ Pair(q.second["x"], q.second["y"]) = q.second
      BY <2>4, PairOf
    <3> QED
      BY <2>3, <2>4, <3>1
  <2>7. RoyaltyV2Holds(q, e)
    BY <2>3, <2>5, <2>6 DEF RoyaltyV2Holds
  <2>8. CfmmHolds(q, v)
    BY <1>1, <1>4, <2>1, <2>5, <2>7 DEF DatumHolds, CfmmHolds, Blank, e
  <2> QED
    BY <1>1, <2>1, <2>3, <2>8, PoolKinds DEF DatumHolds, d, e
<1>5. CASE p.ver \in RoyaltyVer /\ p.ver # "RoyaltyV2"
  <2>1. /\ e = UpdateRoyalty(d, q) /\ p.ver \in CfmmVer
        /\ p.ver \notin ClassicVer /\ p.ver \notin FeeSwitchVer
    BY <1>1, <1>5 DEF UpdateDatum, CfmmVer, ClassicVer, FeeSwitchVer, RoyaltyVer
  <2>2. 4 .. 14 \subseteq DOMAIN d
    <3>1. Written(p.ver) = (4 .. 10) \cup {14} \cup (11 .. 13)
      BY <1>5 DEF Written, NumbersOf, CredentialsOf, ClassicVer, BalanceVer, RoyaltyVer
    <3> QED
      BY <3>1
  <2>3. /\ DOMAIN e = DOMAIN d
        /\ e[4] = q.fee["x"] /\ e[5] = q.tfee /\ e[6] = q.fee1
        /\ e[7] = q.treasury["x"] /\ e[8] = q.treasury["y"]
        /\ e[9] = q.first["x"] /\ e[10] = q.first["y"]
        /\ e[11] = <<q.admin>> /\ e[12] = q.treasuryAddress
        /\ e[13] = d[13] /\ e[14] = q.nonce
    <3> HIDE DEF d, e
    <3> QED
      BY <2>1, <2>2, V1Written
  <2>4. /\ q.treasury = [s \in Side |-> q.treasury[s]] /\ q.first = [s \in Side |-> q.first[s]]
        /\ q.fee = [s \in Side |-> q.fee[s]] /\ q.fee["x"] = q.fee["y"]
    BY <1>1, <1>5, <2>1, PoolKinds DEF PoolOk, CfmmPool, CfmmTyped, SameConfig
  <2> HIDE DEF d, e
  <2>5. /\ RoyaltyHolds(p, d) /\ q.key1 = p.key1 /\ q.key2 = p.key2 /\ q.bound = p.bound
        /\ Blank(p)
    BY <1>5, <2>1 DEF DatumHolds, CfmmHolds, SameConfig, d
  <2>6. /\ Pair(e[4], e[4]) = q.fee /\ Pair(e[7], e[8]) = q.treasury
        /\ Pair(e[9], e[10]) = q.first
    <3>1. Pair(q.fee["x"], q.fee["y"]) = q.fee /\ Pair(q.treasury["x"], q.treasury["y"]) = q.treasury
          /\ Pair(q.first["x"], q.first["y"]) = q.first
      BY <2>4, PairOf
    <3> QED
      BY <2>3, <2>4, <3>1
  <2>7. RoyaltyHolds(q, e)
    BY <2>3, <2>5, <2>6 DEF RoyaltyHolds
  <2>8. CfmmHolds(q, v)
    BY <1>1, <1>5, <2>1, <2>5, <2>7 DEF CfmmHolds, Blank, e
  <2> QED
    BY <1>1, <2>1, <2>3, <2>8, PoolKinds DEF DatumHolds, d, e
<1>6. CASE p.ver \in BalanceVer
  <2>1. e = UpdateBalance(d, q.treasury)
    BY <1>1, <1>6
       DEF UpdateDatum, BalanceVer, ClassicVer, FeeSwitchVer, RoyaltyVer
  <2>2. {4, 5, 6, 7} \subseteq DOMAIN d
    BY <1>6 DEF Written, NumbersOf, ClassicVer, BalanceVer
  <2>3. /\ DOMAIN e = DOMAIN d /\ e[4] = d[4] /\ e[5] = d[5]
        /\ e[6] = q.treasury["x"] /\ e[7] = q.treasury["y"]
    BY <2>1, <2>2 DEF UpdateBalance
  <2>4. q.treasury = [s \in Side |-> q.treasury[s]]
    BY <1>1, <1>6, PoolKinds DEF PoolOk, BalancePool
  <2> HIDE DEF d, e
  <2>5. BalanceHolds(p, d)
    BY <1>6 DEF DatumHolds, d
  <2>6. q.fee = p.fee /\ q.tfee = p.tfee
    BY <1>6 DEF SameConfig
  <2>7. BalanceHolds(q, e)
    BY <2>3, <2>4, <2>5, <2>6, PairOf DEF BalanceHolds
  <2> QED
    BY <1>1, <1>6, <2>3, <2>7, PoolKinds DEF DatumHolds, d, e
<1>7. CASE p.ver = "QuadraticV1"
  <2>1. e = d
    BY <1>1, <1>7 DEF UpdateDatum
  <2> QED
    BY <1>1, <1>7, <2>1, PoolKinds DEF DatumHolds, QuadraticHolds, SameConfig
<1>8. CASE p.ver = "QuadraticT2T"
  <2>1. e = UpdateQuadratic(d, q.kept)
    BY <1>1, <1>8
       DEF UpdateDatum, BalanceVer, ClassicVer, FeeSwitchVer, RoyaltyVer
  <2>2. {3, 4, 6, 7} \subseteq DOMAIN d
    BY <1>8 DEF Written, NumbersOf, ClassicVer, BalanceVer, RoyaltyVer
  <2>3. /\ DOMAIN e = DOMAIN d /\ e[3] = d[3] /\ e[4] = d[4] /\ e[6] = d[6] /\ e[7] = q.kept
    BY <2>1, <2>2 DEF UpdateQuadratic
  <2> QED
    BY <1>1, <1>8, <2>3, PoolKinds DEF DatumHolds, QuadraticHolds, SameConfig
<1> QED
  BY <1>1, <1>2, <1>3, <1>4, <1>5, <1>6, <1>7, <1>8, PoolOkFacts, PoolKinds DEF CfmmVer

(* A pool whose reserves and shares have moved, and nothing else.          *)
Moved(p, q, res, lq) == q = [p EXCEPT !.res = res, !.lq = lq]

(* It is sound while no more is taken than can be traded.                  *)
LEMMA MovedOk ==
    ASSUME NEW p, PoolOk(p), p.ver \notin QuadraticVer, NEW res \in [Side -> Nat], NEW lq \in Nat,
           \A s \in Side : res[s] >= p.res[s] - PureOf(p)[s],
           NEW q, Moved(p, q, res, lq)
    PROVE  /\ PoolOk(q) /\ SameConfig(p, q) /\ (p.ver \in CfmmVer => q.stake = p.stake)
           /\ q.res = res /\ q.lq = lq
           /\ \A s \in Side : PureOf(q)[s] = res[s] - (p.res[s] - PureOf(p)[s])
<1>1. CASE p.ver \in CfmmVer
  <2>1. CfmmPool(p) /\ CfmmTyped(p) /\ Covered(p) /\ p = [f \in CfmmFields |-> p[f]]
    BY <1>1, PoolKinds DEF PoolOk, CfmmPool, CfmmTyped
  <2>2. /\ q.res = res /\ q.lq = lq /\ q = [f \in CfmmFields |-> q[f]]
        /\ \A f \in CfmmFields \ {"res", "lq"} : q[f] = p[f]
    BY <2>1 DEF CfmmFields, Moved
  <2>3. /\ q.ver = p.ver /\ q.native = p.native /\ q.base = p.base /\ q.stake = p.stake
        /\ q.treasury = p.treasury /\ q.first = p.first /\ q.second = p.second
        /\ q.fee = p.fee /\ q.tfee = p.tfee /\ q.fee1 = p.fee1 /\ q.fee2 = p.fee2
        /\ q.nonce = p.nonce /\ q.bound = p.bound /\ q.admin = p.admin
        /\ q.treasuryAddress = p.treasuryAddress /\ q.key1 = p.key1 /\ q.key2 = p.key2
    BY <2>2 DEF CfmmFields
  <2>4. CfmmTyped(q)
    BY <2>1, <2>2, <2>3 DEF CfmmTyped
  <2>5. \A s \in Side : /\ PureOf(p)[s] = p.res[s] - (p.treasury[s] + p.first[s] + p.second[s])
                         /\ p.res[s] \in Nat /\ res[s] \in Nat
                         /\ p.treasury[s] \in Nat /\ p.first[s] \in Nat /\ p.second[s] \in Nat
    BY <1>1, <2>1, PureFacts DEF PureOf, CfmmTyped
  <2>6. CfmmPool(q)
    BY <2>2, <2>3, <2>4, <2>5 DEF CfmmPool, Covered
  <2>7. \A s \in Side : PureOf(q)[s] = q.res[s] - (q.treasury[s] + q.first[s] + q.second[s])
    BY <1>1, <2>3, <2>6, PureFacts DEF PureOf
  <2>8. PoolOk(q) /\ SameConfig(p, q)
    BY <1>1, <2>1, <2>3, <2>6, PoolKinds DEF PoolOk, SameConfig, CfmmTyped
  <2> QED
    BY <2>2, <2>3, <2>5, <2>7, <2>8
<1>2. CASE p.ver \in BalanceVer
  <2>1. BalancePool(p) /\ p = [f \in BalanceFields |-> p[f]]
    BY <1>2, PoolKinds DEF PoolOk, BalancePool
  <2>2. /\ q.res = res /\ q.lq = lq /\ q = [f \in BalanceFields |-> q[f]]
        /\ \A f \in BalanceFields \ {"res", "lq"} : q[f] = p[f]
    BY <2>1 DEF BalanceFields, Moved
  <2>4. /\ q.ver = p.ver /\ q.native = p.native /\ q.base = p.base /\ q.weight = p.weight
        /\ q.treasury = p.treasury /\ q.fee = p.fee /\ q.tfee = p.tfee
    BY <2>2 DEF BalanceFields
  <2>5. \A s \in Side : /\ PureOf(p)[s] = p.res[s] - p.treasury[s]
                         /\ p.res[s] \in Nat /\ res[s] \in Nat /\ p.treasury[s] \in Nat
    BY <1>2, <2>1, BalancePureFacts, PoolKinds DEF PureOf, BalancePool, BalancePure
  <2>6. BalancePool(q)
    <3>1. \A s \in Side : q.treasury[s] <= q.res[s]
      BY <2>2, <2>4, <2>5
    <3> QED
      BY <2>1, <2>2, <2>4, <3>1 DEF BalancePool
  <2>7. \A s \in Side : PureOf(q)[s] = q.res[s] - q.treasury[s]
    BY <1>2, <2>4, <2>6, BalancePureFacts, PoolKinds DEF PureOf, BalancePure
  <2>8. PoolOk(q) /\ SameConfig(p, q)
    BY <1>2, <2>4, <2>6, PoolKinds DEF PoolOk, SameConfig
  <2> QED
    BY <1>2, <2>2, <2>4, <2>5, <2>7, <2>8, PoolKinds
<1> QED
  BY <1>1, <1>2, PoolOkFacts

(* What can be traded lies in the reserves.                                *)
LEMMA PureOfFacts ==
    ASSUME NEW p, PoolOk(p), p.ver \notin QuadraticVer
    PROVE  /\ PureOf(p) \in [Side -> Nat] /\ \A s \in Side : PureOf(p)[s] <= p.res[s]
           /\ p.ver \in CfmmVer => PureOf(p) = CfmmAmm(p).res
           /\ p.ver \in BalanceVer => PureOf(p) = BalancePure(p)
<1>1. CASE p.ver \in CfmmVer
  <2>1. CfmmPool(p) /\ PureOf(p) = Pure(p)
    BY <1>1, PoolKinds DEF PoolOk, PureOf
  <2>2. \A s \in Side : /\ p.res[s] \in Nat /\ p.treasury[s] \in Nat /\ p.first[s] \in Nat
                         /\ p.second[s] \in Nat
    BY <2>1 DEF CfmmPool, CfmmTyped
  <2> QED
    BY <1>1, <2>1, <2>2, PureFacts, PoolKinds
<1>2. CASE p.ver \in BalanceVer
  <2>1. BalancePool(p) /\ PureOf(p) = BalancePure(p)
    BY <1>2, PoolKinds DEF PoolOk, PureOf, BalancePure
  <2>2. \A s \in Side : p.res[s] \in Nat /\ p.treasury[s] \in Nat
    BY <2>1 DEF BalancePool
  <2> QED
    BY <1>2, <2>1, <2>2, BalancePureFacts, PoolKinds
<1> QED
  BY <1>1, <1>2, PoolOkFacts

(* A deposit adds to the pool what it does not get back, and shares.       *)
LEMMA DepositMoves ==
    ASSUME NEW p, PoolOk(p), p.ver \notin QuadraticVer, NEW in \in [Side -> Nat],
           AnyDeposit(p, in) # Refused
    PROVE  LET r == AnyDeposit(p, in)
               q == r.pool
           IN  /\ PoolOk(q) /\ SameConfig(p, q) /\ (p.ver \in CfmmVer => q.stake = p.stake)
               /\ r.lq \in Nat /\ q.lq = p.lq + r.lq
               /\ r.change \in [Side -> Nat]
               /\ \A s \in Side : /\ r.change[s] <= in[s]
                                  /\ q.res[s] = p.res[s] + in[s] - r.change[s]
                                  /\ PureOf(q)[s] = PureOf(p)[s] + in[s] - r.change[s]
               /\ p.ver \in CfmmVer =>
                     \A s \in Side : (r.lq + p.lq) * PureOf(p)[s] <= PureOf(q)[s] * p.lq
<1> DEFINE r == AnyDeposit(p, in)
           q == r.pool
           reward == IF p.ver \in CfmmVer THEN ClassicReward(CfmmAmm(p).res, p.lq, in)
                     ELSE BalanceReward(p, in)
<1>1. /\ p.res \in [Side -> Nat] /\ p.lq \in Nat /\ p.ver \in CfmmVer \cup BalanceVer
      /\ PureOf(p) \in [Side -> Nat] /\ \A s \in Side : PureOf(p)[s] <= p.res[s]
  BY PoolOkFacts, PureOfFacts
<1>2. r = Deposited(p, in, reward)
  BY <1>1 DEF AnyDeposit, CfmmDeposit, BalanceDeposit
<1> HIDE DEF r
<1>3. /\ reward # Refused
      /\ r = [pool |-> [p EXCEPT !.res = Minus(Plus(p.res, in), reward.change),
                                 !.lq = p.lq + reward.lq],
              lq |-> reward.lq, change |-> reward.change]
  <2>1. r # Refused
    BY DEF r
  <2> HIDE DEF reward
  <2> QED
    BY <1>2, <2>1 DEF Deposited
<1>4. /\ reward.lq \in Nat /\ reward.change \in [Side -> Nat]
      /\ \A s \in Side : reward.change[s] <= in[s]
      /\ p.ver \in CfmmVer => \A s \in Side :
            (reward.lq + p.lq) * PureOf(p)[s]
                <= (PureOf(p)[s] + in[s] - reward.change[s]) * p.lq
  <2>1. CASE p.ver \in CfmmVer
    <3>1. reward = ClassicReward(PureOf(p), p.lq, in)
      BY <2>1, PureOfFacts
    <3> HIDE DEF reward
    <3>2. \A s \in Side : /\ reward.lq \in Nat /\ reward.change[s] \in Nat
                           /\ reward.change[s] <= in[s]
                           /\ (reward.lq + p.lq) * PureOf(p)[s]
                                 <= (PureOf(p)[s] + in[s] - reward.change[s]) * p.lq
      BY <1>1, <1>3, <3>1, RewardFacts
    <3>3. \E f : reward.change = [s \in Side |-> f[s]]
      <4> DEFINE by == [t \in Side |-> (in[t] * p.lq) \div PureOf(p)[t]]
                 u == Least(by["x"], by["y"])
                 ch == [t \in Side |-> IF by[t] > u THEN ((by[t] - u) * PureOf(p)[t]) \div p.lq ELSE 0]
      <4>1. reward = [lq |-> u, change |-> ch]
        BY <1>3, <3>1 DEF ClassicReward
      <4>2. ch = [s \in Side |-> ch[s]]
        OBVIOUS
      <4> HIDE DEF ch, u
      <4> QED
        BY <4>1, <4>2
    <3>4. reward.change \in [Side -> Nat]
      BY <3>2, <3>3
    <3>5. reward.lq \in Nat
      BY <3>2 DEF Side
    <3> QED
      BY <3>2, <3>4, <3>5
  <2>2. CASE p.ver \notin CfmmVer
    <3>1. reward = BalanceReward(p, in) /\ BalancePure(p) \in [Side -> Nat]
      BY <1>1, <2>2, PureOfFacts
    <3> HIDE DEF reward
    <3>2. \A s \in Side : /\ reward.lq \in Nat /\ reward.change[s] \in Nat
                           /\ reward.change[s] <= in[s]
      BY <1>1, <1>3, <3>1, BalanceRewardFacts
    <3>3. reward.change =
             [s \in Side |->
                in[s] - (ClassicReward(BalancePure(p), p.lq, in).lq * BalancePure(p)[s]) \div p.lq]
      BY <1>3, <3>1 DEF BalanceReward
    <3>4. reward.change = [s \in Side |-> reward.change[s]]
      BY <3>3
    <3>5. reward.change \in [Side -> Nat]
      BY <3>2, <3>4
    <3>6. reward.lq \in Nat
      BY <3>2 DEF Side
    <3> QED
      BY <2>2, <3>2, <3>5, <3>6
  <2> QED
    BY <2>1, <2>2
<1> HIDE DEF reward
<1> DEFINE res == Minus(Plus(p.res, in), reward.change)
<1>5. \A s \in Side : res[s] = p.res[s] + in[s] - reward.change[s]
  BY <1>1, <1>4 DEF Minus, Plus
<1>6. res \in [Side -> Nat]
  <2>1. \A s \in Side : p.res[s] + in[s] - reward.change[s] \in Nat
    BY <1>1, <1>4
  <2>2. res = [s \in Side |-> p.res[s] + in[s] - reward.change[s]]
    BY <1>1, <1>4 DEF Minus, Plus
  <2> QED
    BY <2>1, <2>2
<1>7. \A s \in Side : res[s] >= p.res[s] - PureOf(p)[s]
  BY <1>1, <1>4, <1>5
<1>8. p.lq + reward.lq \in Nat
  BY <1>1, <1>4
<1> DEFINE lq == p.lq + reward.lq
<1> HIDE DEF res
<1>9. Moved(p, q, res, lq) /\ r.lq = reward.lq /\ r.change = reward.change
  BY <1>3 DEF res, Moved
<1> HIDE DEF q, lq
<1>10. /\ PoolOk(q) /\ SameConfig(p, q) /\ (p.ver \in CfmmVer => q.stake = p.stake)
       /\ q.res = res /\ q.lq = p.lq + reward.lq
       /\ \A s \in Side : PureOf(q)[s] = res[s] - (p.res[s] - PureOf(p)[s])
  <2>1. lq \in Nat /\ lq = p.lq + reward.lq
    BY <1>8 DEF lq
  <2> QED
    BY <1>6, <1>7, <1>9, <2>1, MovedOk
<1>11. \A s \in Side : PureOf(q)[s] = PureOf(p)[s] + in[s] - reward.change[s]
  BY <1>1, <1>4, <1>5, <1>10
<1> QED
  BY <1>4, <1>5, <1>9, <1>10, <1>11 DEF r, q

(* A redeem pays out no more than the shares stand for.                    *)
LEMMA RedeemMoves ==
    ASSUME NEW p, PoolOk(p), p.ver \notin QuadraticVer, NEW burned \in Nat,
           AnyRedeem(p, burned) # Refused
    PROVE  LET r == AnyRedeem(p, burned)
               q == r.pool
           IN  /\ PoolOk(q) /\ SameConfig(p, q) /\ (p.ver \in CfmmVer => q.stake = p.stake)
               /\ q.lq = p.lq - burned
               /\ r.paid \in [Side -> Nat]
               /\ \A s \in Side : /\ q.res[s] = p.res[s] - r.paid[s]
                                  /\ PureOf(q)[s] = PureOf(p)[s] - r.paid[s]
                                  /\ r.paid[s] * p.lq <= burned * PureOf(p)[s]
<1> DEFINE r == AnyRedeem(p, burned)
           q == r.pool
           paid == ClassicShares(PureOf(p), p.lq, burned)
<1>1. /\ p.res \in [Side -> Nat] /\ p.lq \in Nat /\ p.ver \in CfmmVer \cup BalanceVer
      /\ PureOf(p) \in [Side -> Nat] /\ \A s \in Side : PureOf(p)[s] <= p.res[s]
  BY PoolOkFacts, PureOfFacts
<1>2. r = Redeemed(p, burned, paid)
  BY <1>1, PureOfFacts DEF AnyRedeem, CfmmRedeem, BalanceRedeem
<1> HIDE DEF r
<1>3. /\ paid # Refused /\ burned <= p.lq
      /\ r = [pool |-> [p EXCEPT !.res = Minus(p.res, paid), !.lq = p.lq - burned], paid |-> paid]
  <2>1. r # Refused
    BY DEF r
  <2> HIDE DEF paid
  <2>2. ~(burned > p.lq) /\ paid # Refused
        /\ r = [pool |-> [p EXCEPT !.res = Minus(p.res, paid), !.lq = p.lq - burned], paid |-> paid]
    BY <1>2, <2>1 DEF Redeemed
  <2> QED
    BY <1>1, <2>2
<1>4. p.lq \in Nat \ {0}
  BY <1>1, <1>3 DEF ClassicShares
<1>5. \A s \in Side : paid[s] \in Nat /\ paid[s] <= PureOf(p)[s]
                       /\ paid[s] * p.lq <= burned * PureOf(p)[s]
  BY <1>1, <1>3, <1>4, ShareFacts
<1>6. paid \in [Side -> Nat]
  <2>1. paid = [s \in Side |-> paid[s]]
    BY <1>4 DEF ClassicShares
  <2> QED
    BY <1>5, <2>1
<1> HIDE DEF paid
<1> DEFINE res == Minus(p.res, paid)
<1>7. \A s \in Side : res[s] = p.res[s] - paid[s]
  BY DEF Minus
<1>8. res \in [Side -> Nat] /\ \A s \in Side : res[s] >= p.res[s] - PureOf(p)[s]
  <2>1. \A s \in Side : p.res[s] - paid[s] \in Nat
    BY <1>1, <1>5
  <2>2. res = [s \in Side |-> p.res[s] - paid[s]]
    BY DEF Minus
  <2>3. \A s \in Side : res[s] >= p.res[s] - PureOf(p)[s]
    BY <1>1, <1>5, <1>7
  <2> QED
    BY <2>1, <2>2, <2>3
<1>9. p.lq - burned \in Nat
  BY <1>1, <1>3
<1> DEFINE lq == p.lq - burned
<1> HIDE DEF res
<1>10. Moved(p, q, res, lq) /\ r.paid = paid
  BY <1>3 DEF res, Moved
<1> HIDE DEF q, lq
<1>11. /\ PoolOk(q) /\ SameConfig(p, q) /\ (p.ver \in CfmmVer => q.stake = p.stake)
       /\ q.res = res /\ q.lq = p.lq - burned
       /\ \A s \in Side : PureOf(q)[s] = res[s] - (p.res[s] - PureOf(p)[s])
  <2>1. lq \in Nat /\ lq = p.lq - burned
    BY <1>9 DEF lq
  <2> QED
    BY <1>8, <1>10, <2>1, MovedOk
<1>12. \A s \in Side : PureOf(q)[s] = PureOf(p)[s] - paid[s]
  BY <1>1, <1>5, <1>7, <1>11
<1> QED
  BY <1>5, <1>6, <1>7, <1>10, <1>11, <1>12 DEF r, q

(* What a royalty holder or the DAO does to a pool leaves what can be      *)
(* traded in it alone.                                                     *)
OwedOf(p, s) == p.treasury[s] + p.first[s] + p.second[s]

(* Such a step, seen from outside.                                         *)
Governed(p, q) ==
    /\ q = [f \in CfmmFields |-> q[f]]
    /\ q.ver = p.ver /\ q.native = p.native /\ q.base = p.base /\ q.lq = p.lq
    /\ q.bound = p.bound /\ q.key1 = p.key1 /\ q.key2 = p.key2
    /\ q.fee1 = p.fee1 /\ q.fee2 = p.fee2
    /\ q.res \in [Side -> Nat] /\ q.treasury \in [Side -> Nat]
    /\ q.first \in [Side -> Nat] /\ q.second \in [Side -> Nat] /\ q.fee \in [Side -> Nat]
    /\ q.tfee \in Nat /\ q.nonce \in Nat /\ q.fee["x"] = q.fee["y"]
    /\ p.ver # "RoyaltyV2" => q.second = p.second
    /\ \A s \in Side : q.res[s] - OwedOf(q, s) = p.res[s] - OwedOf(p, s)

(* A royalty pool is of no other kind.                                     *)
LEMMA RoyaltyKinds ==
    ASSUME NEW p, p.ver \in RoyaltyVer
    PROVE  /\ p.ver \in CfmmVer /\ p.ver \notin ClassicVer /\ p.ver \notin FeeSwitchVer
           /\ p.ver \notin BalanceVer /\ p.ver \notin QuadraticVer
BY PoolKinds DEF CfmmVer, ClassicVer, FeeSwitchVer, RoyaltyVer

(* It leaves the pool sound.                                               *)
LEMMA GovernedOk ==
    ASSUME NEW p, p.ver \in RoyaltyVer, PoolOk(p), NEW q, Governed(p, q)
    PROVE  PoolOk(q) /\ SameConfig(p, q) /\ PureOf(q) = PureOf(p) /\ q.lq = p.lq
<1>1. CfmmTyped(p) /\ Covered(p) /\ p.ver \in CfmmVer /\ CfmmPool(p)
  BY RoyaltyKinds DEF PoolOk, CfmmPool
<1>2. \A s \in Side : /\ q.res[s] \in Nat /\ q.treasury[s] \in Nat /\ q.first[s] \in Nat
                       /\ q.second[s] \in Nat /\ p.res[s] \in Nat /\ p.treasury[s] \in Nat
                       /\ p.first[s] \in Nat /\ p.second[s] \in Nat
                       /\ OwedOf(p, s) <= p.res[s]
                       /\ q.res[s] - OwedOf(q, s) = p.res[s] - OwedOf(p, s)
  BY <1>1 DEF Governed, CfmmTyped, Covered, OwedOf
<1>3. CfmmTyped(q)
  BY <1>1, RoyaltyKinds DEF CfmmTyped, Governed
<1>4. Covered(q)
  BY <1>2 DEF Covered, OwedOf
<1>5. CfmmPool(q) /\ PoolOk(q)
  BY <1>1, <1>3, <1>4 DEF CfmmPool, PoolOk, Governed
<1>6. PureOf(q) = PureOf(p)
  <2>1. /\ Pure(p) \in [Side -> Nat] /\ Pure(q) \in [Side -> Nat]
        /\ \A s \in Side : Pure(p)[s] = p.res[s] - OwedOf(p, s) /\ Pure(q)[s] = q.res[s] - OwedOf(q, s)
    BY <1>1, <1>5, PureFacts DEF OwedOf
  <2>2. \A s \in Side : Pure(q)[s] = Pure(p)[s]
    BY <1>2, <2>1
  <2>3. Pure(q) = Pure(p)
    BY <2>1, <2>2
  <2> QED
    BY <1>1, <2>3 DEF PureOf, Governed
<1>7. SameConfig(p, q)
  BY <1>1, RoyaltyKinds DEF SameConfig, Governed
<1> QED
  BY <1>5, <1>6, <1>7 DEF Governed

(* Taking what is there.                                                   *)
LEMMA MinusFacts ==
    ASSUME NEW a \in [Side -> Nat], NEW b \in [Side -> Nat], \A s \in Side : b[s] <= a[s]
    PROVE  Minus(a, b) \in [Side -> Nat] /\ \A s \in Side : Minus(a, b)[s] = a[s] - b[s]
<1>1. \A s \in Side : a[s] - b[s] \in Nat
  OBVIOUS
<1> QED
  BY <1>1 DEF Minus

(* A withdrawal of royalties takes what is paid out from what is owed      *)
(* (apply_order of royalty_withdraw.rs).                                   *)
LEMMA RoyaltyMoves ==
    ASSUME NEW p, PoolOk(p), NEW o, o.out \in [Side -> Nat],
           Succeeded(ApplyRoyaltyWithdraw(p, o))
    PROVE  LET blueprint == ApplyRoyaltyWithdraw(p, o)
               q == blueprint.pool
           IN  /\ p.ver \in RoyaltyVer
               /\ PoolOk(q) /\ SameConfig(p, q) /\ PureOf(q) = PureOf(p) /\ q.lq = p.lq
               /\ q.stake = p.stake
               /\ \A s \in Side : q.res[s] = p.res[s] - o.out[s]
               /\ blueprint.fee = RoyaltyFee
               /\ blueprint.outputs = <<MadeOf(p.native, Wrapped(o.ada - o.fee), o.out, 0)>>
<1> DEFINE royalty == RoyaltyOf(p, o)
           blueprint == ApplyRoyaltyWithdraw(p, o)
           q == blueprint.pool
           res == Minus(p.res, o.out)
           left == Minus(p[royalty], o.out)
<1>1. /\ p.ver \in RoyaltyVer /\ royalty # Refused
      /\ \A s \in Side : ~(o.out[s] > p.res[s]) /\ ~(o.out[s] > p[royalty][s])
      /\ blueprint = [pool |-> [p EXCEPT !.res = res, ![royalty] = left, !.nonce = p.nonce + 1],
                      fee |-> RoyaltyFee,
                      outputs |-> <<MadeOf(p.native, Wrapped(o.ada - o.fee), o.out, 0)>>]
  <2> HIDE DEF royalty
  <2>1. /\ blueprint = IF p.ver \notin RoyaltyVer THEN Failed("incompatible")
                       ELSE IF royalty = Refused THEN Failed("unverified")
                       ELSE IF \E s \in Side : o.out[s] > p.res[s] \/ o.out[s] > p[royalty][s]
                              THEN Failed("incompatible")
                       ELSE [pool |-> [p EXCEPT !.res = res, ![royalty] = Minus(@, o.out),
                                                !.nonce = @ + 1],
                             fee |-> RoyaltyFee,
                             outputs |-> <<MadeOf(p.native, Wrapped(o.ada - o.fee), o.out, 0)>>]
    BY DEF ApplyRoyaltyWithdraw, royalty
  <2>2. royalty \in {"first", "second", Refused}
    BY DEF RoyaltyOf, royalty
  <2>3. royalty # Refused => [p EXCEPT !.res = res, ![royalty] = Minus(@, o.out), !.nonce = @ + 1]
                                = [p EXCEPT !.res = res, ![royalty] = left, !.nonce = p.nonce + 1]
    BY <2>2
  <2> HIDE DEF blueprint, left, res
  <2>4. Succeeded(blueprint)
    BY DEF blueprint
  <2>5. ~Succeeded(Failed("incompatible")) /\ ~Succeeded(Failed("unverified"))
    BY DEF Succeeded, Failed
  <2> QED
    BY <2>1, <2>3, <2>4, <2>5
<1>2. (royalty = "first" \/ (royalty = "second" /\ p.ver = "RoyaltyV2"))
  BY <1>1 DEF RoyaltyOf
<1> HIDE DEF royalty, blueprint
<1>3. /\ CfmmTyped(p) /\ Covered(p) /\ p = [f \in CfmmFields |-> p[f]]
      /\ p.res \in [Side -> Nat] /\ p.treasury \in [Side -> Nat] /\ p.first \in [Side -> Nat]
      /\ p.second \in [Side -> Nat] /\ p.fee \in [Side -> Nat] /\ p.tfee \in Nat /\ p.nonce \in Nat
      /\ p.fee["x"] = p.fee["y"]
  BY <1>1, RoyaltyKinds DEF PoolOk, CfmmPool, CfmmTyped
<1>4. /\ res \in [Side -> Nat] /\ \A s \in Side : res[s] = p.res[s] - o.out[s]
      /\ left \in [Side -> Nat] /\ \A s \in Side : left[s] = p[royalty][s] - o.out[s]
  <2>1. p[royalty] \in [Side -> Nat]
    BY <1>2, <1>3
  <2>2. \A s \in Side : o.out[s] <= p.res[s] /\ o.out[s] <= p[royalty][s]
    <3> TAKE s \in Side
    <3>1. o.out[s] \in Nat /\ p.res[s] \in Nat /\ p[royalty][s] \in Nat
      BY <1>3, <2>1
    <3>2. ~(o.out[s] > p.res[s]) /\ ~(o.out[s] > p[royalty][s])
      BY <1>1
    <3> QED
      BY <3>1, <3>2
  <2> QED
    BY <1>3, <2>1, <2>2, MinusFacts
<1> HIDE DEF res, left
<1>5. q = [p EXCEPT !.res = res, ![royalty] = left, !.nonce = p.nonce + 1]
  BY <1>1
<1> HIDE DEF q
<1>6. /\ q = [f \in CfmmFields |-> q[f]]
      /\ q.res = res /\ q[royalty] = left /\ q.nonce = p.nonce + 1
      /\ \A f \in CfmmFields \ {"res", royalty, "nonce"} : q[f] = p[f]
  BY <1>2, <1>3, <1>5 DEF CfmmFields
<1>7. /\ q.ver = p.ver /\ q.native = p.native /\ q.base = p.base /\ q.lq = p.lq
      /\ q.bound = p.bound /\ q.key1 = p.key1 /\ q.key2 = p.key2 /\ q.stake = p.stake
      /\ q.fee1 = p.fee1 /\ q.fee2 = p.fee2 /\ q.treasury = p.treasury /\ q.fee = p.fee
      /\ q.tfee = p.tfee
      /\ royalty = "first" => q.first = left /\ q.second = p.second
      /\ royalty = "second" => q.first = p.first /\ q.second = left
  BY <1>2, <1>6 DEF CfmmFields
<1>8. \A s \in Side : q.res[s] - OwedOf(q, s) = p.res[s] - OwedOf(p, s)
  <2> TAKE s \in Side
  <2>1. /\ p.res[s] \in Nat /\ p.treasury[s] \in Nat /\ p.first[s] \in Nat /\ p.second[s] \in Nat
        /\ o.out[s] \in Nat
    BY <1>3
  <2>2. CASE royalty = "first"
    BY <1>4, <1>6, <1>7, <2>1, <2>2 DEF OwedOf
  <2>3. CASE royalty = "second"
    BY <1>4, <1>6, <1>7, <2>1, <2>3 DEF OwedOf
  <2> QED
    BY <1>2, <2>2, <2>3
<1>9. Governed(p, q)
  <2>1. p.nonce + 1 \in Nat
    BY <1>3
  <2>2. CASE royalty = "first"
    BY <1>3, <1>4, <1>6, <1>7, <1>8, <2>1, <2>2 DEF Governed
  <2>3. CASE royalty = "second" /\ p.ver = "RoyaltyV2"
    BY <1>3, <1>4, <1>6, <1>7, <1>8, <2>1, <2>3 DEF Governed
  <2> QED
    BY <1>2, <2>2, <2>3
<1>10. PoolOk(q) /\ SameConfig(p, q) /\ PureOf(q) = PureOf(p) /\ q.lq = p.lq
  BY <1>1, <1>9, GovernedOk
<1>11. blueprint.fee = RoyaltyFee
       /\ blueprint.outputs = <<MadeOf(p.native, Wrapped(o.ada - o.fee), o.out, 0)>>
  BY <1>1
<1> QED
  BY <1>1, <1>4, <1>6, <1>7, <1>10, <1>11 DEF q, blueprint

(* What is left of the pool when one of its parts is given a new value and *)
(* the nonce is counted up.                                                *)
SetAndCounted(p, a, g, v) ==
    /\ a = [f \in CfmmFields |-> a[f]] /\ a[g] = v /\ a.nonce = p.nonce + 1
    /\ \A f \in CfmmFields \ {g, "nonce"} : a[f] = p[f]

(* Setting a part of the pool is such a step.                              *)
LEMMA GovernedBySetting ==
    ASSUME NEW p, CfmmTyped(p), NEW q, NEW g \in {"stake", "tfee", "treasuryAddress", "admin", "fee"},
           NEW v, SetAndCounted(p, q, g, v), p.fee["x"] = p.fee["y"],
           g = "tfee" => v \in Nat, g = "fee" => v \in [Side -> Nat] /\ v["x"] = v["y"]
    PROVE  /\ Governed(p, q) /\ q.res = p.res
           /\ q.stake = (IF g = "stake" THEN v ELSE p.stake)
<1>1. /\ p.res \in [Side -> Nat] /\ p.treasury \in [Side -> Nat] /\ p.first \in [Side -> Nat]
      /\ p.second \in [Side -> Nat] /\ p.fee \in [Side -> Nat] /\ p.tfee \in Nat
      /\ p.nonce + 1 \in Nat
  BY DEF CfmmTyped
<1>2. /\ q.ver = p.ver /\ q.native = p.native /\ q.base = p.base /\ q.lq = p.lq
      /\ q.bound = p.bound /\ q.key1 = p.key1 /\ q.key2 = p.key2
      /\ q.fee1 = p.fee1 /\ q.fee2 = p.fee2 /\ q.res = p.res /\ q.treasury = p.treasury
      /\ q.first = p.first /\ q.second = p.second
  BY DEF SetAndCounted, CfmmFields
<1>3. /\ q.nonce = p.nonce + 1
      /\ q.stake = (IF g = "stake" THEN v ELSE p.stake)
      /\ q.tfee = (IF g = "tfee" THEN v ELSE p.tfee)
      /\ q.fee = (IF g = "fee" THEN v ELSE p.fee)
  BY DEF SetAndCounted, CfmmFields
<1>4. q = [f \in CfmmFields |-> q[f]]
  BY DEF SetAndCounted
<1> QED
  BY <1>1, <1>2, <1>3, <1>4 DEF Governed, OwedOf

(* A request of the DAO sets a part of the pool or takes what the treasury *)
(* is owed (apply_order of dao_request.rs).                                *)
LEMMA DaoMoves ==
    ASSUME NEW p, PoolOk(p), NEW o, o.terms.treasury \in [Side -> Nat],
           o.terms.fee \in Nat, o.terms.tfee \in Nat,
           Succeeded(ApplyDaoRequest(p, o))
    PROVE  LET blueprint == ApplyDaoRequest(p, o)
               q == blueprint.pool
               back == MadeOf("none", o.ada - o.fee, Zero, 0)
               treasury == MadeOf(p.native, 0, o.terms.treasury, 0)
           IN  /\ p.ver \in RoyaltyVer
               /\ PoolOk(q) /\ SameConfig(p, q) /\ PureOf(q) = PureOf(p) /\ q.lq = p.lq
               /\ q.stake \in {p.stake, o.terms.stake}
               /\ blueprint.fee = DaoFee
               /\ \/ /\ q.res = p.res /\ blueprint.outputs = <<back>>
                  \/ /\ \A s \in Side : q.res[s] = p.res[s] - o.terms.treasury[s]
                     /\ blueprint.outputs = <<back, treasury>>
<1> DEFINE after == AfterDaoAction(p, o)
           back == MadeOf("none", o.ada - o.fee, Zero, 0)
           treasury == MadeOf(p.native, 0, o.terms.treasury, 0)
           blueprint == ApplyDaoRequest(p, o)
           q == blueprint.pool
<1>1. /\ p.ver \in RoyaltyVer /\ after # Refused
      /\ blueprint = [pool |-> [after EXCEPT !.nonce = @ + 1], fee |-> DaoFee,
              outputs |-> IF o.action = "WithdrawTreasury" THEN <<back, treasury>> ELSE <<back>>]
  <2>1. blueprint = IF p.ver \notin RoyaltyVer THEN Failed("incompatible")
              ELSE IF CorrectSignatures(o, p) < DaoThreshold THEN Failed("unverified")
              ELSE IF after = Refused THEN Failed("incompatible")
              ELSE [pool |-> [after EXCEPT !.nonce = @ + 1], fee |-> DaoFee,
                    outputs |-> IF o.action = "WithdrawTreasury" THEN <<back, treasury>> ELSE <<back>>]
    BY DEF ApplyDaoRequest
  <2> HIDE DEF blueprint, after, back, treasury
  <2>2. Succeeded(blueprint)
    BY DEF blueprint
  <2>3. ~Succeeded(Failed("incompatible")) /\ ~Succeeded(Failed("unverified"))
    BY DEF Succeeded, Failed
  <2> QED
    BY <2>1, <2>2, <2>3
<1>2. /\ CfmmTyped(p) /\ Covered(p) /\ p = [f \in CfmmFields |-> p[f]]
      /\ p.res \in [Side -> Nat] /\ p.treasury \in [Side -> Nat] /\ p.first \in [Side -> Nat]
      /\ p.second \in [Side -> Nat] /\ p.fee \in [Side -> Nat] /\ p.tfee \in Nat /\ p.nonce \in Nat
      /\ p.fee["x"] = p.fee["y"]
  BY <1>1, RoyaltyKinds DEF PoolOk, CfmmPool, CfmmTyped
<1> HIDE DEF blueprint, back, treasury
<1>3. ASSUME NEW g \in {"stake", "tfee", "treasuryAddress", "admin", "fee"}, NEW v,
             after = [p EXCEPT ![g] = v]
      PROVE  SetAndCounted(p, q, g, v)
  <2>1. q = [after EXCEPT !.nonce = @ + 1]
    BY <1>1
  <2> HIDE DEF q, after
  <2>2. /\ after = [f \in CfmmFields |-> after[f]] /\ after[g] = v
        /\ \A f \in CfmmFields \ {g} : after[f] = p[f]
    BY <1>2, <1>3 DEF CfmmFields
  <2>3. /\ q = [f \in CfmmFields |-> q[f]] /\ q.nonce = after.nonce + 1
        /\ \A f \in CfmmFields \ {"nonce"} : q[f] = after[f]
    BY <2>1, <2>2 DEF CfmmFields
  <2>4. after.nonce = p.nonce
    BY <2>2 DEF CfmmFields
  <2>5. g \in CfmmFields \ {"nonce"}
    BY DEF CfmmFields
  <2>6. q[g] = v
    BY <2>2, <2>3, <2>5
  <2>7. \A f \in CfmmFields \ {g, "nonce"} : q[f] = p[f]
    BY <2>2, <2>3
  <2> QED
    BY <2>3, <2>4, <2>6, <2>7 DEF SetAndCounted
<1>4. CASE o.action = "WithdrawTreasury"
  <2> DEFINE res == Minus(p.res, o.terms.treasury)
             left == Minus(p.treasury, o.terms.treasury)
  <2>1. /\ \A s \in Side : ~(o.terms.treasury[s] > p.res[s]) /\ ~(o.terms.treasury[s] > p.treasury[s])
        /\ after = [p EXCEPT !.res = res, !.treasury = left]
    BY <1>1, <1>4 DEF AfterDaoAction, WithdrawTreasury
  <2>2. /\ res \in [Side -> Nat] /\ \A s \in Side : res[s] = p.res[s] - o.terms.treasury[s]
        /\ left \in [Side -> Nat] /\ \A s \in Side : left[s] = p.treasury[s] - o.terms.treasury[s]
    <3>1. \A s \in Side : o.terms.treasury[s] <= p.res[s] /\ o.terms.treasury[s] <= p.treasury[s]
      <4> TAKE s \in Side
      <4>1. o.terms.treasury[s] \in Nat /\ p.res[s] \in Nat /\ p.treasury[s] \in Nat
        BY <1>2
      <4>2. ~(o.terms.treasury[s] > p.res[s]) /\ ~(o.terms.treasury[s] > p.treasury[s])
        BY <2>1
      <4> QED
        BY <4>1, <4>2
    <3> QED
      BY <1>2, <3>1, MinusFacts
  <2>3. q = [after EXCEPT !.nonce = @ + 1]
    BY <1>1
  <2> HIDE DEF q, after, res, left
  <2>4. /\ after = [f \in CfmmFields |-> after[f]] /\ after.res = res /\ after.treasury = left
        /\ \A f \in CfmmFields \ {"res", "treasury"} : after[f] = p[f]
    BY <1>2, <2>1 DEF CfmmFields
  <2>5. /\ q = [f \in CfmmFields |-> q[f]] /\ q.nonce = after.nonce + 1
        /\ \A f \in CfmmFields \ {"nonce"} : q[f] = after[f]
    BY <2>3, <2>4 DEF CfmmFields
  <2>6. /\ q.ver = p.ver /\ q.native = p.native /\ q.base = p.base /\ q.lq = p.lq
        /\ q.bound = p.bound /\ q.key1 = p.key1 /\ q.key2 = p.key2
        /\ q.fee1 = p.fee1 /\ q.fee2 = p.fee2 /\ q.res = res /\ q.treasury = left
        /\ q.first = p.first /\ q.second = p.second /\ q.fee = p.fee /\ q.tfee = p.tfee
        /\ q.stake = p.stake /\ q.nonce = p.nonce + 1
    BY <2>4, <2>5 DEF CfmmFields
  <2>7. \A s \in Side : q.res[s] - OwedOf(q, s) = p.res[s] - OwedOf(p, s)
    <3> TAKE s \in Side
    <3>1. /\ p.res[s] \in Nat /\ p.treasury[s] \in Nat /\ p.first[s] \in Nat /\ p.second[s] \in Nat
          /\ o.terms.treasury[s] \in Nat
      BY <1>2
    <3> QED
      BY <2>2, <2>6, <3>1 DEF OwedOf
  <2>8. Governed(p, q)
    <3>1. p.nonce + 1 \in Nat
      BY <1>2
    <3> QED
      BY <1>2, <2>2, <2>5, <2>6, <2>7, <3>1 DEF Governed
  <2>9. PoolOk(q) /\ SameConfig(p, q) /\ PureOf(q) = PureOf(p) /\ q.lq = p.lq
    BY <1>1, <2>8, GovernedOk
  <2>10. blueprint.fee = DaoFee /\ blueprint.outputs = <<back, treasury>>
    BY <1>1, <1>4
  <2> QED
    BY <1>1, <2>2, <2>6, <2>9, <2>10 DEF q, blueprint, back, treasury
<1>5. CASE o.action # "WithdrawTreasury"
  <2>1. blueprint.fee = DaoFee /\ blueprint.outputs = <<back>>
    BY <1>1, <1>5
  <2>2. ASSUME NEW g \in {"stake", "tfee", "treasuryAddress", "admin", "fee"}, NEW v,
               after = [p EXCEPT ![g] = v],
               g = "stake" => v = o.terms.stake,
               g = "tfee" => v \in Nat, g = "fee" => v \in [Side -> Nat] /\ v["x"] = v["y"]
        PROVE  /\ PoolOk(q) /\ SameConfig(p, q) /\ PureOf(q) = PureOf(p) /\ q.lq = p.lq
               /\ q.res = p.res /\ q.stake \in {p.stake, o.terms.stake}
    <3>1. SetAndCounted(p, q, g, v)
      BY <1>3, <2>2
    <3> HIDE DEF q, after
    <3>2. Governed(p, q) /\ q.res = p.res /\ q.stake = (IF g = "stake" THEN v ELSE p.stake)
      BY <1>2, <2>2, <3>1, GovernedBySetting
    <3> QED
      BY <1>1, <2>2, <3>2, GovernedOk
  <2>3. /\ PoolOk(q) /\ SameConfig(p, q) /\ PureOf(q) = PureOf(p) /\ q.lq = p.lq
        /\ q.res = p.res /\ q.stake \in {p.stake, o.terms.stake}
    <3>1. CASE o.action = "ChangeStakePart"
      <4>1. after = [p EXCEPT !["stake"] = o.terms.stake]
        BY <3>1 DEF AfterDaoAction
      <4> QED
        BY <2>2, <4>1
    <3>2. CASE o.action = "ChangeTreasuryFee"
      <4>1. after = [p EXCEPT !["tfee"] = o.terms.tfee]
        BY <3>2 DEF AfterDaoAction
      <4> QED
        BY <2>2, <4>1
    <3>3. CASE o.action = "ChangeTreasuryAddress"
      <4>1. after = [p EXCEPT !["treasuryAddress"] = o.terms.address]
        BY <3>3 DEF AfterDaoAction
      <4> QED
        BY <2>2, <4>1
    <3>4. CASE o.action = "ChangeAdminAddress"
      <4>1. after = [p EXCEPT !["admin"] = o.terms.admin]
        BY <3>4 DEF AfterDaoAction
      <4> QED
        BY <2>2, <4>1
    <3>5. CASE o.action \notin {"WithdrawTreasury", "ChangeStakePart", "ChangeTreasuryFee",
                                "ChangeTreasuryAddress", "ChangeAdminAddress"}
      <4> DEFINE v == Pair(o.terms.fee, o.terms.fee)
      <4>1. after = [p EXCEPT !["fee"] = v]
        BY <3>5 DEF AfterDaoAction
      <4>2. v \in [Side -> Nat] /\ v["x"] = v["y"]
        BY DEF Pair, Side
      <4> QED
        BY <2>2, <4>1, <4>2
    <3> QED
      BY <1>5, <3>1, <3>2, <3>3, <3>4, <3>5
  <2> QED
    BY <1>1, <2>1, <2>3 DEF q, blueprint, back, treasury
<1> QED
  BY <1>4, <1>5

-----------------------------------------------------------------------------
(* Orders.                                                                 *)

(* What an order's owner gets for `v` when the pool goes from p to q: all  *)
(* of it but `fee`.                                                        *)
GivenTo(p, q, v, w, fee) ==
    /\ \A a \in Assets : w[a] \in Int
    /\ p.native \in Side => w[p.native] = 0
    /\ \A s \in Side \ {p.native} : p.res[s] + v[s] = q.res[s] + w[s]
    /\ q.lq - p.lq = w.lq - v.lq
    /\ (IF p.native \in Side THEN p.res[p.native] - q.res[p.native] ELSE 0) + v.ada - w.ada <= fee

(* An output made of amounts on either side, ADA and shares,               *)
Made(w, native, ada, f, lq) ==
    /\ IsValue(w) /\ w.lq = lq
    /\ native \in Side => w[native] = 0 /\ w.ada = ada + f[native]
    /\ native = "none" => w.ada = ada
    /\ \A s \in Side \ {native} : w[s] = f[s]

(* is worth just these.                                                    *)
LEMMA MadeFacts ==
    ASSUME NEW native, native \in Side \cup {"none"}, NEW ada, ada \in Int,
           NEW f, \A s \in Side : f[s] \in Int, NEW lq, lq \in Int
    PROVE  Made(MadeOf(native, ada, f, lq), native, ada, f, lq)
<1>1. CASE native = "x"
  BY <1>1 DEF Made, MadeOf, IsValue, Side
<1>2. CASE native = "y"
  BY <1>2 DEF Made, MadeOf, IsValue, Side
<1>3. CASE native = "none"
  BY <1>3 DEF Made, MadeOf, IsValue, Side
<1> QED
  BY <1>1, <1>2, <1>3 DEF Side

(* What one output pays.                                                   *)
LEMMA PaidFacts ==
    ASSUME NEW w, IsValue(w)
    PROVE  /\ \A a \in Assets : Paid(<<w>>)[a] = w[a] /\ w[a] \in Int
           /\ Paid(<<w>>).ada = w.ada /\ Paid(<<w>>).lq = w.lq
<1>1. \A a \in Assets : w[a] \in Int
  BY DEF IsValue, Assets
<1>2. Len(<<w>>) = 1 /\ <<w>>[1] = w
  OBVIOUS
<1>3. \A a \in Assets : Paid(<<w>>)[a] = w[a] + 0
  BY <1>2 DEF Paid
<1> QED
  BY <1>1, <1>3 DEF Assets

(* What two outputs pay                                                    *)
PaidTwice(x, w, v) ==
    /\ \A a \in Assets : x[a] = w[a] + v[a] /\ w[a] \in Int /\ v[a] \in Int
    /\ x.ada = w.ada + v.ada /\ x.lq = w.lq + v.lq

(* is their sum.                                                           *)
LEMMA PaidTwiceFacts ==
    ASSUME NEW w, IsValue(w), NEW v, IsValue(v)
    PROVE  PaidTwice(Paid(<<w, v>>), w, v)
<1>1. \A a \in Assets : w[a] \in Int /\ v[a] \in Int
  BY DEF IsValue, Assets
<1>2. Len(<<w, v>>) = 2 /\ <<w, v>>[1] = w /\ <<w, v>>[2] = v
  OBVIOUS
<1>3. \A a \in Assets : Paid(<<w, v>>)[a] = w[a] + v[a]
  BY <1>2 DEF Paid
<1> QED
  BY <1>1, <1>3 DEF Assets, PaidTwice

(* What is left of the inputs of a transaction.                            *)
LeftBy(left, had, v, new, w, fee) ==
    \A a \in Assets :
        left[a] = (had[a] + v[a]) - (new[a] + w[a]) - (IF a = "ada" THEN fee ELSE 0)

(* The operator is left with the fee at most, and with nothing else.       *)
LEMMA Accounting ==
    ASSUME NEW p, PoolOk(p), p.ver \notin QuadraticVer, NEW q, PoolOk(q), q.ver = p.ver,
           q.native = p.native, NEW u, ValueHolds(p, u.value),
           NEW v \in Values, p.native \in Side => v[p.native] = 0,
           NEW w, NEW most \in Int, GivenTo(p, q, v, w, most), NEW fee \in Int,
           NEW left, LeftBy(left, u.value, v, PooledValue(q, u), w, fee)
    PROVE  (\A a \in {"x", "y", "lq"} : left[a] = 0) /\ left.ada + fee <= most
<1> DEFINE new == PooledValue(q, u)
<1>1. /\ \A s \in Side : p.res[s] \in Nat /\ q.res[s] \in Nat
      /\ p.lq \in Nat /\ q.lq \in Nat /\ p.native \in Side \cup {"none"}
      /\ q.ver \notin QuadraticVer
  BY PoolOkFacts
<1>2. ValueHolds(q, new)
  BY <1>1, PooledFacts DEF ValueHolds
<1>3. p.native = "none" => new.ada = u.value.ada
  BY DEF PooledValue, MadeOf
<1> HIDE DEF new
<1>4. \A a \in Assets : /\ u.value[a] \in Int /\ new[a] \in Int /\ v[a] \in Int /\ w[a] \in Int
                        /\ left[a] = (u.value[a] + v[a]) - (new[a] + w[a])
                                            - (IF a = "ada" THEN fee ELSE 0)
  BY <1>2 DEF ValueHolds, IsValue, Assets, Values, GivenTo, new, LeftBy
<1>5. \A s \in Side : left[s] = 0
  <2> TAKE s \in Side
  <2>1. left[s] = u.value[s] + v[s] - (new[s] + w[s])
        /\ u.value[s] \in Int /\ new[s] \in Int /\ v[s] \in Int /\ w[s] \in Int
    BY <1>4 DEF Assets, Side
  <2>2. CASE s = p.native
    <3>1. u.value[s] = 0 /\ new[s] = 0 /\ v[s] = 0 /\ w[s] = 0
      BY <1>2, <2>2 DEF ValueHolds, GivenTo
    <3> QED
      BY <2>1, <3>1
  <2>3. CASE s # p.native
    <3>1. u.value[s] = p.res[s] /\ new[s] = q.res[s] /\ p.res[s] + v[s] = q.res[s] + w[s]
      BY <1>2, <2>3 DEF ValueHolds, GivenTo, AmountOf
    <3> QED
      BY <1>1, <2>1, <3>1
  <2> QED
    BY <2>2, <2>3
<1>6. left["lq"] = 0
  <2>1. u.value.lq = MaxLqCap - p.lq /\ new.lq = MaxLqCap - q.lq /\ q.lq - p.lq = w.lq - v.lq
    BY <1>1, <1>2 DEF ValueHolds, GivenTo
  <2>2. left["lq"] = u.value.lq + v.lq - (new.lq + w.lq) /\ v.lq \in Int /\ w.lq \in Int
    BY <1>4 DEF Assets
  <2> QED
    BY <1>1, <2>1, <2>2, PoolMathAssumption
<1>7. left.ada + fee <= most
  <2>1. /\ left.ada = u.value.ada + v.ada - (new.ada + w.ada) - fee
        /\ u.value.ada \in Int /\ new.ada \in Int /\ v.ada \in Int /\ w.ada \in Int
    BY <1>4 DEF Assets
  <2>2. CASE p.native \in Side
    <3>1. u.value.ada = p.res[p.native] /\ new.ada = q.res[p.native]
      BY <1>2, <2>2 DEF ValueHolds, AmountOf
    <3>2. p.res[p.native] - q.res[p.native] + v.ada - w.ada <= most
      BY <2>2 DEF GivenTo
    <3> QED
      BY <1>1, <2>1, <2>2, <3>1, <3>2
  <2>3. CASE p.native \notin Side
    <3>1. new.ada = u.value.ada
      BY <1>1, <1>3, <2>3
    <3>2. 0 + v.ada - w.ada <= most
      BY <2>3 DEF GivenTo
    <3> QED
      BY <2>1, <3>1, <3>2
  <2> QED
    BY <2>2, <2>3
<1> QED
  BY <1>5, <1>6, <1>7 DEF Side

(* An amount below the word is not less once wrapped.                      *)
LEMMA WrappedFacts ==
    ASSUME NEW n \in Int, n < Word
    PROVE  Wrapped(n) \in Nat /\ Wrapped(n) >= n
<1>1. n % Word \in 0 .. Word - 1
  BY CfmmPoolsAssumption
<1>2. n >= 0 => n % Word = n
  BY CfmmPoolsAssumption
<1> QED
  BY <1>1, <1>2, CfmmPoolsAssumption DEF Wrapped

(* An order leaves the assets, or as much of either for every share, but   *)
(* for one unit.                                                           *)
SharesKept(p, q) ==
    IF q.lq = p.lq THEN \A s \in Side : PureOf(q)[s] >= PureOf(p)[s]
    ELSE \A s \in Side : (PureOf(q)[s] + 1) * p.lq >= PureOf(p)[s] * q.lq

(* What becomes of a pool p and of an order r when b is what it is answered*)
(* with.                                                                   *)
Answered(p, r, b) ==
    /\ PoolOk(b.pool) /\ SameConfig(p, b.pool)
    /\ p.ver \in CfmmVer /\ StakeNamed => b.pool.stake = p.stake \/ b.pool.stake # NoStake
    /\ GivenTo(p, b.pool, r.value, Paid(b.outputs), r.datum.fee)
    /\ p.ver \in CfmmVer => SharesKept(p, b.pool)
    /\ b.fee \in {NoFee, RoyaltyFee, DaoFee}

(* A deposit is answered with shares and the change (apply_order of        *)
(* deposit.rs).                                                            *)
LEMMA DepositAnswered ==
    ASSUME NEW p, PoolOk(p), p.ver \notin QuadraticVer, NEW r, r.kind = "deposit",
           OrderOk(r, p.native),
           NEW o, o = ParseOrder(r, p.native), o # Refused, Succeeded(ApplyOrder(p, o))
    PROVE  Answered(p, r, ApplyOrder(p, o))
<1> DEFINE in == NetDeposit(o)
           result == AnyDeposit(p, in)
           q == result.pool
           b == ApplyOrder(p, o)
           paid == MadeOf(p.native, o.collateral, result.change, result.lq)
<1>1. /\ o.kind = "deposit" /\ o.in = Reserves(r, p.native) /\ o.native = p.native
      /\ o.fee = r.datum.fee /\ o.collateral = r.datum.collateral
  BY DEF ParseOrder, ParseDeposit
<1>2. /\ r.value \in Values /\ r.datum.fee \in Nat /\ r.datum.collateral \in Nat /\ r.value.lq = 0
      /\ p.native = "none" => r.value.ada = r.datum.fee + r.datum.collateral
      /\ p.native \in Side \cup {"none"}
  BY PoolOkFacts DEF OrderOk
<1>3. /\ \A s \in Side : ~(in[s] < 0)
      /\ result # Refused
      /\ b = [pool |-> q, fee |-> NoFee, outputs |-> <<paid>>]
  <2>1. b = IF (\E s \in Side : in[s] < 0) \/ result = Refused THEN Failed("incompatible")
            ELSE [pool |-> q, fee |-> NoFee, outputs |-> <<paid>>]
    BY <1>1 DEF ApplyOrder, ApplyDeposit
  <2> HIDE DEF b, result, in, paid
  <2>2. Succeeded(b) /\ ~Succeeded(Failed("incompatible"))
    BY DEF b, Succeeded, Failed
  <2> QED
    BY <2>1, <2>2
<1>4. \A s \in Side : /\ o.in[s] = AmountOf(r.value, p.native, s) /\ o.in[s] \in Nat
                       /\ in[s] = (IF s = p.native
                                   THEN r.value.ada - r.datum.fee - r.datum.collateral
                                   ELSE r.value[s])
                       /\ in[s] \in Int
  BY <1>1, <1>2 DEF Reserves, NetDeposit, AmountOf, Values, Side
<1>5. in \in [Side -> Nat]
  <2>1. in = [s \in Side |-> in[s]]
    BY DEF NetDeposit
  <2>2. \A s \in Side : in[s] \in Nat
    BY <1>3, <1>4
  <2> HIDE DEF in
  <2> QED
    BY <2>1, <2>2
<1> HIDE DEF in, b
<1>6. /\ PoolOk(q) /\ SameConfig(p, q) /\ (p.ver \in CfmmVer => q.stake = p.stake)
      /\ result.lq \in Nat /\ q.lq = p.lq + result.lq
      /\ result.change \in [Side -> Nat]
      /\ \A s \in Side : /\ result.change[s] <= in[s]
                         /\ q.res[s] = p.res[s] + in[s] - result.change[s]
                         /\ PureOf(q)[s] = PureOf(p)[s] + in[s] - result.change[s]
      /\ p.ver \in CfmmVer =>
            \A s \in Side : (result.lq + p.lq) * PureOf(p)[s] <= PureOf(q)[s] * p.lq
  BY <1>3, <1>5, DepositMoves
<1> HIDE DEF result, q
<1>7. /\ PureOf(p) \in [Side -> Nat] /\ PureOf(q) \in [Side -> Nat]
      /\ p.res \in [Side -> Nat] /\ p.lq \in Nat
  BY <1>6, PureOfFacts, PoolOkFacts DEF SameConfig
<1>8. /\ IsValue(paid) /\ paid.lq = result.lq
      /\ p.native \in Side => paid[p.native] = 0
                              /\ paid.ada = r.datum.collateral + result.change[p.native]
      /\ p.native = "none" => paid.ada = r.datum.collateral
      /\ \A s \in Side \ {p.native} : paid[s] = result.change[s]
  <2>1. (\A s \in Side : result.change[s] \in Int) /\ o.collateral \in Int /\ result.lq \in Int
    BY <1>1, <1>2, <1>6
  <2>2. p.native \in Side \cup {"none"}
    BY <1>2
  <2>3. /\ IsValue(paid) /\ paid.lq = result.lq
        /\ p.native \in Side => paid[p.native] = 0
                                /\ paid.ada = o.collateral + result.change[p.native]
        /\ p.native = "none" => paid.ada = o.collateral
        /\ \A s \in Side \ {p.native} : paid[s] = result.change[s]
    <3>1. Made(paid, p.native, o.collateral, result.change, result.lq)
      BY <2>1, <2>2, MadeFacts
    <3> QED
      BY <3>1 DEF Made
  <2> HIDE DEF paid
  <2> QED
    BY <1>1, <2>3
<1> HIDE DEF paid
<1>9. \A a \in Assets : Paid(<<paid>>)[a] = paid[a] /\ paid[a] \in Int
  BY <1>8, PaidFacts
<1>10. GivenTo(p, q, r.value, Paid(<<paid>>), r.datum.fee)
  <2>1. Paid(<<paid>>).lq = paid.lq /\ Paid(<<paid>>).ada = paid.ada
    BY <1>9 DEF Assets
  <2>2. ASSUME NEW s \in Side \ {p.native} PROVE p.res[s] + r.value[s] = q.res[s] + Paid(<<paid>>)[s]
    <3>1. Paid(<<paid>>)[s] = result.change[s] /\ in[s] = r.value[s]
      BY <1>4, <1>8, <1>9 DEF Assets, Side
    <3> QED
      BY <1>4, <1>6, <1>7, <3>1
  <2>3. p.native \in Side => Paid(<<paid>>)[p.native] = 0
    BY <1>8, <1>9 DEF Assets, Side
  <2>4. q.lq - p.lq = Paid(<<paid>>).lq - r.value.lq
    BY <1>2, <1>6, <1>7, <1>8, <2>1
  <2>5. CASE p.native \in Side
    <3>1. /\ in[p.native] = r.value.ada - r.datum.fee - r.datum.collateral
          /\ q.res[p.native] = p.res[p.native] + in[p.native] - result.change[p.native]
          /\ p.res[p.native] \in Nat /\ result.change[p.native] \in Nat /\ r.value.ada \in Nat
          /\ Paid(<<paid>>).ada = r.datum.collateral + result.change[p.native]
      BY <1>2, <1>4, <1>6, <1>7, <1>8, <2>1, <2>5 DEF Values
    <3>2. p.res[p.native] - q.res[p.native] + r.value.ada - Paid(<<paid>>).ada <= r.datum.fee
      BY <1>2, <3>1
    <3> QED
      BY <1>9, <2>2, <2>3, <2>4, <2>5, <3>2 DEF GivenTo
  <2>6. CASE p.native = "none"
    <3>1. 0 + r.value.ada - Paid(<<paid>>).ada <= r.datum.fee
      BY <1>2, <1>8, <2>1, <2>6
    <3>2. p.native \notin Side
      BY <2>6 DEF Side
    <3> QED
      BY <1>9, <2>2, <2>3, <2>4, <3>1, <3>2 DEF GivenTo
  <2> QED
    BY <1>2, <2>5, <2>6
<1>11. p.ver \in CfmmVer => SharesKept(p, q)
  <2> SUFFICES ASSUME p.ver \in CfmmVer, NEW s \in Side
               PROVE  IF q.lq = p.lq THEN PureOf(q)[s] >= PureOf(p)[s]
                      ELSE (PureOf(q)[s] + 1) * p.lq >= PureOf(p)[s] * q.lq
    BY DEF SharesKept
  <2>1. /\ PureOf(p)[s] \in Nat /\ PureOf(q)[s] \in Nat /\ in[s] \in Nat /\ result.change[s] \in Nat
        /\ PureOf(q)[s] = PureOf(p)[s] + in[s] - result.change[s] /\ result.change[s] <= in[s]
        /\ (result.lq + p.lq) * PureOf(p)[s] <= PureOf(q)[s] * p.lq
    BY <1>5, <1>6, <1>7
  <2>2. PureOf(q)[s] >= PureOf(p)[s]
    BY <2>1
  <2>3. (PureOf(q)[s] + 1) * p.lq = PureOf(q)[s] * p.lq + p.lq
    BY <1>7, <2>1
  <2>4. (result.lq + p.lq) * PureOf(p)[s] = PureOf(p)[s] * q.lq
    BY <1>6, <1>7, <2>1
  <2> DEFINE a == PureOf(q)[s] * p.lq
             c == PureOf(p)[s] * q.lq
  <2>5. a \in Nat /\ c \in Nat /\ c <= a
    <3>1. q.lq \in Nat
      BY <1>6, <1>7
    <3> QED
      BY <1>7, <2>1, <2>4, <3>1
  <2>6. a + p.lq >= c
    <3> HIDE DEF a, c
    <3> QED
      BY <1>7, <2>5
  <2> QED
    BY <2>2, <2>3, <2>6
<1> QED
  BY <1>3, <1>6, <1>10, <1>11 DEF Answered, b

(* A redeem is answered with its part of either asset (apply_order of      *)
(* redeem.rs).                                                             *)
LEMMA RedeemAnswered ==
    ASSUME NEW p, PoolOk(p), p.ver \notin QuadraticVer, NEW r, r.kind = "redeem",
           OrderOk(r, p.native),
           NEW o, o = ParseOrder(r, p.native), o # Refused, Succeeded(ApplyOrder(p, o))
    PROVE  Answered(p, r, ApplyOrder(p, o))
<1> DEFINE result == AnyRedeem(p, o.burned)
           q == result.pool
           b == ApplyOrder(p, o)
           left == Wrapped(r.value.ada - r.datum.fee)
           paid == MadeOf(p.native, left, result.paid, 0)
<1>1. /\ o.kind = "redeem" /\ o.burned = r.value.lq /\ r.value.lq > 0
      /\ o.fee = r.datum.fee /\ o.collateral = left
  BY DEF ParseOrder, ParseRedeem
<1>2. /\ r.value \in Values /\ r.value.ada < Word /\ r.datum.fee \in Nat
      /\ r.value.x = 0 /\ r.value.y = 0
      /\ p.native \in Side \cup {"none"} /\ r.value.lq \in Nat /\ r.value.ada \in Nat
  BY PoolOkFacts DEF OrderOk, Values
<1>3. result # Refused /\ b = [pool |-> q, fee |-> NoFee, outputs |-> <<paid>>]
  <2>1. b = IF result = Refused THEN Failed("incompatible")
            ELSE [pool |-> q, fee |-> NoFee, outputs |-> <<paid>>]
    BY <1>1 DEF ApplyOrder, ApplyRedeem
  <2> HIDE DEF b, result, paid
  <2>2. Succeeded(b) /\ ~Succeeded(Failed("incompatible"))
    BY DEF b, Succeeded, Failed
  <2> QED
    BY <2>1, <2>2
<1>4. left \in Nat /\ left >= r.value.ada - r.datum.fee
  <2>1. r.value.ada - r.datum.fee \in Int /\ r.value.ada - r.datum.fee < Word
    BY <1>2, CfmmPoolsAssumption
  <2> QED
    BY <2>1, WrappedFacts
<1> HIDE DEF b, left
<1>5. /\ PoolOk(q) /\ SameConfig(p, q) /\ (p.ver \in CfmmVer => q.stake = p.stake)
      /\ q.lq = p.lq - r.value.lq
      /\ result.paid \in [Side -> Nat]
      /\ \A s \in Side : /\ q.res[s] = p.res[s] - result.paid[s]
                         /\ PureOf(q)[s] = PureOf(p)[s] - result.paid[s]
                         /\ result.paid[s] * p.lq <= r.value.lq * PureOf(p)[s]
  <2>1. o.burned \in Nat
    BY <1>1, <1>2
  <2>2. /\ PoolOk(q) /\ SameConfig(p, q) /\ (p.ver \in CfmmVer => q.stake = p.stake)
        /\ q.lq = p.lq - o.burned
        /\ result.paid \in [Side -> Nat]
        /\ \A s \in Side : /\ q.res[s] = p.res[s] - result.paid[s]
                           /\ PureOf(q)[s] = PureOf(p)[s] - result.paid[s]
                           /\ result.paid[s] * p.lq <= o.burned * PureOf(p)[s]
    BY <1>3, <2>1, RedeemMoves
  <2> HIDE DEF result, q
  <2> QED
    BY <1>1, <2>2
<1> HIDE DEF result, q
<1>6. /\ PureOf(p) \in [Side -> Nat] /\ PureOf(q) \in [Side -> Nat]
      /\ p.res \in [Side -> Nat] /\ p.lq \in Nat
  BY <1>5, PureOfFacts, PoolOkFacts DEF SameConfig
<1>7. /\ IsValue(paid) /\ paid.lq = 0
      /\ p.native \in Side => paid[p.native] = 0 /\ paid.ada = left + result.paid[p.native]
      /\ p.native = "none" => paid.ada = left
      /\ \A s \in Side \ {p.native} : paid[s] = result.paid[s]
  <2>1. (\A s \in Side : result.paid[s] \in Int) /\ left \in Int
    BY <1>4, <1>5
  <2>2. p.native \in Side \cup {"none"}
    BY <1>2
  <2>3. Made(paid, p.native, left, result.paid, 0)
    BY <2>1, <2>2, MadeFacts
  <2> QED
    BY <2>3 DEF Made
<1> HIDE DEF paid
<1>8. \A a \in Assets : Paid(<<paid>>)[a] = paid[a] /\ paid[a] \in Int
  BY <1>7, PaidFacts
<1>9. GivenTo(p, q, r.value, Paid(<<paid>>), r.datum.fee)
  <2>1. Paid(<<paid>>).lq = paid.lq /\ Paid(<<paid>>).ada = paid.ada
    BY <1>8 DEF Assets
  <2>2. ASSUME NEW s \in Side \ {p.native} PROVE p.res[s] + r.value[s] = q.res[s] + Paid(<<paid>>)[s]
    <3>1. Paid(<<paid>>)[s] = result.paid[s] /\ r.value[s] = 0
      BY <1>2, <1>7, <1>8 DEF Assets, Side
    <3> QED
      BY <1>5, <1>6, <3>1
  <2>3. p.native \in Side => Paid(<<paid>>)[p.native] = 0
    BY <1>7, <1>8 DEF Assets, Side
  <2>4. q.lq - p.lq = Paid(<<paid>>).lq - r.value.lq
    BY <1>2, <1>5, <1>6, <1>7, <2>1
  <2>5. CASE p.native \in Side
    <3>1. /\ q.res[p.native] = p.res[p.native] - result.paid[p.native]
          /\ p.res[p.native] \in Nat /\ result.paid[p.native] \in Nat
          /\ Paid(<<paid>>).ada = left + result.paid[p.native]
      BY <1>5, <1>6, <1>7, <2>1, <2>5
    <3>2. p.res[p.native] - q.res[p.native] + r.value.ada - Paid(<<paid>>).ada <= r.datum.fee
      BY <1>2, <1>4, <3>1
    <3> QED
      BY <1>8, <2>2, <2>3, <2>4, <2>5, <3>2 DEF GivenTo
  <2>6. CASE p.native = "none"
    <3>1. 0 + r.value.ada - Paid(<<paid>>).ada <= r.datum.fee
      BY <1>2, <1>4, <1>7, <2>1, <2>6
    <3>2. p.native \notin Side
      BY <2>6 DEF Side
    <3> QED
      BY <1>8, <2>2, <2>3, <2>4, <3>1, <3>2 DEF GivenTo
  <2> QED
    BY <1>2, <2>5, <2>6
<1>10. p.ver \in CfmmVer => SharesKept(p, q)
  <2> SUFFICES ASSUME p.ver \in CfmmVer, NEW s \in Side
               PROVE  (PureOf(q)[s] + 1) * p.lq >= PureOf(p)[s] * q.lq
    BY <1>1, <1>2, <1>5, <1>6 DEF SharesKept
  <2> DEFINE n == PureOf(p)[s]
             m == result.paid[s]
             lq == r.value.lq
  <2>1. n \in Nat /\ m \in Nat /\ lq \in Nat /\ m * p.lq <= lq * n /\ PureOf(q)[s] = n - m
    BY <1>2, <1>5, <1>6
  <2>2. q.lq = p.lq - lq
    BY <1>5
  <2> HIDE DEF n, m, lq
  <2>3. (n - m + 1) * p.lq = n * p.lq - m * p.lq + p.lq
    BY <1>6, <2>1
  <2>4. n * (p.lq - lq) = n * p.lq - lq * n
    BY <1>6, <2>1
  <2> DEFINE a == n * p.lq
             c == m * p.lq
             d == lq * n
  <2>5. a \in Nat /\ c \in Nat /\ d \in Nat /\ c <= d
    BY <1>6, <2>1
  <2>6. a - c + p.lq >= a - d
    <3> HIDE DEF a, c, d
    <3> QED
      BY <1>6, <2>5
  <2>7. (n - m + 1) * p.lq >= n * (p.lq - lq)
    BY <2>3, <2>4, <2>6
  <2> QED
    BY <2>1, <2>2, <2>7 DEF n
<1> QED
  BY <1>3, <1>5, <1>9, <1>10 DEF Answered, b

(* Where the pool's worth is as it was, so is the worth of a share.        *)
LEMMA SameShares ==
    ASSUME NEW p, PoolOk(p), p.ver \notin QuadraticVer, NEW q, PureOf(q) = PureOf(p), q.lq = p.lq
    PROVE  SharesKept(p, q)
<1>1. \A s \in Side : PureOf(p)[s] \in Nat
  BY PureOfFacts
<1> QED
  BY <1>1 DEF SharesKept

(* A withdrawal of royalties is answered with what it names.               *)
LEMMA RoyaltyAnswered ==
    ASSUME NEW p, PoolOk(p), NEW r, r.kind = "royalty", OrderOk(r, p.native),
           NEW o, o = ParseOrder(r, p.native), o # Refused, Succeeded(ApplyOrder(p, o))
    PROVE  Answered(p, r, ApplyOrder(p, o))
<1> DEFINE b == ApplyOrder(p, o)
           q == b.pool
           left == Wrapped(r.value.ada - r.datum.fee)
           paid == MadeOf(p.native, left, r.datum.out, 0)
<1>1. /\ o.kind = "royalty" /\ o.out = r.datum.out /\ o.ada = r.value.ada /\ o.fee = r.datum.fee
  BY DEF ParseOrder, ParseRoyaltyWithdraw
<1>2. /\ r.value \in Values /\ r.value.ada < Word /\ r.datum.fee \in Nat
      /\ r.value.x = 0 /\ r.value.y = 0 /\ r.value.lq = 0 /\ r.datum.out \in [Side -> Nat]
      /\ p.native \in Side \cup {"none"} /\ r.value.ada \in Nat
  BY PoolOkFacts DEF OrderOk, Values
<1>3. b = ApplyRoyaltyWithdraw(p, o)
  BY <1>1 DEF ApplyOrder
<1>4. /\ p.ver \in RoyaltyVer
      /\ PoolOk(q) /\ SameConfig(p, q) /\ PureOf(q) = PureOf(p) /\ q.lq = p.lq /\ q.stake = p.stake
      /\ \A s \in Side : q.res[s] = p.res[s] - o.out[s]
      /\ b.fee = RoyaltyFee
      /\ b.outputs = <<MadeOf(p.native, Wrapped(o.ada - o.fee), o.out, 0)>>
  <2>1. o.out \in [Side -> Nat] /\ Succeeded(ApplyRoyaltyWithdraw(p, o))
    BY <1>1, <1>2, <1>3
  <2> QED
    BY <1>3, <2>1, RoyaltyMoves
<1>5. b.outputs = <<paid>>
  BY <1>1, <1>4
<1>6. left \in Nat /\ left >= r.value.ada - r.datum.fee
  <2>1. r.value.ada - r.datum.fee \in Int /\ r.value.ada - r.datum.fee < Word
    BY <1>2, CfmmPoolsAssumption
  <2> QED
    BY <2>1, WrappedFacts
<1> HIDE DEF b, q, left
<1>7. /\ IsValue(paid) /\ paid.lq = 0
      /\ p.native \in Side => paid[p.native] = 0 /\ paid.ada = left + r.datum.out[p.native]
      /\ p.native = "none" => paid.ada = left
      /\ \A s \in Side \ {p.native} : paid[s] = r.datum.out[s]
  <2>1. (\A s \in Side : r.datum.out[s] \in Int) /\ left \in Int
    BY <1>2, <1>6
  <2>2. p.native \in Side \cup {"none"}
    BY <1>2
  <2> DEFINE out == r.datum.out
  <2>3. Made(paid, p.native, left, out, 0)
    <3>1. (\A s \in Side : out[s] \in Int) /\ left \in Int /\ 0 \in Int
      BY <2>1
    <3>2. paid = MadeOf(p.native, left, out, 0)
      OBVIOUS
    <3> HIDE DEF paid, out
    <3> QED
      BY <2>2, <3>1, <3>2, MadeFacts
  <2> QED
    BY <2>3 DEF Made
<1> HIDE DEF paid
<1>8. \A a \in Assets : Paid(<<paid>>)[a] = paid[a] /\ paid[a] \in Int
  BY <1>7, PaidFacts
<1>9. /\ p.res \in [Side -> Nat] /\ p.lq \in Nat
      /\ \A s \in Side : q.res[s] = p.res[s] - r.datum.out[s]
  BY <1>1, <1>4, PoolOkFacts
<1>10. GivenTo(p, q, r.value, Paid(<<paid>>), r.datum.fee)
  <2>1. Paid(<<paid>>).lq = paid.lq /\ Paid(<<paid>>).ada = paid.ada
    BY <1>8 DEF Assets
  <2>2. ASSUME NEW s \in Side \ {p.native} PROVE p.res[s] + r.value[s] = q.res[s] + Paid(<<paid>>)[s]
    <3>1. Paid(<<paid>>)[s] = r.datum.out[s] /\ r.value[s] = 0
      BY <1>2, <1>7, <1>8 DEF Assets, Side
    <3> QED
      BY <1>2, <1>9, <3>1
  <2>3. p.native \in Side => Paid(<<paid>>)[p.native] = 0
    BY <1>7, <1>8 DEF Assets, Side
  <2>4. q.lq - p.lq = Paid(<<paid>>).lq - r.value.lq
    BY <1>2, <1>4, <1>7, <1>9, <2>1
  <2>5. CASE p.native \in Side
    <3>1. /\ q.res[p.native] = p.res[p.native] - r.datum.out[p.native]
          /\ p.res[p.native] \in Nat /\ r.datum.out[p.native] \in Nat
          /\ Paid(<<paid>>).ada = left + r.datum.out[p.native]
      BY <1>2, <1>7, <1>9, <2>1, <2>5
    <3>2. p.res[p.native] - q.res[p.native] + r.value.ada - Paid(<<paid>>).ada <= r.datum.fee
      BY <1>2, <1>6, <3>1
    <3> QED
      BY <1>8, <2>2, <2>3, <2>4, <2>5, <3>2 DEF GivenTo
  <2>6. CASE p.native = "none"
    <3>1. 0 + r.value.ada - Paid(<<paid>>).ada <= r.datum.fee
      BY <1>2, <1>6, <1>7, <2>1, <2>6
    <3>2. p.native \notin Side
      BY <2>6 DEF Side
    <3> QED
      BY <1>8, <2>2, <2>3, <2>4, <3>1, <3>2 DEF GivenTo
  <2> QED
    BY <1>2, <2>5, <2>6
<1>11. SharesKept(p, q)
  BY <1>4, SameShares, RoyaltyKinds
<1> QED
  BY <1>4, <1>5, <1>10, <1>11 DEF Answered, b, q

(* A request of the DAO is answered with its ADA, and the treasury with    *)
(* what it takes.                                                          *)
LEMMA DaoAnswered ==
    ASSUME NEW p, PoolOk(p), NEW r, r.kind = "dao", OrderOk(r, p.native),
           NEW o, o = ParseOrder(r, p.native), o # Refused, Succeeded(ApplyOrder(p, o))
    PROVE  Answered(p, r, ApplyOrder(p, o))
<1> DEFINE b == ApplyOrder(p, o)
           q == b.pool
           taken == r.datum.terms.treasury
           left == r.value.ada - r.datum.fee
           back == MadeOf("none", left, Zero, 0)
           treasury == MadeOf(p.native, 0, taken, 0)
<1>1. /\ o.kind = "dao" /\ o.terms = r.datum.terms /\ o.ada = r.value.ada /\ o.fee = r.datum.fee
  BY DEF ParseOrder, ParseDaoRequest
<1>2. /\ r.value \in Values /\ r.datum.fee \in Nat
      /\ r.value.x = 0 /\ r.value.y = 0 /\ r.value.lq = 0 /\ r.datum.terms.treasury \in [Side -> Nat]
      /\ r.datum.terms.fee \in Nat /\ r.datum.terms.tfee \in Nat
      /\ StakeNamed => r.datum.terms.stake # NoStake
      /\ p.native \in Side \cup {"none"} /\ r.value.ada \in Nat
  BY PoolOkFacts DEF OrderOk, Values
<1>3. b = ApplyDaoRequest(p, o)
  BY <1>1 DEF ApplyOrder
<1>4. /\ p.ver \in RoyaltyVer
      /\ PoolOk(q) /\ SameConfig(p, q) /\ PureOf(q) = PureOf(p) /\ q.lq = p.lq
      /\ q.stake \in {p.stake, r.datum.terms.stake}
      /\ b.fee = DaoFee
      /\ \/ q.res = p.res /\ b.outputs = <<back>>
         \/ /\ \A s \in Side : q.res[s] = p.res[s] - taken[s]
            /\ b.outputs = <<back, treasury>>
  <2>1. /\ o.terms.treasury \in [Side -> Nat] /\ o.terms.fee \in Nat /\ o.terms.tfee \in Nat
        /\ Succeeded(ApplyDaoRequest(p, o))
    BY <1>1, <1>2, <1>3
  <2>2. /\ p.ver \in RoyaltyVer
        /\ PoolOk(q) /\ SameConfig(p, q) /\ PureOf(q) = PureOf(p) /\ q.lq = p.lq
        /\ q.stake \in {p.stake, o.terms.stake}
        /\ b.fee = DaoFee
        /\ \/ q.res = p.res /\ b.outputs = <<MadeOf("none", o.ada - o.fee, Zero, 0)>>
           \/ /\ \A s \in Side : q.res[s] = p.res[s] - o.terms.treasury[s]
              /\ b.outputs = <<MadeOf("none", o.ada - o.fee, Zero, 0),
                               MadeOf(p.native, 0, o.terms.treasury, 0)>>
    BY <1>3, <2>1, DaoMoves
  <2> HIDE DEF b, q
  <2> QED
    BY <1>1, <2>2
<1> HIDE DEF b, q, taken, left
<1>5. left \in Int /\ left = r.value.ada - r.datum.fee
  BY <1>2 DEF left
<1>6. \A s \in Side : taken[s] \in Nat
  BY <1>2 DEF taken
<1>7. IsValue(back) /\ back.ada = left /\ \A a \in Assets \ {"ada"} : back[a] = 0
  <2>1. Made(back, "none", left, Zero, 0)
    <3>1. (\A s \in Side : Zero[s] \in Int) /\ 0 \in Int
      BY ZeroFacts
    <3> QED
      BY <1>5, <3>1, MadeFacts
  <2>2. Zero["x"] = 0 /\ Zero["y"] = 0
    BY ZeroFacts DEF Side
  <2> HIDE DEF back
  <2> QED
    BY <2>1, <2>2 DEF Made, Side, Assets
<1>8. /\ IsValue(treasury) /\ treasury.lq = 0
      /\ p.native \in Side => treasury[p.native] = 0 /\ treasury.ada = taken[p.native]
      /\ p.native = "none" => treasury.ada = 0
      /\ \A s \in Side \ {p.native} : treasury[s] = taken[s]
  <2>1. Made(treasury, p.native, 0, taken, 0)
    <3>1. (\A s \in Side : taken[s] \in Int) /\ 0 \in Int /\ p.native \in Side \cup {"none"}
      BY <1>2, <1>6
    <3> QED
      BY <3>1, MadeFacts
  <2> HIDE DEF treasury
  <2> QED
    BY <1>6, <2>1 DEF Made
<1> HIDE DEF back, treasury
<1>9. /\ p.res \in [Side -> Nat] /\ p.lq \in Nat
  BY PoolOkFacts
<1>10. GivenTo(p, q, r.value, Paid(b.outputs), r.datum.fee)
  <2>1. CASE q.res = p.res /\ b.outputs = <<back>>
    <3> DEFINE w == Paid(<<back>>)
    <3> SUFFICES GivenTo(p, q, r.value, w, r.datum.fee)
      BY <2>1
    <3>1. (\A a \in Assets : w[a] = back[a] /\ w[a] \in Int) /\ w.ada = left /\ w.lq = 0
      BY <1>7, PaidFacts DEF Assets
    <3> HIDE DEF w
    <3>2. \A s \in Side : w[s] = 0
      BY <1>7, <3>1 DEF Assets, Side
    <3>3. \A s \in Side \ {p.native} : p.res[s] + r.value[s] = q.res[s] + w[s]
      BY <1>2, <1>9, <2>1, <3>2 DEF Side
    <3>4. q.lq - p.lq = w.lq - r.value.lq
      BY <1>2, <1>4, <1>9, <3>1
    <3>5. CASE p.native \in Side
      <4>1. p.res[p.native] - q.res[p.native] = 0
        BY <1>9, <2>1, <3>5
      <4>2. 0 + r.value.ada - w.ada <= r.datum.fee
        BY <1>2, <1>5, <3>1
      <4>3. p.res[p.native] - q.res[p.native] + r.value.ada - w.ada <= r.datum.fee
        BY <1>2, <1>5, <3>1, <4>1, <4>2
      <4> QED
        BY <3>1, <3>2, <3>3, <3>4, <3>5, <4>3 DEF GivenTo
    <3>6. CASE p.native \notin Side
      <4>2. 0 + r.value.ada - w.ada <= r.datum.fee
        BY <1>2, <1>5, <3>1
      <4> QED
        BY <3>1, <3>3, <3>4, <3>6, <4>2 DEF GivenTo
    <3> QED
      BY <3>5, <3>6
  <2>2. CASE (\A s \in Side : q.res[s] = p.res[s] - taken[s]) /\ b.outputs = <<back, treasury>>
    <3> DEFINE w == Paid(<<back, treasury>>)
    <3> SUFFICES GivenTo(p, q, r.value, w, r.datum.fee)
      BY <2>2
    <3>1. /\ \A a \in Assets : w[a] = back[a] + treasury[a] /\ back[a] \in Int /\ treasury[a] \in Int
          /\ w.ada = left + treasury.ada /\ w.lq = 0
      <4>1. /\ \A a \in Assets : w[a] = back[a] + treasury[a] /\ back[a] \in Int /\ treasury[a] \in Int
            /\ w.ada = back.ada + treasury.ada /\ w.lq = back.lq + treasury.lq
        <5>1. IsValue(back) /\ IsValue(treasury)
          BY <1>7, <1>8
        <5>2. PaidTwice(w, back, treasury)
          BY <5>1, PaidTwiceFacts
        <5> HIDE DEF w
        <5> QED
          BY <5>2 DEF PaidTwice
      <4>2. back.lq = 0
        BY <1>7 DEF Assets
      <4> QED
        BY <1>7, <1>8, <4>1, <4>2
    <3> HIDE DEF w
    <3>0. \A a \in Assets : w[a] \in Int
      BY <3>1
    <3>2. \A s \in Side : w[s] = treasury[s]
      BY <1>7, <3>1 DEF Assets, Side
    <3>3. \A s \in Side \ {p.native} : p.res[s] + r.value[s] = q.res[s] + w[s]
      <4> TAKE s \in Side \ {p.native}
      <4>1. /\ r.value[s] = 0 /\ q.res[s] = p.res[s] - taken[s] /\ w[s] = taken[s]
            /\ p.res[s] \in Nat /\ taken[s] \in Nat
        BY <1>2, <1>6, <1>8, <1>9, <2>2, <3>2 DEF Side
      <4> QED
        BY <4>1
    <3>4. q.lq - p.lq = w.lq - r.value.lq
      BY <1>2, <1>4, <1>9, <3>1
    <3>5. CASE p.native \in Side
      <4>1. /\ q.res[p.native] = p.res[p.native] - taken[p.native]
            /\ p.res[p.native] \in Nat /\ taken[p.native] \in Nat
            /\ treasury.ada = taken[p.native] /\ w[p.native] = 0
        BY <1>6, <1>8, <1>9, <2>2, <3>2, <3>5
      <4>2. p.res[p.native] - q.res[p.native] + r.value.ada - w.ada <= r.datum.fee
        BY <1>2, <1>5, <3>1, <4>1
      <4> QED
        BY <3>0, <3>3, <3>4, <3>5, <4>1, <4>2 DEF GivenTo
    <3>6. CASE p.native \notin Side
      <4>1. p.native = "none"
        BY <1>2, <3>6
      <4>2. 0 + r.value.ada - w.ada <= r.datum.fee
        BY <1>2, <1>5, <1>8, <3>1, <4>1
      <4> QED
        BY <3>0, <3>3, <3>4, <3>6, <4>2 DEF GivenTo
    <3> QED
      BY <3>5, <3>6
  <2> QED
    BY <1>4, <2>1, <2>2
<1>11. SharesKept(p, q)
  BY <1>4, SameShares, RoyaltyKinds
<1> QED
  BY <1>2, <1>4, <1>10, <1>11 DEF Answered, b, q

(* Whatever order is run: the pool stays sound, the owner of the order     *)
(* gets all of it but the fee, and a share is worth no less.               *)
LEMMA OrderAnswered ==
    ASSUME NEW p, PoolOk(p), p.ver \notin QuadraticVer, NEW r, OrderOk(r, p.native),
           NEW o, o = ParseOrder(r, p.native), o # Refused, Succeeded(ApplyOrder(p, o))
    PROVE  Answered(p, r, ApplyOrder(p, o)) /\ o.fee = r.datum.fee
<1>1. r.kind \in {"deposit", "redeem", "royalty", "dao"}
  BY DEF OrderOk
<1>2. o.fee = r.datum.fee
  BY DEF ParseOrder, ParseDeposit, ParseRedeem, ParseRoyaltyWithdraw, ParseDaoRequest
<1> QED
  BY <1>1, <1>2, DepositAnswered, RedeemAnswered, RoyaltyAnswered, DaoAnswered

(* Of every kind, and the curve of a constant-product pool does not fall.  *)
LEMMA SwapKeeps ==
    ASSUME NEW p, PoolOk(p), p.ver \in CfmmVer \cup BalanceVer => FeeFits(p),
           NEW side \in {"bid", "ask"}, NEW amount \in Nat \ {0}, SwapDefined(p, side, amount)
    PROVE  LET q == AnySwap(p, side, amount)
           IN  /\ PoolOk(q) /\ SameConfig(p, q) /\ q.lq = p.lq
               /\ p.ver \in CfmmVer => /\ q.stake = p.stake
                                       /\ CurveOf(p) <= CurveOf(q)
<1> DEFINE q == AnySwap(p, side, amount)
<1>1. CASE p.ver \in CfmmVer
  <2>1. CfmmPool(p) /\ FeeFits(p) /\ q = CfmmSwap(p, side, amount)
    BY <1>1, PoolKinds DEF PoolOk, AnySwap
  <2>2. /\ CfmmPool(q)
        /\ Pure(p)["x"] * Pure(p)["y"] <= Pure(q)["x"] * Pure(q)["y"]
        /\ q.ver = p.ver /\ q.native = p.native /\ q.base = p.base /\ q.lq = p.lq
        /\ q.stake = p.stake /\ q.fee = p.fee /\ q.tfee = p.tfee /\ q.fee1 = p.fee1
        /\ q.fee2 = p.fee2 /\ q.nonce = p.nonce /\ q.bound = p.bound /\ q.admin = p.admin
        /\ q.treasuryAddress = p.treasuryAddress /\ q.key1 = p.key1 /\ q.key2 = p.key2
    BY <2>1, CfmmSwapKeeps
  <2> HIDE DEF q
  <2>3. p.ver \notin BalanceVer /\ p.ver # "Stable" /\ p.ver \notin QuadraticVer
    BY <1>1, PoolKinds
  <2>4. CurveOf(p) = Pure(p)["x"] * Pure(p)["y"] /\ CurveOf(q) = Pure(q)["x"] * Pure(q)["y"]
    BY <1>1, <2>2, <2>3, Zenon DEF CurveOf, PureOf
  <2>5. PoolOk(q) /\ SameConfig(p, q)
    BY <1>1, <2>1, <2>2, <2>3 DEF PoolOk, SameConfig, CfmmPool, CfmmTyped
  <2> QED
    BY <2>2, <2>4, <2>5 DEF q
<1>2. CASE p.ver \in BalanceVer
  <2>1. BalancePool(p) /\ FeeFits(p) /\ q = BalanceSwap(p, side, amount) /\ p.ver \notin CfmmVer
        /\ p.ver \notin QuadraticVer
    BY <1>2, PoolKinds DEF PoolOk, AnySwap
  <2>2. /\ BalancePool(q)
        /\ q.ver = p.ver /\ q.native = p.native /\ q.base = p.base /\ q.lq = p.lq
        /\ q.weight = p.weight /\ q.fee = p.fee /\ q.tfee = p.tfee
    BY <2>1, BalanceSwapKeeps
  <2> HIDE DEF q
  <2>3. PoolOk(q) /\ SameConfig(p, q)
    BY <1>2, <2>1, <2>2 DEF PoolOk, SameConfig
  <2> QED
    BY <2>1, <2>2, <2>3 DEF q
<1>3. CASE p.ver \in QuadraticVer
  <2>1. /\ QuadraticPool(p) /\ p.ver \notin CfmmVer /\ p.ver \notin BalanceVer
        /\ q = QuadraticSwap(p, side, amount)
        /\ InputSide(p, side) = "y" => amount <= Supply(p)
    BY <1>3, PoolKinds DEF PoolOk, AnySwap, SwapDefined
  <2>2. /\ QuadraticPool(q)
        /\ q.ver = p.ver /\ q.native = p.native /\ q.base = p.base /\ q.lq = p.lq
        /\ q.aNum = p.aNum /\ q.bNum = p.bNum /\ q.cap = p.cap
    BY <2>1, QuadraticSwapKeeps
  <2> HIDE DEF q
  <2>3. PoolOk(q) /\ SameConfig(p, q)
    BY <1>3, <2>1, <2>2 DEF PoolOk, SameConfig
  <2> QED
    BY <2>1, <2>2, <2>3 DEF q
<1> QED
  BY <1>1, <1>2, <1>3, PoolOkFacts

(* Both ways to write a pool differ in the value alone.                    *)
LEMMA ProducedFacts ==
    ASSUME NEW p, NEW q, NEW u, OutputOk(u, p)
    PROVE  LET v == Produced(u, p, q)
           IN  OutputOk(v, p) /\ v.datum = UpdateDatum(u.datum, q) /\ v.stake = u.stake
<1> DEFINE s == InputSide(p, TradeSide(p, q))
           value == AddAsset(AddAsset(u.value, p.native, Other(s), -Loss(p, q)),
                             p.native, s, Gain(p, q))
           datum == UpdateDatum(u.datum, q)
<1>1. Produced(u, p, q) = [u EXCEPT !.value = value, !.datum = datum]
  BY DEF Produced, OutputOk
<1> HIDE DEF value, datum
<1>2. LET v == Produced(u, p, q)
      IN  OutputOk(v, p) /\ v.datum = datum /\ v.stake = u.stake
  BY <1>1 DEF OutputOk
<1> QED
  BY <1>2 DEF datum

(* A pool written from memory.                                             *)
LEMMA IntoFacts ==
    ASSUME NEW p, NEW q, q.ver = p.ver, p.ver \in CfmmVer \cup BalanceVer, NEW u, OutputOk(u, p)
    PROVE  LET v == AnyInto(q, u)
           IN  /\ OutputOk(v, p) /\ v.value = PooledValue(q, u)
               /\ v.datum = UpdateDatum(u.datum, q)
               /\ p.ver \in CfmmVer => v.stake = Staked(q, u)
<1>1. CASE p.ver \in ClassicVer
  BY <1>1 DEF AnyInto, IntoCfmm, IntoClassic, UpdateDatum, OutputOk, CfmmVer
<1>2. CASE p.ver \in FeeSwitchVer
  BY <1>2 DEF AnyInto, IntoCfmm, IntoFeeSwitch, IntoClassic, UpdateDatum, OutputOk,
              CfmmVer, ClassicVer, FeeSwitchVer
<1>3. CASE p.ver \in RoyaltyVer
  <2>1. /\ p.ver \in CfmmVer /\ p.ver \notin ClassicVer /\ p.ver \notin FeeSwitchVer
        /\ p.ver # "QuadraticV1"
    BY <1>3, RoyaltyKinds DEF RoyaltyVer
  <2>2. AnyInto(q, u) = IntoRoyalty(q, u)
    BY <2>1 DEF AnyInto, IntoCfmm
  <2>3. UpdateDatum(u.datum, q) =
          IF p.ver = "RoyaltyV2" THEN UpdateRoyaltyV2(u.datum, q) ELSE UpdateRoyalty(u.datum, q)
    BY <1>3, <2>1 DEF UpdateDatum
  <2> QED
    BY <2>2, <2>3 DEF IntoRoyalty, IntoClassic, OutputOk
<1>4. CASE p.ver \in BalanceVer
  <2>1. /\ p.ver \notin CfmmVer /\ p.ver \notin ClassicVer /\ p.ver \notin FeeSwitchVer
        /\ p.ver # "RoyaltyV2" /\ p.ver \notin RoyaltyVer /\ p.ver # "QuadraticV1"
    BY <1>4 DEF CfmmVer, ClassicVer, FeeSwitchVer, RoyaltyVer, BalanceVer
  <2> QED
    BY <1>4, <2>1 DEF AnyInto, IntoBalance, UpdateDatum, OutputOk
<1> QED
  BY <1>1, <1>2, <1>3, <1>4 DEF CfmmVer

(* A swap keeps the invariant (execution_engine/instances.rs).             *)
LEMMA SwapKeepsInv ==
    ASSUME PoolInv, FeesFit, NEW side \in {"bid", "ask"}, NEW amount \in Amounts, Swap(side, amount)
    PROVE  /\ PoolInv' /\ pool'.native = pool.native /\ pool'.lq = pool.lq /\ pool'.ver = pool.ver
           /\ pool.ver \in CfmmVer => CurveOf(pool) <= CurveOf(pool')
<1> DEFINE p == pool
           q == AnySwap(pool, side, amount)
           u == utxo
           v == Produced(utxo, pool, q)
<1>1. pool' = q /\ utxo' = v /\ TradeSide(p, q) # Refused /\ SwapDefined(p, side, amount)
  BY DEF Swap
<1>2. /\ PoolOk(p) /\ ValueHolds(p, u.value) /\ OutputOk(u, p) /\ Mirrored(p, u)
      /\ amount \in Nat \ {0} /\ (p.ver \in CfmmVer \cup BalanceVer => FeeFits(p))
  BY PoolTradingAssumption DEF PoolInv, FeesFit
<1>3. /\ PoolOk(q) /\ SameConfig(p, q) /\ q.lq = p.lq
      /\ p.ver \in CfmmVer => q.stake = p.stake /\ CurveOf(p) <= CurveOf(q)
  BY <1>1, <1>2, SwapKeeps
<1>4. q.ver = p.ver /\ q.native = p.native /\ q.base = p.base
  BY <1>3 DEF SameConfig
<1>5. OutputOk(v, p) /\ v.datum = UpdateDatum(u.datum, q) /\ v.stake = u.stake
  BY <1>2, ProducedFacts
<1>6. ValueHolds(q, v.value)
  <2>1. "value" \in DOMAIN u
    BY <1>2 DEF OutputOk
  <2>2. /\ PoolOk(p) /\ PoolOk(q) /\ q.ver = p.ver /\ q.native = p.native /\ q.base = p.base
        /\ q.lq = p.lq /\ TradeSide(p, q) # Refused /\ ValueHolds(p, u.value)
    BY <1>1, <1>2, <1>3, <1>4
  <2> HIDE DEF q, p, u
  <2>3. ValueHolds(q, Produced(u, p, q).value)
    BY <2>1, <2>2, ProducedValue
  <2> QED
    BY <2>3 DEF p, u
<1> HIDE DEF q, v
<1>7. Mirrored(q, v)
  <2> SUFFICES ASSUME q.ver \in RoundTrip, StakeNamed
               PROVE  DatumHolds(q, v) /\ Written(q.ver) \subseteq DOMAIN v.datum
    BY DEF Mirrored
  <2>1. DatumHolds(p, u) /\ Written(p.ver) \subseteq DOMAIN u.datum /\ p.ver \in RoundTrip
    BY <1>2, <1>4 DEF Mirrored
  <2>2. p.ver \in CfmmVer => v.stake = q.stake
    BY <1>3, <1>5, <2>1 DEF DatumHolds, CfmmHolds
  <2> QED
    BY <1>3, <1>4, <1>5, <2>1, <2>2, DatumWritten
<1>8. OutputOk(v, q)
  BY <1>4, <1>5 DEF OutputOk
<1>9. PoolInv'
  BY <1>1, <1>3, <1>6, <1>7, <1>8 DEF PoolInv
<1> QED
  BY <1>1, <1>3, <1>4, <1>9

(* Running an order keeps it, and leaves the operator nothing but the fee  *)
(* (try_run_order_against_pool).                                           *)
LEMMA RunKeepsInv ==
    ASSUME PoolInv, pool.ver # "Stable", NEW r \in requests, OrderOk(r, pool.native), Run(r)
    PROVE  /\ PoolInv' /\ OperatorTakesOnlyFee' /\ pool'.native = pool.native /\ pool'.ver = pool.ver
           /\ pool.ver \in CfmmVer => SharesKept(pool, pool')
<1>1. PICK o \in {ParseOrder(r, pool.native)} \ {Refused} :
          LET built == Built(pool, utxo, o, r)
          IN  /\ Succeeded(built) /\ pool' = built.pool /\ utxo' = built.utxo
              /\ tx' = [order |-> o, outputs |-> built.outputs, operator |-> built.operator,
                        fee |-> built.fee]
  BY DEF Run
<1> DEFINE p == pool
           u == utxo
           b == ApplyOrder(p, o)
           q == b.pool
           w == Paid(b.outputs)
           v == AnyInto(q, u)
           fee == IF b.fee = NoFee THEN TxFee ELSE b.fee
           had == Sum2(u.value, r.value)
           spent == Sum2(v.value, w)
           left == [a \in Assets |-> had[a] - spent[a] - (IF a = "ada" THEN fee ELSE 0)]
           built == Built(p, u, o, r)
<1>2. /\ Succeeded(b)
      /\ built = [pool |-> q, utxo |-> v, outputs |-> b.outputs, operator |-> left, fee |-> fee]
  <2>1. built = IF ~ Succeeded(b) THEN b
                ELSE IF \E a \in Assets : left[a] < 0 THEN Failed("insufficient")
                ELSE [pool |-> q, utxo |-> v, outputs |-> b.outputs, operator |-> left, fee |-> fee]
    BY DEF Built, Balanced
  <2>2. Succeeded(built)
    BY <1>1
  <2> HIDE DEF built, b, left, v, fee
  <2>3. ~Succeeded(Failed("insufficient"))
    BY DEF Succeeded, Failed
  <2> QED
    BY <2>1, <2>2, <2>3
<1>3. /\ pool' = q /\ utxo' = v
      /\ tx' = [order |-> o, outputs |-> b.outputs, operator |-> left, fee |-> fee]
  <2>1. /\ pool' = built.pool /\ utxo' = built.utxo
        /\ tx' = [order |-> o, outputs |-> built.outputs, operator |-> built.operator,
                  fee |-> built.fee]
    BY <1>1
  <2> HIDE DEF built, b, left, v, fee, q
  <2> QED
    BY <1>2, <2>1
<1>4. /\ PoolOk(p) /\ ValueHolds(p, u.value) /\ OutputOk(u, p) /\ Mirrored(p, u)
      /\ p.ver \notin QuadraticVer /\ p.ver \in CfmmVer \cup BalanceVer
  BY PoolOkFacts DEF PoolInv, Run
<1>5. o = ParseOrder(r, p.native) /\ o # Refused
  BY <1>1
<1>6. Answered(p, r, b) /\ o.fee = r.datum.fee
  BY <1>2, <1>4, <1>5, OrderAnswered
<1> HIDE DEF b
<1>7. /\ PoolOk(q) /\ SameConfig(p, q) /\ GivenTo(p, q, r.value, w, r.datum.fee)
      /\ p.ver \in CfmmVer /\ StakeNamed => q.stake = p.stake \/ q.stake # NoStake
      /\ p.ver \in CfmmVer => SharesKept(p, q)
      /\ b.fee \in {NoFee, RoyaltyFee, DaoFee}
  BY <1>6 DEF Answered
<1>8. q.ver = p.ver /\ q.native = p.native /\ q.base = p.base
  BY <1>7 DEF SameConfig
<1> HIDE DEF q
<1>9. /\ OutputOk(v, p) /\ v.value = PooledValue(q, u) /\ v.datum = UpdateDatum(u.datum, q)
      /\ p.ver \in CfmmVer => v.stake = Staked(q, u)
  BY <1>4, <1>8, IntoFacts
<1>10. ValueHolds(q, v.value)
  <2>1. q.native = "none" => u.value.ada \in Nat
    BY <1>4, <1>8 DEF ValueHolds
  <2> QED
    BY <1>7, <1>9, <2>1, PooledFacts
<1>11. Mirrored(q, v)
  <2> SUFFICES ASSUME q.ver \in RoundTrip, StakeNamed
               PROVE  DatumHolds(q, v) /\ Written(q.ver) \subseteq DOMAIN v.datum
    BY DEF Mirrored
  <2>1. DatumHolds(p, u) /\ Written(p.ver) \subseteq DOMAIN u.datum /\ p.ver \in RoundTrip
    BY <1>4, <1>8 DEF Mirrored
  <2>2. p.ver \in CfmmVer => v.stake = q.stake
    BY <1>7, <1>9, <2>1 DEF DatumHolds, CfmmHolds, Staked
  <2> HIDE DEF v, p, u
  <2> QED
    BY <1>7, <1>8, <1>9, <2>1, <2>2, DatumWritten
<1>12. OutputOk(v, q)
  BY <1>8, <1>9 DEF OutputOk
<1>13. (\A a \in {"x", "y", "lq"} : left[a] = 0) /\ left.ada + fee <= o.fee
  <2>1. LeftBy(left, u.value, r.value, PooledValue(q, u), w, fee)
    <3>1. v.value = PooledValue(q, u)
      BY <1>9
    <3> HIDE DEF v, w, fee, u
    <3>2. ASSUME NEW a \in Assets
          PROVE  left[a] = (u.value[a] + r.value[a]) - (PooledValue(q, u)[a] + w[a])
                             - (IF a = "ada" THEN fee ELSE 0)
      <4>1. had[a] = u.value[a] + r.value[a]
        BY DEF Sum2
      <4>2. spent[a] = PooledValue(q, u)[a] + w[a]
        BY <3>1 DEF Sum2
      <4> HIDE DEF had, spent
      <4>3. left[a] = had[a] - spent[a] - (IF a = "ada" THEN fee ELSE 0)
        OBVIOUS
      <4> HIDE DEF left
      <4> QED
        BY <4>1, <4>2, <4>3
    <3> HIDE DEF left
    <3> QED
      BY <3>2 DEF LeftBy
  <2>2. fee \in Int
    BY <1>7, AmmOrdersAssumption, PoolTradingAssumption
  <2>3. /\ r.value \in Values /\ r.datum.fee \in Int /\ (p.native \in Side => r.value[p.native] = 0)
    BY DEF OrderOk
  <2> HIDE DEF left, fee, w, p, u
  <2>4. /\ \A a \in {"x", "y", "lq"} : left[a] = 0
        /\ left.ada + fee <= r.datum.fee
    <3>1. /\ PoolOk(p) /\ p.ver \notin QuadraticVer /\ PoolOk(q) /\ q.ver = p.ver
          /\ q.native = p.native /\ ValueHolds(p, u.value)
          /\ GivenTo(p, q, r.value, w, r.datum.fee)
      BY <1>4, <1>7, <1>8
    <3> QED
      BY <2>1, <2>2, <2>3, <3>1, Accounting
  <2> QED
    BY <1>6, <2>4
<1> HIDE DEF left, fee, v
<1>14. PoolInv'
  BY <1>3, <1>7, <1>10, <1>11, <1>12 DEF PoolInv
<1>15. OperatorTakesOnlyFee'
  BY <1>3, <1>13 DEF OperatorTakesOnlyFee
<1> QED
  BY <1>3, <1>7, <1>8, <1>14, <1>15

-----------------------------------------------------------------------------
(* Reading a pool off the ledger.                                          *)

(* Reading an output as a pool.                                            *)
LEMMA ParsedFields ==
    ASSUME NEW u, NEW native, NEW base, NEW p, p = Parsed(u, native, base)
    PROVE  /\ p = [f \in CfmmFields |-> p[f]]
           /\ p.ver = u.ver /\ p.native = native /\ p.base = base /\ p.res = Reserves(u, native)
           /\ p.lq = MaxLqCap - u.value.lq /\ p.stake = u.stake
           /\ p.treasury = Zero /\ p.first = Zero /\ p.second = Zero /\ p.fee = Zero
           /\ p.tfee = 0 /\ p.fee1 = 0 /\ p.fee2 = 0 /\ p.nonce = 0 /\ p.bound = 0
           /\ p.admin = NoKey /\ p.treasuryAddress = NoKey /\ p.key1 = NoKey /\ p.key2 = NoKey
BY DEF Parsed, CfmmFields

(* What all pools read off the ledger have in common.                      *)
LEMMA OutputFacts ==
    ASSUME NEW u, NEW native, NEW base, IsPoolOutput(u, native, base)
    PROVE  /\ native \in Side \cup {"none"} /\ base \in Side
           /\ Reserves(u, native) \in [Side -> Nat] /\ MaxLqCap - u.value.lq \in Nat
           /\ IsValue(u.value) /\ u.value.ada \in Nat
           /\ \A s \in Side : AmountOf(u.value, native, s) = Reserves(u, native)[s]
           /\ native \in Side => u.value[native] = 0
           /\ u.value.lq = MaxLqCap - (MaxLqCap - u.value.lq)
           /\ u = [ver |-> u.ver, value |-> u.value, datum |-> u.datum, stake |-> u.stake]
           /\ \A i \in NumbersOf(u.ver) : u.datum[i] \in Nat
           /\ Written(u.ver) \subseteq DOMAIN u.datum
<1>1. /\ u.value \in Values /\ u.value.lq <= MaxLqCap /\ native \in Side \cup {"none"} /\ base \in Side
      /\ (native \in Side => u.value[native] = 0)
      /\ u = [ver |-> u.ver, value |-> u.value, datum |-> u.datum, stake |-> u.stake]
      /\ \A i \in NumbersOf(u.ver) : u.datum[i] \in Nat
      /\ Written(u.ver) \subseteq DOMAIN u.datum
  BY DEF IsPoolOutput, Written
<1>2. /\ u.value.ada \in Nat /\ u.value.x \in Nat /\ u.value.y \in Nat /\ u.value.lq \in Nat
      /\ IsValue(u.value)
  BY <1>1 DEF Values, IsValue
<1>3. /\ \A s \in Side : Reserves(u, native)[s] = AmountOf(u.value, native, s)
      /\ Reserves(u, native) = [s \in Side |-> AmountOf(u.value, native, s)]
  BY DEF Reserves
<1>4. \A s \in Side : AmountOf(u.value, native, s) \in Nat
  BY <1>2 DEF AmountOf, Side
<1>5. Reserves(u, native) \in [Side -> Nat]
  BY <1>3, <1>4
<1>6. MaxLqCap - u.value.lq \in Nat /\ u.value.lq = MaxLqCap - (MaxLqCap - u.value.lq)
  BY <1>1, <1>2, PoolMathAssumption
<1> QED
  BY <1>1, <1>2, <1>3, <1>5, <1>6

(* A pair of numbers.                                                      *)
PairNat(a, b) == Pair(a, b) \in [Side -> Nat] /\ Pair(a, b)["x"] = a /\ Pair(a, b)["y"] = b

(* It has the parts it was made of.                                        *)
LEMMA PairFacts ==
    ASSUME NEW a, a \in Nat, NEW b, b \in Nat
    PROVE  PairNat(a, b)
BY DEF Pair, Side, PairNat

(* A classic pool read off the ledger is sound and what its datum says     *)
(* (try_from_ledger of cfmm_pool.rs),                                      *)
LEMMA ClassicRead ==
    ASSUME NEW u, NEW native, NEW base, IsPoolOutput(u, native, base), u.ver \in ClassicVer,
           NEW p, p = ParseClassic(u, native, base)
    PROVE  CfmmPool(p) /\ p.ver = u.ver /\ p.native = native /\ p.res = Reserves(u, native)
           /\ p.lq = MaxLqCap - u.value.lq /\ CfmmHolds(p, u)
<1> DEFINE d == u.datum
           q == Parsed(u, native, base)
           fee == Pair(d[4] * LegacyFeeMult, d[4] * LegacyFeeMult)
<1>1. p = [q EXCEPT !.bound = Optional(d, 6), !.fee = fee]
  BY DEF ParseClassic, LegacyConfig
<1>2. /\ q = [f \in CfmmFields |-> q[f]]
      /\ q.ver = u.ver /\ q.native = native /\ q.base = base /\ q.res = Reserves(u, native)
      /\ q.lq = MaxLqCap - u.value.lq /\ q.stake = u.stake
      /\ q.treasury = Zero /\ q.first = Zero /\ q.second = Zero /\ q.fee = Zero
      /\ q.tfee = 0 /\ q.fee1 = 0 /\ q.fee2 = 0 /\ q.nonce = 0 /\ q.bound = 0
      /\ q.admin = NoKey /\ q.treasuryAddress = NoKey /\ q.key1 = NoKey /\ q.key2 = NoKey
  BY ParsedFields
<1>3. d[4] \in Nat /\ fee \in [Side -> Nat]
  <2>1. 4 \in NumbersOf(u.ver)
    BY DEF NumbersOf, ClassicVer
  <2>2. d[4] \in Nat
    BY <2>1, OutputFacts
  <2>3. d[4] * LegacyFeeMult \in Nat
    BY <2>2, CfmmPoolsAssumption
  <2> QED
    BY <2>2, <2>3, PairFacts DEF PairNat
<1> HIDE DEF q, fee
<1>4. /\ p = [f \in CfmmFields |-> p[f]] /\ p.bound = Optional(d, 6) /\ p.fee = fee
      /\ \A f \in CfmmFields \ {"bound", "fee"} : p[f] = q[f]
  BY <1>1, <1>2 DEF CfmmFields
<1>5. /\ p.ver = u.ver /\ p.native = native /\ p.base = base /\ p.res = Reserves(u, native)
      /\ p.lq = MaxLqCap - u.value.lq /\ p.stake = u.stake
      /\ p.treasury = Zero /\ p.first = Zero /\ p.second = Zero
      /\ p.tfee = 0 /\ p.fee1 = 0 /\ p.fee2 = 0 /\ p.nonce = 0
      /\ p.admin = NoKey /\ p.treasuryAddress = NoKey /\ p.key1 = NoKey /\ p.key2 = NoKey
  BY <1>2, <1>4 DEF CfmmFields
<1>6. u.ver \in CfmmVer /\ u.ver \notin RoyaltyVer /\ u.ver \notin FeeSwitchVer /\ u.ver # "RoyaltyV2"
  BY DEF CfmmVer, ClassicVer, RoyaltyVer, FeeSwitchVer
<1>7. CfmmTyped(p)
  BY <1>3, <1>4, <1>5, <1>6, OutputFacts, ZeroFacts DEF CfmmTyped
<1>8. Covered(p)
  BY <1>5, <1>7, ZeroFacts DEF Covered, CfmmTyped
<1>9. CfmmHolds(p, u)
  BY <1>4, <1>5, <1>6 DEF CfmmHolds, LegacyHolds, Blank, fee
<1> QED
  BY <1>5, <1>7, <1>8, <1>9 DEF CfmmPool

(* Whatever the checks accept is covered.                                  *)
LEMMA AcceptedCovered ==
    ASSUME NEW p, CfmmTyped(p), NEW u, Accepted(p, u)
    PROVE  Covered(p)
<1>1. \A s \in Side : p.res[s] > p.treasury[s] + p.first[s] + p.second[s]
  BY DEF Accepted
<1>2. \A s \in Side : p.res[s] \in Nat /\ p.treasury[s] \in Nat /\ p.first[s] \in Nat /\ p.second[s] \in Nat
  BY DEF CfmmTyped
<1> QED
  BY <1>1, <1>2 DEF Covered

(* so is a fee-switch pool that is accepted,                               *)
LEMMA FeeSwitchRead ==
    ASSUME NEW u, NEW native, NEW base, IsPoolOutput(u, native, base), u.ver \in FeeSwitchVer,
           NEW p, p = ParseFeeSwitch(u, native, base), p # Refused
    PROVE  /\ CfmmPool(p) /\ p.ver = u.ver /\ p.native = native /\ p.res = Reserves(u, native)
           /\ p.lq = MaxLqCap - u.value.lq
           /\ u.ver # "FeeSwitchBiDir" => CfmmHolds(p, u)
<1> DEFINE d == u.datum
           q == Parsed(u, native, base)
           conf == IF u.ver = "FeeSwitchBiDir" THEN BiDirConfig(d) ELSE FeeSwitchConfig(d)
           r == [q EXCEPT !.fee = conf.fee, !.tfee = conf.tfee, !.treasury = conf.treasury,
                          !.bound = conf.bound]
<1>1. p = r /\ Accepted(p, u)
  <2>1. p = IF Accepted(r, u) THEN r ELSE Refused
    BY DEF ParseFeeSwitch
  <2> HIDE DEF r
  <2> QED
    BY <2>1
<1>2. /\ q = [f \in CfmmFields |-> q[f]]
      /\ q.ver = u.ver /\ q.native = native /\ q.base = base /\ q.res = Reserves(u, native)
      /\ q.lq = MaxLqCap - u.value.lq /\ q.stake = u.stake
      /\ q.treasury = Zero /\ q.first = Zero /\ q.second = Zero /\ q.fee = Zero
      /\ q.tfee = 0 /\ q.fee1 = 0 /\ q.fee2 = 0 /\ q.nonce = 0 /\ q.bound = 0
      /\ q.admin = NoKey /\ q.treasuryAddress = NoKey /\ q.key1 = NoKey /\ q.key2 = NoKey
  BY ParsedFields
<1>3. conf.fee \in [Side -> Nat] /\ conf.tfee \in Nat /\ conf.treasury \in [Side -> Nat]
  <2>1. CASE u.ver = "FeeSwitchBiDir"
    <3>1. 4 .. 8 \subseteq NumbersOf(u.ver)
      BY <2>1 DEF NumbersOf, ClassicVer, BalanceVer
    <3>2. d[4] \in Nat /\ d[5] \in Nat /\ d[6] \in Nat /\ d[7] \in Nat /\ d[8] \in Nat
      BY <3>1, OutputFacts
    <3>3. PairNat(d[4], d[5]) /\ PairNat(d[7], d[8])
      BY <3>2, PairFacts
    <3> QED
      BY <2>1, <3>2, <3>3 DEF BiDirConfig, PairNat
  <2>2. CASE u.ver # "FeeSwitchBiDir"
    <3>1. 4 .. 7 \subseteq NumbersOf(u.ver)
      BY <2>2 DEF NumbersOf, ClassicVer, BalanceVer, FeeSwitchVer
    <3>2. d[4] \in Nat /\ d[5] \in Nat /\ d[6] \in Nat /\ d[7] \in Nat
      BY <3>1, OutputFacts
    <3>3. PairNat(d[4], d[4]) /\ PairNat(d[6], d[7])
      BY <3>2, PairFacts
    <3> QED
      BY <2>2, <3>2, <3>3 DEF FeeSwitchConfig, PairNat
  <2> QED
    BY <2>1, <2>2
<1>4. u.ver # "FeeSwitchBiDir" =>
        /\ conf.fee = Pair(d[4], d[4]) /\ conf.tfee = d[5]
        /\ conf.treasury = Pair(d[6], d[7]) /\ conf.bound = Optional(d, 9)
  BY DEF FeeSwitchConfig
<1> HIDE DEF q, conf
<1>5. /\ p = [f \in CfmmFields |-> p[f]] /\ p.bound = conf.bound /\ p.fee = conf.fee
      /\ p.tfee = conf.tfee /\ p.treasury = conf.treasury
      /\ \A f \in CfmmFields \ {"bound", "fee", "tfee", "treasury"} : p[f] = q[f]
  BY <1>1, <1>2 DEF CfmmFields
<1>6. /\ p.ver = u.ver /\ p.native = native /\ p.base = base /\ p.res = Reserves(u, native)
      /\ p.lq = MaxLqCap - u.value.lq /\ p.stake = u.stake
      /\ p.first = Zero /\ p.second = Zero
      /\ p.fee1 = 0 /\ p.fee2 = 0 /\ p.nonce = 0
      /\ p.admin = NoKey /\ p.treasuryAddress = NoKey /\ p.key1 = NoKey /\ p.key2 = NoKey
  BY <1>2, <1>5 DEF CfmmFields
<1>7. u.ver \in CfmmVer /\ u.ver \notin RoyaltyVer /\ u.ver \notin ClassicVer /\ u.ver # "RoyaltyV2"
  BY DEF CfmmVer, ClassicVer, RoyaltyVer, FeeSwitchVer
<1> HIDE DEF r
<1>8. CfmmTyped(p)
  BY <1>3, <1>5, <1>6, <1>7, OutputFacts, ZeroFacts DEF CfmmTyped
<1>9. Covered(p)
  BY <1>1, <1>8, AcceptedCovered
<1>10. u.ver # "FeeSwitchBiDir" => CfmmHolds(p, u)
  BY <1>4, <1>5, <1>6, <1>7 DEF CfmmHolds, FeeSwitchHolds, Blank
<1> QED
  BY <1>6, <1>8, <1>9, <1>10 DEF CfmmPool

(* a royalty pool,                                                         *)
LEMMA RoyaltyRead ==
    ASSUME NEW u, NEW native, NEW base, IsPoolOutput(u, native, base), u.ver \in RoyaltyVer,
           NEW p, p = ParseRoyalty(u, native, base), p # Refused
    PROVE  CfmmPool(p) /\ p.ver = u.ver /\ p.native = native /\ p.res = Reserves(u, native)
           /\ p.lq = MaxLqCap - u.value.lq /\ CfmmHolds(p, u)
<1> DEFINE d == u.datum
           q == Parsed(u, native, base)
           conf == IF u.ver = "RoyaltyV2" THEN RoyaltyV2Config(d) ELSE RoyaltyConfig(d)
           fee == Pair(conf.fee, conf.fee)
           q1 == [q EXCEPT !.fee = fee, !.tfee = conf.tfee, !.fee1 = conf.fee1, !.fee2 = conf.fee2]
           q2 == [q1 EXCEPT !.treasury = conf.treasury, !.first = conf.first,
                            !.second = conf.second, !.admin = conf.admin]
           r == [q2 EXCEPT !.treasuryAddress = conf.treasuryAddress,
                           !.key1 = conf.key1, !.key2 = conf.key2, !.nonce = conf.nonce]
<1>0. /\ q = [f \in CfmmFields |-> q[f]]
      /\ q.ver = u.ver /\ q.native = native /\ q.base = base /\ q.res = Reserves(u, native)
      /\ q.lq = MaxLqCap - u.value.lq /\ q.stake = u.stake /\ q.bound = 0
  BY ParsedFields
<1>1. p = r /\ Accepted(p, u)
  <2> DEFINE whole == [q EXCEPT !.fee = fee, !.tfee = conf.tfee,
                 !.fee1 = conf.fee1, !.fee2 = conf.fee2, !.treasury = conf.treasury,
                 !.first = conf.first, !.second = conf.second, !.admin = conf.admin,
                 !.treasuryAddress = conf.treasuryAddress,
                 !.key1 = conf.key1, !.key2 = conf.key2, !.nonce = conf.nonce]
  <2>1. p = IF Accepted(whole, u) THEN whole ELSE Refused
    BY DEF ParseRoyalty
  <2>2. p = whole /\ Accepted(p, u)
    <3> HIDE DEF whole
    <3> QED
      BY <2>1
  <2>3. whole = r
    <3> HIDE DEF conf, fee, q
    <3> QED
      OBVIOUS
  <2> QED
    BY <2>2, <2>3
<1>2. /\ conf.fee \in Nat /\ conf.tfee \in Nat /\ conf.fee1 \in Nat /\ conf.fee2 \in Nat
      /\ conf.treasury \in [Side -> Nat] /\ conf.first \in [Side -> Nat]
      /\ conf.second \in [Side -> Nat] /\ conf.nonce \in Nat
      /\ u.ver # "RoyaltyV2" => conf.second = Zero /\ conf.fee2 = 0 /\ conf.key2 = NoKey
  <2>1. CASE u.ver = "RoyaltyV2"
    <3>1. (4 .. 13) \cup {18} \subseteq NumbersOf(u.ver)
      BY <2>1 DEF NumbersOf, ClassicVer, BalanceVer
    <3>2. /\ d[4] \in Nat /\ d[5] \in Nat /\ d[6] \in Nat /\ d[7] \in Nat /\ d[8] \in Nat
          /\ d[9] \in Nat /\ d[10] \in Nat /\ d[11] \in Nat /\ d[12] \in Nat /\ d[13] \in Nat
          /\ d[18] \in Nat
      BY <3>1, OutputFacts
    <3>3. PairNat(d[8], d[9]) /\ PairNat(d[10], d[11]) /\ PairNat(d[12], d[13])
      BY <3>2, PairFacts
    <3> QED
      BY <2>1, <3>2, <3>3 DEF RoyaltyV2Config, PairNat
  <2>2. CASE u.ver # "RoyaltyV2"
    <3>1. (4 .. 10) \cup {14} \subseteq NumbersOf(u.ver)
      BY <2>2 DEF NumbersOf, ClassicVer, BalanceVer, RoyaltyVer
    <3>2. /\ d[4] \in Nat /\ d[5] \in Nat /\ d[6] \in Nat /\ d[7] \in Nat /\ d[8] \in Nat
          /\ d[9] \in Nat /\ d[10] \in Nat /\ d[14] \in Nat
      BY <3>1, OutputFacts
    <3>3. PairNat(d[7], d[8]) /\ PairNat(d[9], d[10])
      BY <3>2, PairFacts
    <3> QED
      BY <2>2, <3>2, <3>3, ZeroFacts DEF RoyaltyConfig, PairNat
  <2> QED
    BY <2>1, <2>2
<1>3. PairNat(conf.fee, conf.fee)
  BY <1>2, PairFacts
<1>4. /\ u.ver = "RoyaltyV2" =>
           /\ conf.fee = d[4] /\ conf.tfee = d[5] /\ conf.fee1 = d[6] /\ conf.fee2 = d[7]
           /\ conf.treasury = Pair(d[8], d[9]) /\ conf.first = Pair(d[10], d[11])
           /\ conf.second = Pair(d[12], d[13])
           /\ conf.admin = Head(d[14]) /\ conf.treasuryAddress = d[15]
           /\ conf.key1 = d[16] /\ conf.key2 = d[17] /\ conf.nonce = d[18]
      /\ u.ver # "RoyaltyV2" =>
           /\ conf.fee = d[4] /\ conf.tfee = d[5] /\ conf.fee1 = d[6]
           /\ conf.treasury = Pair(d[7], d[8]) /\ conf.first = Pair(d[9], d[10])
           /\ conf.admin = Head(d[11]) /\ conf.treasuryAddress = d[12]
           /\ conf.key1 = d[13] /\ conf.nonce = d[14]
  BY DEF RoyaltyV2Config, RoyaltyConfig
<1> HIDE DEF q, conf
<1>5. /\ q1 = [f \in CfmmFields |-> q1[f]] /\ q1.fee = fee /\ q1.tfee = conf.tfee
      /\ q1.fee1 = conf.fee1 /\ q1.fee2 = conf.fee2
      /\ \A f \in CfmmFields \ {"fee", "tfee", "fee1", "fee2"} : q1[f] = q[f]
  BY <1>0 DEF CfmmFields
<1> HIDE DEF q1
<1>6. /\ q2 = [f \in CfmmFields |-> q2[f]] /\ q2.treasury = conf.treasury /\ q2.first = conf.first
      /\ q2.second = conf.second /\ q2.admin = conf.admin
      /\ \A f \in CfmmFields \ {"treasury", "first", "second", "admin"} : q2[f] = q1[f]
  BY <1>5 DEF CfmmFields
<1> HIDE DEF q2
<1>7. /\ p = [f \in CfmmFields |-> p[f]] /\ p.treasuryAddress = conf.treasuryAddress
      /\ p.key1 = conf.key1 /\ p.key2 = conf.key2 /\ p.nonce = conf.nonce
      /\ \A f \in CfmmFields \ {"treasuryAddress", "key1", "key2", "nonce"} : p[f] = q2[f]
  BY <1>1, <1>6 DEF CfmmFields
<1> HIDE DEF r
<1>8. /\ p.ver = u.ver /\ p.native = native /\ p.base = base /\ p.res = Reserves(u, native)
      /\ p.lq = MaxLqCap - u.value.lq /\ p.stake = u.stake /\ p.bound = 0
  BY <1>0, <1>5, <1>6, <1>7 DEF CfmmFields
<1>9. /\ p.fee = fee /\ p.tfee = conf.tfee /\ p.fee1 = conf.fee1 /\ p.fee2 = conf.fee2
      /\ p.treasury = conf.treasury /\ p.first = conf.first
      /\ p.second = conf.second /\ p.admin = conf.admin
  BY <1>5, <1>6, <1>7 DEF CfmmFields
<1>10. u.ver \in CfmmVer /\ u.ver \notin FeeSwitchVer /\ u.ver \notin ClassicVer
  BY RoyaltyKinds
<1>11. CfmmTyped(p)
  BY <1>2, <1>3, <1>7, <1>8, <1>9, <1>10, OutputFacts DEF CfmmTyped, PairNat
<1>12. Covered(p)
  BY <1>1, <1>11, AcceptedCovered
<1>13. CfmmHolds(p, u)
  BY <1>2, <1>4, <1>7, <1>8, <1>9, <1>10 DEF CfmmHolds, RoyaltyHolds, RoyaltyV2Holds, Blank
<1> QED
  BY <1>8, <1>11, <1>12, <1>13 DEF CfmmPool

(* a weighted pool whose treasury is covered,                              *)
LEMMA BalanceRead ==
    ASSUME NEW u, NEW native, NEW base, IsPoolOutput(u, native, base), u.ver \in BalanceVer,
           NEW p, p = ParseBalance(u, native, base), p # Refused,
           \A s \in Side : BalancePure(p)[s] >= 0
    PROVE  BalancePool(p) /\ p.ver = u.ver /\ p.native = native /\ p.res = Reserves(u, native)
           /\ p.lq = MaxLqCap - u.value.lq /\ BalanceHolds(p, u.datum)
<1> DEFINE d == u.datum
<1>1. p = [ver |-> u.ver, native |-> native, base |-> base,
              res |-> Reserves(u, native), lq |-> MaxLqCap - u.value.lq,
              weight |-> Pair(AdaWeight, TokenWeight),
              fee |-> Pair(d[4], d[4]), tfee |-> d[5], treasury |-> Pair(d[6], d[7])]
  BY DEF ParseBalance, BalanceConfig
<1>2. PairNat(d[4], d[4]) /\ PairNat(d[6], d[7]) /\ d[5] \in Nat
  <2>1. 4 .. 7 \subseteq NumbersOf(u.ver)
    BY DEF NumbersOf, ClassicVer, BalanceVer
  <2>2. d[4] \in Nat /\ d[5] \in Nat /\ d[6] \in Nat /\ d[7] \in Nat
    BY <2>1, OutputFacts
  <2> QED
    BY <2>2, PairFacts
<1>3. p = [f \in BalanceFields |-> p[f]]
  BY <1>1 DEF BalanceFields
<1>4. /\ p.ver = u.ver /\ p.native = native /\ p.base = base /\ p.res = Reserves(u, native)
      /\ p.lq = MaxLqCap - u.value.lq /\ p.weight = Pair(AdaWeight, TokenWeight)
      /\ p.fee = Pair(d[4], d[4]) /\ p.tfee = d[5] /\ p.treasury = Pair(d[6], d[7])
  BY <1>1
<1>5. p.res \in [Side -> Nat] /\ p.treasury \in [Side -> Nat] /\ p.fee \in [Side -> Nat]
  BY <1>2, <1>4, OutputFacts DEF PairNat
<1>6. \A s \in Side : p.treasury[s] <= p.res[s]
  <2> TAKE s \in Side
  <2>1. p.res[s] - p.treasury[s] >= 0
    BY DEF BalancePure, Minus
  <2> QED
    BY <1>5, <2>1
<1>7. BalancePool(p)
  BY <1>2, <1>3, <1>4, <1>5, <1>6, OutputFacts DEF BalancePool
<1> QED
  BY <1>4, <1>7 DEF BalanceHolds

(* and a bonding curve whose tokens are.                                   *)
LEMMA QuadraticRead ==
    ASSUME NEW u, NEW native, NEW base, IsPoolOutput(u, native, base), u.ver \in QuadraticVer,
           NEW p, p = ParseQuadratic(u, native, base), p # Refused, Backed(p)
    PROVE  QuadraticPool(p) /\ p.ver = u.ver /\ p.native = native /\ p.res = Reserves(u, native)
           /\ QuadraticHolds(p, u.datum)
<1> DEFINE d == u.datum
           conf == IF u.ver = "QuadraticV1" THEN QuadraticConfig(d) ELSE QuadraticT2TConfig(d)
<1>1. p = [ver |-> u.ver, native |-> native, base |-> base, res |-> Reserves(u, native),
           lq |-> MaxLqCap, aNum |-> conf.aNum, bNum |-> conf.bNum, cap |-> conf.cap,
           kept |-> conf.kept, parts |-> IF u.ver = "QuadraticV1" THEN 0 ELSE 1]
  <2> HIDE DEF conf
  <2> QED
    BY DEF ParseQuadratic, conf
<1>2. /\ conf.aNum = d[3] /\ conf.bNum = d[4] /\ conf.cap = d[6]
      /\ conf.kept = IF u.ver = "QuadraticV1" THEN 0 ELSE d[7]
  BY DEF QuadraticConfig, QuadraticT2TConfig
<1>3. d[3] \in Nat /\ d[4] \in Nat /\ d[6] \in Nat /\ (u.ver # "QuadraticV1" => d[7] \in Nat)
  <2>1. {3, 4, 6} \subseteq NumbersOf(u.ver) /\ (u.ver # "QuadraticV1" => 7 \in NumbersOf(u.ver))
    BY DEF NumbersOf, ClassicVer, BalanceVer, QuadraticVer, RoyaltyVer
  <2> QED
    BY <2>1, OutputFacts
<1> HIDE DEF conf
<1>4. p = [f \in QuadraticFields |-> p[f]]
  BY <1>1 DEF QuadraticFields
<1>5. /\ p.ver = u.ver /\ p.native = native /\ p.base = base /\ p.res = Reserves(u, native)
      /\ p.lq = MaxLqCap /\ p.aNum = d[3] /\ p.bNum = d[4] /\ p.cap = d[6]
      /\ p.kept = IF u.ver = "QuadraticV1" THEN 0 ELSE d[7]
      /\ p.parts = IF u.ver = "QuadraticV1" THEN 0 ELSE 1
  BY <1>1, <1>2
<1>6. /\ native = (IF u.ver = "QuadraticV1" THEN "x" ELSE "none") /\ u.value.y <= Emission
      /\ native \in Side => base = native
  BY DEF IsPoolOutput
<1>7. p.res["y"] = u.value.y
  BY <1>5, <1>6 DEF Reserves, AmountOf, Side
<1>8. QuadraticTyped(p)
  BY <1>3, <1>4, <1>5, <1>6, <1>7, OutputFacts DEF QuadraticTyped, Side
<1> QED
  BY <1>5, <1>8 DEF QuadraticPool, QuadraticHolds, QuadraticVer

(* A pool read off the ledger, if what is owed of it is there.             *)
LEMMA ReadSound ==
    ASSUME NEW u, NEW native, NEW base, IsPoolOutput(u, native, base), u.ver # "Stable",
           NEW p, p = AnyParse(u, native, base),
           u.ver \in BalanceVer => \A s \in Side : BalancePure(p)[s] >= 0,
           u.ver \in QuadraticVer => Backed(p)
    PROVE  PoolOk(p) /\ ValueHolds(p, u.value) /\ OutputOk(u, p) /\ Mirrored(p, u)
<1>1. p # Refused /\ u.ver \in CfmmVer \cup BalanceVer \cup QuadraticVer
  BY DEF IsPoolOutput
<1>2. ASSUME p.ver = u.ver, p.native = native, p.res = Reserves(u, native),
             u.ver \notin QuadraticVer => p.lq = MaxLqCap - u.value.lq
      PROVE  ValueHolds(p, u.value) /\ OutputOk(u, p) /\ Written(p.ver) \subseteq DOMAIN u.datum
  BY <1>2, OutputFacts DEF ValueHolds, OutputOk
<1>3. CASE u.ver \in CfmmVer
  <2>1. p = ParseCfmm(u, native, base) /\ u.ver \notin BalanceVer /\ u.ver \notin QuadraticVer
    BY <1>3, PoolKinds DEF AnyParse
  <2>2. /\ CfmmPool(p) /\ p.ver = u.ver /\ p.native = native /\ p.res = Reserves(u, native)
        /\ p.lq = MaxLqCap - u.value.lq
        /\ u.ver # "FeeSwitchBiDir" => CfmmHolds(p, u)
    <3>1. CASE u.ver \in ClassicVer
      BY <2>1, <3>1, ClassicRead DEF ParseCfmm
    <3>2. CASE u.ver \in FeeSwitchVer
      <4>1. p = ParseFeeSwitch(u, native, base)
        BY <2>1, <3>2 DEF ParseCfmm, ClassicVer, FeeSwitchVer
      <4>2. IsPoolOutput(u, native, base) /\ u.ver \in FeeSwitchVer /\ p # Refused
        BY <1>1, <3>2
      <4> QED
        BY <4>1, <4>2, FeeSwitchRead
    <3>3. CASE u.ver \in RoyaltyVer
      <4>1. p = ParseRoyalty(u, native, base)
        BY <2>1, <3>3, RoyaltyKinds DEF ParseCfmm
      <4>2. /\ CfmmPool(p) /\ p.ver = u.ver /\ p.native = native /\ p.res = Reserves(u, native)
            /\ p.lq = MaxLqCap - u.value.lq /\ CfmmHolds(p, u)
        <5>1. IsPoolOutput(u, native, base) /\ u.ver \in RoyaltyVer /\ p # Refused
          BY <1>1, <3>3
        <5> QED
          BY <4>1, <5>1, RoyaltyRead
      <4> QED
        BY <4>2
    <3> QED
      BY <1>3, <3>1, <3>2, <3>3 DEF CfmmVer
  <2>3. PoolOk(p)
    BY <1>3, <2>2 DEF PoolOk
  <2>4. Mirrored(p, u)
    BY <1>2, <2>1, <2>2 DEF Mirrored, DatumHolds, RoundTrip, QuadraticVer, BalanceVer
  <2> QED
    BY <1>2, <2>2, <2>3, <2>4
<1>4. CASE u.ver \in BalanceVer
  <2>1. p = ParseBalance(u, native, base) /\ u.ver \notin CfmmVer /\ u.ver \notin QuadraticVer
    BY <1>4, PoolKinds DEF AnyParse
  <2>2. BalancePool(p) /\ p.ver = u.ver /\ p.native = native /\ p.res = Reserves(u, native)
        /\ p.lq = MaxLqCap - u.value.lq /\ BalanceHolds(p, u.datum)
    BY <1>1, <1>4, <2>1, BalanceRead
  <2>3. PoolOk(p)
    BY <1>4, <2>2 DEF PoolOk
  <2>4. Mirrored(p, u)
    BY <1>2, <2>1, <2>2 DEF Mirrored, DatumHolds
  <2> QED
    BY <1>2, <2>2, <2>3, <2>4
<1>5. CASE u.ver \in QuadraticVer
  <2>1. p = ParseQuadratic(u, native, base) /\ u.ver \notin CfmmVer /\ u.ver \notin BalanceVer
    BY <1>5, PoolKinds DEF AnyParse
  <2>2. QuadraticPool(p) /\ p.ver = u.ver /\ p.native = native /\ p.res = Reserves(u, native)
        /\ QuadraticHolds(p, u.datum)
    BY <1>1, <1>5, <2>1, QuadraticRead
  <2>3. PoolOk(p)
    BY <1>5, <2>2 DEF PoolOk
  <2>4. Mirrored(p, u)
    BY <1>2, <1>5, <2>1, <2>2 DEF Mirrored, DatumHolds
  <2> QED
    BY <1>2, <1>5, <2>2, <2>3, <2>4
<1> QED
  BY <1>1, <1>3, <1>4, <1>5

-----------------------------------------------------------------------------
(* The invariant of the trading.                                           *)

(* A pool read off the ledger starts sound, if all claims on it can be     *)
(* paid.                                                                   *)
LEMMA InitKeepsInv == TradingInit /\ pool.ver # "Stable" /\ Solvent => TradingInv
<1> SUFFICES ASSUME TradingInit, pool.ver # "Stable", Solvent PROVE TradingInv
  OBVIOUS
<1>1. PICK c \in Pools : utxo = c[1] /\ pool = AnyParse(c[1], c[2], c[3])
  BY DEF TradingInit
<1> DEFINE u == c[1]
           p == AnyParse(u, c[2], c[3])
<1>2. IsPoolOutput(u, c[2], c[3]) /\ p # Refused
  BY PoolTradingAssumption DEF IsPoolOutput
<1>3. u.ver # "Stable"
  <2> SUFFICES ASSUME u.ver = "Stable" PROVE FALSE
    OBVIOUS
  <2>1. p = ParseStable(u, c[2], c[3])
    BY DEF AnyParse, CfmmVer, BalanceVer, ClassicVer, FeeSwitchVer, RoyaltyVer, QuadraticVer
  <2>2. pool.ver = "Stable"
    BY <1>1, <1>2, <2>1 DEF ParseStable
  <2> QED
    BY <2>2
<1>4. u.ver \in BalanceVer => \A s \in Side : BalancePure(p)[s] >= 0
  <2> SUFFICES ASSUME u.ver \in BalanceVer PROVE \A s \in Side : BalancePure(p)[s] >= 0
    OBVIOUS
  <2>1. p = ParseBalance(u, c[2], c[3])
    BY DEF AnyParse, CfmmVer, BalanceVer, ClassicVer, FeeSwitchVer, RoyaltyVer
  <2>2. p.ver \in BalanceVer
    BY <1>2, <2>1 DEF ParseBalance
  <2>3. PureOf(p) = BalancePure(p)
    BY <2>2, PoolKinds DEF PureOf, BalancePure
  <2> QED
    BY <1>1, <2>3 DEF Solvent, OwedIsCovered
<1>5. u.ver \in QuadraticVer => Backed(p)
  <2> SUFFICES ASSUME u.ver \in QuadraticVer PROVE Backed(p)
    OBVIOUS
  <2>1. p = ParseQuadratic(u, c[2], c[3])
    BY PoolKinds DEF AnyParse
  <2>2. p.ver \in QuadraticVer
    BY <1>2, <2>1 DEF ParseQuadratic
  <2> HIDE DEF p, u
  <2> QED
    BY <1>1, <2>2 DEF Solvent, SupplyIsBacked, Backed, LockedOf, p, u
<1>6. PoolOk(p) /\ ValueHolds(p, u.value) /\ OutputOk(u, p) /\ Mirrored(p, u)
  <2> HIDE DEF u
  <2>1. p = AnyParse(u, c[2], c[3])
    OBVIOUS
  <2> HIDE DEF p
  <2> QED
    BY <1>2, <1>3, <1>4, <1>5, <2>1, ReadSound
<1>7. PoolInv
  BY <1>1, <1>6 DEF PoolInv
<1>8. requests = {} /\ signed = {} /\ tx = NoTx
  BY DEF TradingInit
<1> QED
  BY <1>7, <1>8 DEF TradingInv, OrdersInv, OperatorTakesOnlyFee

(* What wallets and key holders put on the ledger.                         *)
LEMMA PlacedOk ==
    ASSUME NEW r \in OrderTerms, NEW native,
           IF native # "none" THEN r.value[native] = 0
           ELSE r.kind = "deposit" => r.value.ada = r.datum.fee + r.datum.collateral
    PROVE  OrderOk(r, native)
<1>1. IsOrderTerms(r)
  BY PoolTradingAssumption
<1>2. native \in Side => native # "none"
  BY DEF Side
<1> QED
  BY <1>1, <1>2 DEF IsOrderTerms, OrderOk, Values

(* What key holders sign,                                                  *)
LEMMA SignedFacts ==
    ASSUME NEW t \in Signatories
    PROVE  SignedOk(Signed(t)) /\ (("out" \in DOMAIN Signed(t)) = (t.kind = "royalty"))
<1>1. IsRequest(t) /\ (StakeNamed /\ t.kind = "dao" => t.datum.terms.stake # NoStake)
  BY PoolTradingAssumption DEF StakeNamed
<1>2. CASE t.kind = "royalty"
  <2>1. "out" \in DOMAIN Signed(t) /\ Signed(t).fee = t.datum.fee /\ Signed(t).out = t.datum.out
    BY <1>2 DEF Signed
  <2> QED
    BY <1>1, <1>2, <2>1 DEF IsRequest, SignedOk
<1>3. CASE t.kind # "royalty"
  <2>1. /\ "out" \notin DOMAIN Signed(t)
        /\ Signed(t).fee = t.datum.fee /\ Signed(t).terms = t.datum.terms
    BY <1>3 DEF Signed
  <2> QED
    BY <1>1, <1>3, <2>1 DEF IsRequest, SignedOk
<1> QED
  BY <1>2, <1>3

(* and put on the ledger, at first or again.                               *)
LEMMA RequestOk ==
    ASSUME NEW t \in Signatories, NEW d, SignedOk(d), ("out" \in DOMAIN d) = (t.kind = "royalty"),
           NEW native
    PROVE  OrderOk([kind |-> t.kind, value |-> t.value, datum |-> d], native)
<1>1. IsRequest(t)
  BY PoolTradingAssumption
<1>2. t.kind \in {"royalty", "dao"} /\ t.value \in Values /\ t.value.ada < Word
      /\ \A a \in Assets \ {"ada"} : t.value[a] = 0
  BY <1>1 DEF IsRequest
<1>3. t.value.x = 0 /\ t.value.y = 0 /\ t.value.lq = 0
      /\ (native \in Side => t.value[native] = 0)
  BY <1>2 DEF Assets, Side
<1> QED
  BY <1>2, <1>3 DEF SignedOk, OrderOk

(* Every step keeps the invariant, while the fees make sense.              *)
LEMMA StepKeepsInv ==
    TradingInv /\ FeesFit /\ pool.ver # "Stable" /\ [TradingNext]_tradingVars
        => TradingInv' /\ pool'.ver = pool.ver
<1> SUFFICES ASSUME TradingInv, FeesFit, pool.ver # "Stable", [TradingNext]_tradingVars
             PROVE  TradingInv' /\ pool'.ver = pool.ver
  OBVIOUS
<1>1. PoolInv /\ OrdersInv /\ OperatorTakesOnlyFee
  BY DEF TradingInv
<1>2. ASSUME NEW side \in {"bid", "ask"}, NEW amount \in Amounts, Swap(side, amount)
      PROVE  TradingInv' /\ pool'.ver = pool.ver
  <2>1. PoolInv' /\ pool'.native = pool.native /\ pool'.ver = pool.ver
    BY <1>1, <1>2, SwapKeepsInv
  <2>2. requests' = requests /\ signed' = signed /\ tx' = tx
    BY <1>2 DEF Swap
  <2>3. OrdersInv' /\ OperatorTakesOnlyFee'
    BY <1>1, <2>1, <2>2 DEF OrdersInv, OperatorTakesOnlyFee
  <2> QED
    BY <2>1, <2>3 DEF TradingInv
<1>3. ASSUME NEW r \in requests, Run(r)
      PROVE  TradingInv' /\ pool'.ver = pool.ver
  <2>1. OrderOk(r, pool.native)
    BY <1>1 DEF OrdersInv
  <2>2. /\ PoolInv' /\ OperatorTakesOnlyFee'
        /\ pool'.native = pool.native /\ pool'.ver = pool.ver
    BY <1>1, <1>3, <2>1, RunKeepsInv
  <2>3. requests' = requests \ {r} /\ signed' = signed
    BY <1>3 DEF Run
  <2>4. OrdersInv'
    BY <1>1, <2>2, <2>3 DEF OrdersInv
  <2> QED
    BY <2>2, <2>4 DEF TradingInv
<1>4. ASSUME UNCHANGED <<pool, utxo, tx>>, OrdersInv'
      PROVE  TradingInv' /\ pool'.ver = pool.ver
  BY <1>1, <1>4 DEF TradingInv, PoolInv, OperatorTakesOnlyFee
<1>5. ASSUME NEW r \in OrderTerms, Place(r)
      PROVE  TradingInv' /\ pool'.ver = pool.ver
  <2>1. /\ UNCHANGED <<pool, utxo, signed, tx>> /\ requests' = {r}
        /\ OrderOk(r, pool.native)
    BY <1>5, PlacedOk DEF Place
  <2> QED
    BY <1>1, <1>4, <2>1 DEF OrdersInv
<1>6. ASSUME NEW t \in Signatories, Sign(t)
      PROVE  TradingInv' /\ pool'.ver = pool.ver
  <2> DEFINE d == Signed(t)
  <2>1. /\ UNCHANGED <<pool, utxo, tx>> /\ signed' = signed \cup {d}
        /\ requests' = {[kind |-> t.kind, value |-> t.value, datum |-> d]}
    BY <1>6 DEF Sign
  <2>2. SignedOk(d) /\ (("out" \in DOMAIN d) = (t.kind = "royalty"))
    BY SignedFacts
  <2> HIDE DEF d
  <2>3. OrderOk([kind |-> t.kind, value |-> t.value, datum |-> d], pool.native)
    BY <2>2, RequestOk
  <2> QED
    BY <1>1, <1>4, <2>1, <2>2, <2>3 DEF OrdersInv
<1>7. ASSUME NEW d \in signed, NEW t \in Signatories, PlaceAgain(d, t)
      PROVE  TradingInv' /\ pool'.ver = pool.ver
  <2>1. /\ UNCHANGED <<pool, utxo, signed, tx>>
        /\ requests' = {[kind |-> t.kind, value |-> t.value, datum |-> d]}
        /\ ("out" \in DOMAIN d) = (t.kind = "royalty")
    BY <1>7 DEF PlaceAgain
  <2>2. SignedOk(d)
    BY <1>1 DEF OrdersInv
  <2>3. OrderOk([kind |-> t.kind, value |-> t.value, datum |-> d], pool.native)
    BY <2>1, <2>2, RequestOk
  <2> QED
    BY <1>1, <1>4, <2>1, <2>3 DEF OrdersInv
<1>8. CASE Withdraw \/ UNCHANGED tradingVars
  <2>1. UNCHANGED <<pool, utxo, signed, tx>> /\ requests' \subseteq requests
    BY <1>8 DEF Withdraw, tradingVars
  <2> QED
    BY <1>1, <1>4, <2>1 DEF OrdersInv
<1> QED
  BY <1>2, <1>3, <1>5, <1>6, <1>7, <1>8 DEF TradingNext

(* A sound pool can pay every claim.                                       *)
LEMMA PoolInvSolvent == PoolInv => Solvent
<1> SUFFICES ASSUME PoolOk(pool) PROVE Solvent
  BY DEF PoolInv
<1>1. pool.res \in [Side -> Nat]
  BY PoolOkFacts
<1>2. CASE pool.ver \in QuadraticVer
  <2>1. QuadraticPool(pool) /\ pool.ver \notin CfmmVer
    BY <1>2, PoolKinds DEF PoolOk
  <2>2. PureOf(pool) = pool.res
    BY <1>2, <2>1 DEF PureOf
  <2>3. OwedIsCovered
    BY <1>1, <2>2 DEF OwedIsCovered
  <2>4. SupplyIsBacked
    BY <1>2, <2>1 DEF SupplyIsBacked, QuadraticPool, Backed, LockedOf
  <2> QED
    BY <2>3, <2>4 DEF Solvent
<1>3. CASE pool.ver \notin QuadraticVer
  <2>1. PureOf(pool) \in [Side -> Nat] /\ \A s \in Side : PureOf(pool)[s] <= pool.res[s]
    BY <1>3, PureOfFacts
  <2> QED
    BY <1>3, <2>1 DEF Solvent, OwedIsCovered, SupplyIsBacked
<1> QED
  BY <1>2, <1>3

(* Its output reads back as the pool.                                      *)
LEMMA PoolInvMirrors == PoolInv /\ StakeNamed => PoolMirrorsLedger
<1> SUFFICES ASSUME PoolInv, StakeNamed, pool.ver \in RoundTrip
             PROVE  AnyParse(utxo, pool.native, pool.base) \in {pool, Refused}
  BY DEF PoolMirrorsLedger
<1>1. PoolOk(pool) /\ utxo.ver = pool.ver /\ ValueHolds(pool, utxo.value) /\ DatumHolds(pool, utxo)
  BY DEF PoolInv, OutputOk, Mirrored
<1> QED
  BY <1>1, ReadsBack

(* Of a constant-product pool, no step lowers what a share is worth.       *)
LEMMA StepKeepsShares ==
    TradingInv /\ FeesFit /\ pool.ver \in CfmmVer /\ [TradingNext]_tradingVars
        => [ pool.ver \notin QuadraticVer /\ ~ ChangeInWrongAsset =>
               IF pool'.lq = pool.lq THEN CurveOf(pool') >= CurveOf(pool)
               ELSE \A s \in Side :
                       (PureOf(pool')[s] + 1) * pool.lq >= PureOf(pool)[s] * pool'.lq ]_pool
<1> SUFFICES ASSUME TradingInv, FeesFit, pool.ver \in CfmmVer, [TradingNext]_tradingVars,
                    pool' # pool
             PROVE  IF pool'.lq = pool.lq THEN CurveOf(pool') >= CurveOf(pool)
                    ELSE \A s \in Side :
                            (PureOf(pool')[s] + 1) * pool.lq >= PureOf(pool)[s] * pool'.lq
  OBVIOUS
<1>1. PoolInv /\ OrdersInv /\ pool.ver # "Stable" /\ pool.ver \notin BalanceVer
      /\ pool.ver \notin QuadraticVer
  BY PoolKinds DEF TradingInv
<1>2. pool'.ver = pool.ver /\ PoolInv'
  BY <1>1, StepKeepsInv DEF TradingInv
<1>3. /\ PureOf(pool) \in [Side -> Nat] /\ PureOf(pool') \in [Side -> Nat]
      /\ CurveOf(pool) = PureOf(pool)["x"] * PureOf(pool)["y"]
      /\ CurveOf(pool') = PureOf(pool')["x"] * PureOf(pool')["y"]
  <2>1. PoolOk(pool) /\ PoolOk(pool')
    BY <1>1, <1>2 DEF PoolInv
  <2>2. PureOf(pool) \in [Side -> Nat] /\ PureOf(pool') \in [Side -> Nat]
    BY <1>1, <1>2, <2>1, PureOfFacts
  <2>3. /\ CurveOf(pool) = PureOf(pool)["x"] * PureOf(pool)["y"]
        /\ CurveOf(pool') = PureOf(pool')["x"] * PureOf(pool')["y"]
    BY <1>1, <1>2, Zenon DEF CurveOf
  <2> QED
    BY <2>2, <2>3
<1>4. ASSUME NEW side \in {"bid", "ask"}, NEW amount \in Amounts, Swap(side, amount)
      PROVE  pool'.lq = pool.lq /\ CurveOf(pool') >= CurveOf(pool)
  <2>1. pool'.lq = pool.lq /\ CurveOf(pool) <= CurveOf(pool')
    BY <1>1, <1>4, SwapKeepsInv
  <2>2. CurveOf(pool) \in Nat /\ CurveOf(pool') \in Nat
    <3>1. /\ PureOf(pool)["x"] \in Nat /\ PureOf(pool)["y"] \in Nat
          /\ PureOf(pool')["x"] \in Nat /\ PureOf(pool')["y"] \in Nat
      BY <1>3 DEF Side
    <3> QED
      BY <1>3, <3>1
  <2> HIDE DEF CurveOf
  <2> QED
    BY <2>1, <2>2
<1>5. ASSUME NEW r \in requests, Run(r)
      PROVE  SharesKept(pool, pool')
  <2>1. OrderOk(r, pool.native)
    BY <1>1 DEF OrdersInv
  <2> QED
    BY <1>1, <1>5, <2>1, RunKeepsInv
<1>6. ASSUME SharesKept(pool, pool')
      PROVE  IF pool'.lq = pool.lq THEN CurveOf(pool') >= CurveOf(pool)
             ELSE \A s \in Side :
                     (PureOf(pool')[s] + 1) * pool.lq >= PureOf(pool)[s] * pool'.lq
  <2>1. CASE pool'.lq = pool.lq
    <3>1. /\ PureOf(pool')["x"] >= PureOf(pool)["x"] /\ PureOf(pool')["y"] >= PureOf(pool)["y"]
          /\ PureOf(pool)["x"] \in Nat /\ PureOf(pool)["y"] \in Nat
          /\ PureOf(pool')["x"] \in Nat /\ PureOf(pool')["y"] \in Nat
      BY <1>3, <1>6, <2>1 DEF SharesKept, Side
    <3>2. ASSUME NEW a \in Nat, NEW b \in Nat, NEW c \in Nat, NEW d \in Nat, c >= a, d >= b
          PROVE  c * d >= a * b
      <4>1. c * d >= a * d /\ a * d >= a * b
        BY <3>2, MulLe
      <4> QED
        BY <3>2, <4>1
    <3>3. PureOf(pool')["x"] * PureOf(pool')["y"] >= PureOf(pool)["x"] * PureOf(pool)["y"]
      BY <3>1, <3>2
    <3> QED
      BY <1>3, <2>1, <3>3
  <2>2. CASE pool'.lq # pool.lq
    BY <1>6, <2>2 DEF SharesKept
  <2> QED
    BY <2>1, <2>2
<1>7. ASSUME UNCHANGED pool PROVE FALSE
  BY <1>7
<1> QED
  BY <1>4, <1>5, <1>6, <1>7 DEF TradingNext, Place, Sign, PlaceAgain, Withdraw, tradingVars

(* The owner of an order gets all of it but the fee it names, whatever     *)
(* orders are run and whatever is traded in between: not an asset of the   *)
(* pool is left to the operator. Of a pool of any kind but the stable one, *)
(* read off the ledger with its claims covered, and fees that leave        *)
(* something to trade.                                                     *)
THEOREM OperatorTakesOnlyFeeHolds ==
    TradingSpec /\ pool.ver # "Stable" /\ Solvent /\ []FeesFit => []OperatorTakesOnlyFee
<1> DEFINE Inv == TradingInv /\ pool.ver # "Stable"
<1>1. TradingInit /\ pool.ver # "Stable" /\ Solvent => Inv
  BY InitKeepsInv
<1>2. Inv /\ FeesFit /\ [TradingNext]_tradingVars => Inv'
  BY StepKeepsInv
<1>3. Inv => OperatorTakesOnlyFee
  BY DEF TradingInv
<1> QED
  BY <1>1, <1>2, <1>3, PTL DEF TradingSpec

(* Every claim on a pool can be paid out of its reserves, swap after swap  *)
(* and order after order: the treasury's and the royalty holders' shares,  *)
(* and of a bonding curve every token it has sold.                         *)
THEOREM SolventHolds ==
    TradingSpec /\ pool.ver # "Stable" /\ Solvent /\ []FeesFit => []Solvent
<1> DEFINE Inv == TradingInv /\ pool.ver # "Stable"
<1>1. TradingInit /\ pool.ver # "Stable" /\ Solvent => Inv
  BY InitKeepsInv
<1>2. Inv /\ FeesFit /\ [TradingNext]_tradingVars => Inv'
  BY StepKeepsInv
<1>3. Inv => Solvent
  BY PoolInvSolvent DEF TradingInv
<1> QED
  BY <1>1, <1>2, <1>3, PTL DEF TradingSpec

(* However a pool is written, by editing the output consumed or from       *)
(* memory, the output reads back as the pool the operator goes on with, if *)
(* every request of the DAO names the stake credential.                    *)
THEOREM PoolMirrorsLedgerHolds ==
    StakeNamed =>
        (TradingSpec /\ pool.ver # "Stable" /\ Solvent /\ []FeesFit => []PoolMirrorsLedger)
<1> SUFFICES ASSUME StakeNamed
             PROVE  TradingSpec /\ pool.ver # "Stable" /\ Solvent /\ []FeesFit => []PoolMirrorsLedger
  OBVIOUS
<1> DEFINE Inv == TradingInv /\ pool.ver # "Stable"
<1>1. TradingInit /\ pool.ver # "Stable" /\ Solvent => Inv
  BY InitKeepsInv
<1>2. Inv /\ FeesFit /\ [TradingNext]_tradingVars => Inv'
  BY StepKeepsInv
<1>3. Inv => PoolMirrorsLedger
  BY PoolInvMirrors DEF TradingInv
<1> QED
  BY <1>1, <1>2, <1>3, PTL DEF TradingSpec

(* Of a constant-product pool, a swap never lowers the curve and an order  *)
(* leaves as much of either asset for every share, but for one unit.       *)
THEOREM SharesKeepValueHolds ==
    TradingSpec /\ pool.ver \in CfmmVer /\ Solvent /\ []FeesFit => SharesKeepValue
<1> DEFINE Inv == TradingInv /\ pool.ver \in CfmmVer
<1>1. TradingInit /\ pool.ver \in CfmmVer /\ Solvent => Inv
  BY InitKeepsInv, PoolKinds
<1>2. Inv /\ FeesFit /\ [TradingNext]_tradingVars => Inv'
  BY StepKeepsInv, PoolKinds
<1>3. Inv /\ FeesFit /\ [TradingNext]_tradingVars
        => [ pool.ver \notin QuadraticVer /\ ~ ChangeInWrongAsset =>
               IF pool'.lq = pool.lq THEN CurveOf(pool') >= CurveOf(pool)
               ELSE \A s \in Side :
                       (PureOf(pool')[s] + 1) * pool.lq >= PureOf(pool)[s] * pool'.lq ]_pool
  BY StepKeepsShares
<1> QED
  BY <1>1, <1>2, <1>3, PTL DEF TradingSpec, SharesKeepValue

-----------------------------------------------------------------------------
(* What is available at a price.                                           *)

(* Rounding to the nearest.                                                *)
LEMMA RoundedFacts ==
    ASSUME NEW n \in Int, NEW d \in Nat \ {0}, 2 * n + d > 0
    PROVE  /\ Rounded(n, d) \in Nat
           /\ Rounded(n, d) * (2 * d) <= 2 * n + d
           /\ 2 * n + d < Rounded(n, d) * (2 * d) + 2 * d
<1> DEFINE m == 2 * n + d
           e == 2 * d
<1>1. m \in Nat /\ e \in Nat \ {0} /\ Rounded(n, d) = m \div e
  BY DEF Rounded
<1> HIDE DEF m, e
<1>2. m \div e \in Nat /\ (m \div e) * e <= m /\ m < (m \div e) * e + e
  BY <1>1, DivFacts
<1> QED
  BY <1>1, <1>2 DEF m, e

(* A sum that is cut by a rounded quotient: half a unit more is enough to  *)
(* reach it, half a unit less does not exceed it.                          *)
LEMMA NearestFacts ==
    ASSUME NEW n \in Int, NEW d \in Nat \ {0}, NEW q \in Nat,
           q * (2 * d) <= 2 * n + d, 2 * n + d < q * (2 * d) + 2 * d
    PROVE  /\ (2 * q - 1) * d <= 2 * n
           /\ 2 * n <= (2 * q + 1) * d
           /\ n < (q + 1) * d
           /\ (q - 1) * d < n
<1>1. q * d \in Int /\ q * (2 * d) = 2 * (q * d)
  OBVIOUS
<1>2. (2 * q - 1) * d = 2 * (q * d) - d /\ (2 * q + 1) * d = 2 * (q * d) + d
      /\ (q + 1) * d = q * d + d /\ (q - 1) * d = q * d - d
  OBVIOUS
<1> DEFINE e == q * d
<1> HIDE DEF e
<1>3. e \in Int /\ q * (2 * d) = 2 * e /\ (2 * q - 1) * d = 2 * e - d
      /\ (2 * q + 1) * d = 2 * e + d /\ (q + 1) * d = e + d /\ (q - 1) * d = e - d
  BY <1>1, <1>2 DEF e
<1> QED
  BY <1>3

(* Paying in more than the closed form of the curve asks for takes out no  *)
(* less than o, if o is within it. `b` stands for the input's reserves and *)
(* `af` for what is traded of the amount, both in parts of the fee.        *)
LEMMA CurveReaches ==
    ASSUME NEW out \in Nat, NEW b \in Nat, NEW af \in Nat \ {0}, NEW num \in Nat \ {0},
           NEW k \in Nat \ {0}, NEW o \in Int,
           out * k - b * num < af * num,
           o * k <= out * k - b * num
    PROVE  o * (b + af) <= out * af
<1> DEFINE d == b + af
           rest == out - o
<1>1. d \in Nat \ {0} /\ rest \in Int
  OBVIOUS
<1>2. b * num \in Nat /\ b * num <= rest * k
  <2>1. rest * k = out * k - o * k
    OBVIOUS
  <2>2. b * num \in Nat /\ out * k \in Int /\ o * k \in Int
    OBVIOUS
  <2> QED
    BY <2>1, <2>2
<1>3. out * k < d * num
  <2>1. d * num = b * num + af * num
    OBVIOUS
  <2>2. b * num \in Int /\ out * k \in Int /\ af * num \in Int
    OBVIOUS
  <2> QED
    BY <2>1, <2>2
<1>4. rest >= 0
  <2> SUFFICES ASSUME rest <= -1 PROVE FALSE
    BY <1>1
  <2>1. rest * k <= (-1) * k
    BY <1>1, MulLe
  <2>2. rest * k \in Int
    BY <1>1
  <2> QED
    BY <1>2, <2>1, <2>2
<1> HIDE DEF d, rest
<1>5. (out * k) * rest <= (d * num) * rest
  <2>1. out * k \in Int /\ d * num \in Int /\ rest \in Nat
    BY <1>1, <1>4
  <2> QED
    BY <1>3, <2>1, MulLe
<1>6. (b * num) * out <= (rest * k) * out
  <2>1. b * num \in Int /\ rest * k \in Int
    BY <1>1
  <2> QED
    BY <1>2, <2>1, MulLe
<1>7. (out * b) * num <= (rest * d) * num
  <2>1. (b * num) * out = (out * b) * num /\ (d * num) * rest = (rest * d) * num
        /\ (rest * k) * out = (out * k) * rest
    BY <1>1
  <2>2. (out * b) * num \in Int /\ (rest * d) * num \in Int /\ (out * k) * rest \in Int
    BY <1>1
  <2> QED
    BY <1>5, <1>6, <2>1, <2>2
<1>8. out * b <= rest * d
  <2>1. out * b \in Int /\ rest * d \in Int
    BY <1>1
  <2> QED
    BY <1>7, <2>1, MulCancel
<1>9. rest * d = out * b + out * af - o * (b + af)
  BY DEF rest, d
<1>10. out * b \in Int /\ out * af \in Int /\ o * (b + af) \in Int
  OBVIOUS
<1> QED
  BY <1>8, <1>9, <1>10

(* A quotient reaches what its terms reach.                                *)
LEMMA QuotientReaches ==
    ASSUME NEW a \in Nat, NEW b \in Nat \ {0}, NEW o \in Int, o * b <= a
    PROVE  o <= a \div b /\ a \div b \in Nat
<1>1. a \div b \in Nat /\ a < (a \div b) * b + b
  BY DivFacts
<1> DEFINE q == a \div b
<1> HIDE DEF q
<1>2. q \in Nat /\ a < q * b + b
  BY <1>1 DEF q
<1>3. o <= q
  <2> SUFFICES ASSUME q + 1 <= o PROVE FALSE
    BY <1>2
  <2>1. (q + 1) * b <= o * b
    BY <1>2, MulLe
  <2>2. (q + 1) * b = q * b + b /\ q * b \in Int /\ o * b \in Int
    BY <1>2
  <2> QED
    BY <1>2, <2>1, <2>2
<1> QED
  BY <1>1, <1>3 DEF q

(* What is available, by the closed form: at the price asked, unless cut   *)
(* off, and there for a swap of one unit more (available_liquidity_on_side *)
(* of the pools of constant product).                                      *)
LEMMA AvailableFacts ==
    ASSUME NEW res \in [Side -> Nat], NEW native, NEW fee \in Nat \ {0}, NEW s \in Side,
           NEW side \in {"bid", "ask"}, NEW worst \in (Nat \ {0}) \X (Nat \ {0}),
           NEW a, a = Available(res, fee, s, side, worst), a # Refused
    PROVE  /\ a.input \in Nat
           /\ ClassicOutput(res, native, fee, s, a.input + 1) + 1 >= a.output
           /\ res[Other(s)] - a.output > Untouchable
                => (2 * a.output + 1) * WorstRate(side, worst)[2]
                       >= (2 * a.input - 1) * WorstRate(side, worst)[1]
<1> DEFINE out == res[Other(s)]
           in == res[s]
           num == IF side = "bid" THEN worst[2] ELSE worst[1]
           den == IF side = "bid" THEN worst[1] ELSE worst[2]
           gain == out * fee * den - in * FeeDen * num
           input == Rounded(gain, num * fee)
           output == Rounded(gain, den * fee)
           af == (input + 1) * fee
           b == in * FeeDen
           k == den * fee
           quote == (out * (input + 1) * fee) \div (b + af)
           got == ClassicOutput(res, native, fee, s, input + 1)
<1>1. out \in Nat /\ in \in Nat /\ num \in Nat \ {0} /\ den \in Nat \ {0}
  BY DEF Side, Other
<1>2. FeeDen \in Nat \ {0} /\ Untouchable \in Nat
  BY PoolMathAssumption
<1>3. input # Refused /\ output # Refused
      /\ \/ out - output > Untouchable /\ a = [input |-> input, output |-> output]
         \/ ~ (out - output > Untouchable) /\ a = [input |-> input, output |-> out - Untouchable]
  BY Zenon DEF Available
<1>4. WorstRate(side, worst)[1] = num /\ WorstRate(side, worst)[2] = den
  BY DEF WorstRate
<1>5. got = quote \/ got = out - Untouchable
  BY DEF ClassicOutput
<1> HIDE DEF out, in, num, den
<1>6. k \in Nat \ {0} /\ num * fee \in Nat \ {0} /\ b \in Nat
  BY <1>1, <1>2
<1>7. gain = out * k - b * num /\ gain \in Int
  <2>1. out * fee * den = out * (den * fee) /\ in * FeeDen * num = b * num
    BY <1>1, <1>2
  <2>2. out * (den * fee) \in Int /\ b * num \in Int
    BY <1>1, <1>6
  <2> QED
    BY <2>1, <2>2
<1> HIDE DEF gain, k, b
<1>8. input \in Nat /\ (2 * input - 1) * (num * fee) <= 2 * gain /\ gain < (input + 1) * (num * fee)
  <2> DEFINE d == num * fee
  <2>1. d \in Nat \ {0}
    BY <1>6
  <2> HIDE DEF d
  <2>2. 2 * gain + d > 0
    BY <1>3, <1>7, <2>1 DEF Rounded, d
  <2>3. Rounded(gain, d) \in Nat /\ Rounded(gain, d) * (2 * d) <= 2 * gain + d
        /\ 2 * gain + d < Rounded(gain, d) * (2 * d) + 2 * d
    BY <1>7, <2>1, <2>2, RoundedFacts
  <2> QED
    BY <1>7, <2>1, <2>3, NearestFacts DEF d
<1>9. output \in Nat /\ 2 * gain <= (2 * output + 1) * k /\ (output - 1) * k < gain
  <2>1. 2 * gain + k > 0
    BY <1>3, <1>6, <1>7 DEF Rounded, k
  <2>2. Rounded(gain, k) \in Nat /\ Rounded(gain, k) * (2 * k) <= 2 * gain + k
        /\ 2 * gain + k < Rounded(gain, k) * (2 * k) + 2 * k
    BY <1>6, <1>7, <2>1, RoundedFacts
  <2>3. output = Rounded(gain, k)
    BY DEF k
  <2> QED
    BY <1>6, <1>7, <2>2, <2>3, NearestFacts
<1> HIDE DEF input, output
<1>10. af \in Nat \ {0} /\ gain < af * num
  <2>1. (input + 1) * (num * fee) = af * num
    BY <1>1, <1>8
  <2> QED
    BY <1>8, <2>1
<1>11. out * (input + 1) * fee = out * af
  BY <1>1, <1>8
<1> HIDE DEF af
<1>12. (output - 1) * (b + af) <= out * af
  <2>1. output - 1 \in Int /\ out * k - b * num < af * num /\ (output - 1) * k <= out * k - b * num
    <3>1. (output - 1) * k \in Int
      BY <1>6, <1>9
    <3> QED
      BY <1>7, <1>9, <1>10, <3>1
  <2> QED
    BY <1>1, <1>6, <1>10, <2>1, CurveReaches
<1>13. output - 1 <= quote /\ quote \in Nat
  <2>1. out * af \in Nat /\ b + af \in Nat \ {0} /\ output - 1 \in Int
    BY <1>1, <1>6, <1>9, <1>10
  <2>2. quote = (out * af) \div (b + af)
    BY <1>11
  <2> HIDE DEF quote
  <2> QED
    BY <1>12, <2>1, <2>2, QuotientReaches
<1> HIDE DEF quote, got
<1>14. /\ a.input = input /\ a.output \in Int
       /\ a.output <= output /\ a.output <= out - Untouchable
       /\ out - a.output > Untouchable => a.output = output
  BY <1>1, <1>2, <1>3, <1>9
<1>15. got + 1 >= a.output
  BY <1>1, <1>2, <1>5, <1>13, <1>14, <1>9
<1>16. ASSUME out - a.output > Untouchable
       PROVE  (2 * a.output + 1) * den >= (2 * a.input - 1) * num
  <2>1. a.output = output
    BY <1>1, <1>2, <1>14, <1>16
  <2>2. (2 * input - 1) * (num * fee) = ((2 * input - 1) * num) * fee
        /\ (2 * output + 1) * k = ((2 * output + 1) * den) * fee
    BY <1>1, <1>8, <1>9 DEF k
  <2>3. ((2 * input - 1) * num) * fee \in Int /\ ((2 * output + 1) * den) * fee \in Int
        /\ (2 * input - 1) * num \in Int /\ (2 * output + 1) * den \in Int
    BY <1>1, <1>8, <1>9
  <2>4. ((2 * input - 1) * num) * fee <= ((2 * output + 1) * den) * fee
    BY <1>7, <1>8, <1>9, <2>2, <2>3
  <2>5. (2 * input - 1) * num <= (2 * output + 1) * den
    BY <2>3, <2>4, MulCancel
  <2> QED
    BY <1>1, <1>14, <2>1, <2>3, <2>5
<1> QED
  BY <1>4, <1>8, <1>14, <1>15, <1>16 DEF out, got

(* A pool of constant product, of any version, answers for its tradable    *)
(* reserves and the part of its fee that is traded.                        *)
LEMMA CfmmAvailableIs ==
    ASSUME NEW p, CfmmPool(p), FeeFits(p), NEW side \in {"bid", "ask"}, NEW worst,
           CfmmAvailable(p, side, worst) # Refused
    PROVE  CfmmAvailable(p, side, worst)
             = Available(Pure(p), CfmmAmm(p).fee[InputSide(p, side)], InputSide(p, side), side, worst)
<1> DEFINE s == InputSide(p, side)
<1>1. s \in Side
  BY DEF CfmmPool, CfmmTyped, InputSide, Other, Side
<1>2. CfmmAmm(p).res = Pure(p)
  BY PureFacts
<1> HIDE DEF s
<1>3. CASE p.ver \in ClassicVer
  BY <1>2, <1>3, Zenon DEF CfmmAvailable, ClassicAvailable, CfmmAmm, ClassicAmm, s
<1>4. CASE p.ver \in FeeSwitchVer
  <2>1. p.ver \notin ClassicVer
    BY <1>4 DEF ClassicVer, FeeSwitchVer
  <2>2. CfmmAvailable(p, side, worst) = FeeSwitchAvailable(p, side, worst)
    BY <1>4, <2>1, Zenon DEF CfmmAvailable
  <2>3. CfmmAmm(p) = FeeSwitchAmm(p)
    BY <1>4, <2>1, Zenon DEF CfmmAmm
  <2> QED
    BY <1>2, <2>2, <2>3, Zenon DEF FeeSwitchAvailable, s
<1>5. CASE p.ver \in RoyaltyVer
  <2>1. p.ver \notin ClassicVer /\ p.ver \notin FeeSwitchVer
    BY <1>5 DEF ClassicVer, FeeSwitchVer, RoyaltyVer
  <2>2. CfmmAvailable(p, side, worst) = RoyaltyAvailable(p, side, worst)
    BY <2>1, Zenon DEF CfmmAvailable
  <2>3. CfmmAmm(p) = RoyaltyAmm(p)
    BY <2>1, Zenon DEF CfmmAmm
  <2>4. RoyaltyAmm(p).fee["x"] = RoyaltyAmm(p).fee[s]
    <3>1. RoyaltyAmm(p).fee["x"] = CfmmAmm(p).fee["x"] /\ RoyaltyAmm(p).fee["y"] = CfmmAmm(p).fee["y"]
      BY <2>3
    <3>2. /\ CfmmAmm(p).fee["x"] = p.fee["x"] - (p.tfee + p.fee1 + p.fee2)
          /\ CfmmAmm(p).fee["y"] = p.fee["y"] - (p.tfee + p.fee1 + p.fee2)
      BY FeeFacts DEF Side
    <3>3. p.fee["x"] = p.fee["y"]
      BY <1>5 DEF CfmmPool, CfmmTyped
    <3> QED
      BY <1>1, <3>1, <3>2, <3>3 DEF Side
  <2> QED
    BY <2>2, <2>3, <2>4, Zenon DEF RoyaltyAvailable, s
<1> QED
  BY <1>3, <1>4, <1>5 DEF CfmmPool, CfmmTyped, CfmmVer

(* A swap takes its output from the other side (trade of cfmm_pool.rs).    *)
LEMMA SwapPays ==
    ASSUME NEW p, CfmmPool(p), FeeFits(p), NEW side \in {"bid", "ask"}, NEW amount \in Nat \ {0}
    PROVE  LET s == InputSide(p, side)
           IN  CfmmSwap(p, side, amount).res[Other(s)] = p.res[Other(s)] - CfmmOutput(p, s, amount)
<1> DEFINE s == InputSide(p, side)
           o == Other(s)
           out == CfmmOutput(p, s, amount)
           fee == CfmmAmm(p).fee[s]
           a1 == SetAside(amount, p.tfee)
           a2 == SetAside(amount, p.fee1)
           a3 == SetAside(amount, p.fee2)
           q == CfmmSwap(p, side, amount)
<1>1. s \in Side /\ o \in Side /\ o # s /\ \A t \in Side : t = s \/ t = o
  BY Sides DEF InputSide, CfmmPool, CfmmTyped
<1>2. p.res \in [Side -> Nat] /\ p = [f \in CfmmFields |-> p[f]]
  BY DEF CfmmPool, CfmmTyped
<1>3. out \in Int
  <2>1. out = ClassicOutput(Pure(p), p.native, fee, s, amount)
    BY PureFacts DEF CfmmOutput
  <2>2. fee \in Nat \ {0}
    BY <1>1, FeeFacts
  <2> QED
    BY <1>1, <2>1, <2>2, PureFacts, OutputLe
<1>4. amount \in Nat
  OBVIOUS
<1>5. q = [p EXCEPT !.res = AddOn(AddOn(p.res, s, amount), o, -out),
                    !.treasury = AddOn(p.treasury, s, a1),
                    !.first = AddOn(p.first, s, a2),
                    !.second = AddOn(p.second, s, a3)]
  BY <1>4, SwapFields, Zenon
<1> HIDE DEF s, o, out, a1, a2, a3, q
<1>6. q.res = AddOn(AddOn(p.res, s, amount), o, -out)
  BY <1>2, <1>5 DEF CfmmFields
<1>7. q.res[o] = p.res[o] - out
  BY <1>1, <1>2, <1>3, <1>6 DEF AddOn
<1> QED
  BY <1>7 DEF s, o, out, q

(* So the invariant says what a pool of constant product has available.    *)
LEMMA PoolInvAvailable ==
    TradingInv /\ pool.ver \in CfmmVer /\ FeesFit => AvailableAtPrice
<1> SUFFICES ASSUME TradingInv, pool.ver \in CfmmVer, FeesFit,
                    NEW side \in {"bid", "ask"}, NEW worst \in Prices,
                    NEW a, a = AnyAvailable(pool, side, worst), a # Refused
             PROVE  LET out == Other(InputSide(pool, side))
                        got == pool.res[out] - AnySwap(pool, side, a.input + 1).res[out]
                        rate == WorstRate(side, worst)
                    IN  /\ got + 1 >= a.output
                        /\ Uncut(pool, out, a)
                             => (2 * a.output + 1) * rate[2] >= (2 * a.input - 1) * rate[1]
  BY Zenon DEF AvailableAtPrice
<1> DEFINE s == InputSide(pool, side)
           out == Other(s)
           fee == CfmmAmm(pool).fee[s]
           res == Pure(pool)
           paid == ClassicOutput(res, pool.native, fee, s, a.input + 1)
<1>1. CfmmPool(pool) /\ FeeFits(pool) /\ pool.ver \notin BalanceVer /\ pool.ver \notin QuadraticVer
  BY PoolKinds DEF TradingInv, PoolInv, PoolOk, FeesFit
<1>2. s \in Side /\ out \in Side /\ out # s
  BY <1>1 DEF CfmmPool, CfmmTyped, InputSide, Other, Side
<1>3. res \in [Side -> Nat] /\ CfmmAmm(pool).res = res /\ PureOf(pool) = res
  BY <1>1, PureFacts DEF PureOf
<1>4. fee \in Nat \ {0}
  BY <1>1, <1>2, FeeFacts
<1>5. a = Available(res, fee, s, side, worst)
  <2>1. a = CfmmAvailable(pool, side, worst)
    BY Zenon DEF AnyAvailable
  <2> QED
    BY <1>1, <2>1, CfmmAvailableIs, Zenon
<1> HIDE DEF fee, res
<1>6. worst \in (Nat \ {0}) \X (Nat \ {0})
  BY PoolTradingAssumption
<1>7. /\ a.input \in Nat
      /\ paid + 1 >= a.output
      /\ res[out] - a.output > Untouchable
           => (2 * a.output + 1) * WorstRate(side, worst)[2]
                  >= (2 * a.input - 1) * WorstRate(side, worst)[1]
  <2> HIDE DEF s
  <2> QED
    BY <1>2, <1>3, <1>4, <1>5, <1>6, AvailableFacts
<1>8. pool.res[out] - AnySwap(pool, side, a.input + 1).res[out] = paid
  <2> DEFINE amount == a.input + 1
  <2>1. amount \in Nat \ {0}
    BY <1>7
  <2> HIDE DEF amount
  <2>2. AnySwap(pool, side, amount) = CfmmSwap(pool, side, amount)
    BY Zenon DEF AnySwap
  <2>3. CfmmSwap(pool, side, amount).res[out] = pool.res[out] - CfmmOutput(pool, s, amount)
    BY <1>1, <2>1, SwapPays
  <2>4. CfmmOutput(pool, s, amount) = ClassicOutput(res, pool.native, fee, s, amount)
    BY <1>3, Zenon DEF CfmmOutput, fee
  <2>5. ClassicOutput(res, pool.native, fee, s, amount) \in Int
    BY <1>2, <1>3, <1>4, <2>1, OutputLe
  <2>6. pool.res \in [Side -> Nat]
    BY <1>1 DEF CfmmPool, CfmmTyped
  <2> DEFINE q == ClassicOutput(res, pool.native, fee, s, amount)
  <2> HIDE DEF q, s, out
  <2>7. CfmmSwap(pool, side, amount).res[out] = pool.res[out] - q
    BY <2>3, <2>4 DEF q
  <2>8. pool.res[out] - CfmmSwap(pool, side, amount).res[out] = q
    BY <1>2, <2>5, <2>6, <2>7 DEF q
  <2> QED
    BY <2>2, <2>8 DEF q, amount
<1>9. Uncut(pool, out, a) => res[out] - a.output > Untouchable
  BY <1>1, <1>3 DEF Uncut
<1> QED
  BY <1>7, <1>8, <1>9 DEF s, out

(* What a constant-product pool says is available at a price is worth that *)
(* price unless it is cut off, and a swap of that size pays it out, each   *)
(* but for what rounding costs: whatever has been traded before.           *)
THEOREM AvailableAtPriceHolds ==
    TradingSpec /\ pool.ver \in CfmmVer /\ Solvent /\ []FeesFit => []AvailableAtPrice
<1> DEFINE Inv == TradingInv /\ pool.ver \in CfmmVer
<1>1. TradingInit /\ pool.ver \in CfmmVer /\ Solvent => Inv
  BY InitKeepsInv, PoolKinds
<1>2. Inv /\ FeesFit /\ [TradingNext]_tradingVars => Inv'
  BY StepKeepsInv, PoolKinds
<1>3. Inv /\ FeesFit => AvailableAtPrice
  BY PoolInvAvailable
<1> QED
  BY <1>1, <1>2, <1>3, PTL DEF TradingSpec

=============================================================================
