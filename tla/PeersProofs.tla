---------------------------- MODULE PeersProofs -----------------------------
(***************************************************************************)
(* Proofs about Peers, for any peers, keys, requests, scores and bounds:   *)
(* the types, that table and map agree while AddPeers, health checks,      *)
(* messages and restarts interleave, that blocking lasts, that a peer that *)
(* is down only loses trust, and which scores the stored column lets rise. *)
(***************************************************************************)
EXTENDS Peers, TLAPS

-----------------------------------------------------------------------------
(* Lemmas about the operators.                                              *)

\* Scores stay scores, in the map and in the table.
LEMMA Scoring ==
  ASSUME NEW s \in Int
  PROVE  /\ Stored(s) \in Int /\ Gain(s) \in Int /\ Loss(s) \in Int
         /\ Percent(s, 80) \in Int
BY DEF Stored, Gain, Loss, Percent

\* What the column holds are numbers, 0 among them.
LEMMA ColumnNumbers == Column \subseteq Int /\ 0 \in Column
BY DEF Column

\* The column's range.
LEMMA ColumnRange ==
  ASSUME NEW s \in Int
  PROVE  s \in Column <=> -9990 <= s /\ s <= 9990
BY DEF Column

\* A score that rounds into the column's range is stored in it.
LEMMA StoredFits ==
  ASSUME NEW s \in Int, -9994 <= s, s <= 9994
  PROVE  Stored(s) \in Column
<1>1. CASE s >= 0
  <2>1. Stored(s) = 10 * ((s + 5) \div 10)
    BY <1>1 DEF Stored
  <2>2. /\ 10 * ((s + 5) \div 10) \in Int
        /\ -9990 <= 10 * ((s + 5) \div 10) /\ 10 * ((s + 5) \div 10) <= 9990
    BY <1>1
  <2> QED BY <2>1, <2>2, ColumnRange
<1>2. CASE s < 0
  <2>1. Stored(s) = -10 * ((5 - s) \div 10)
    BY <1>2 DEF Stored
  <2>2. PICK q \in Int : q = (5 - s) \div 10
    BY <1>2
  <2>3. 0 <= q /\ q <= 999
    BY <2>2, <1>2
  <2> QED BY <2>1, <2>2, <2>3, ColumnRange
<1> QED BY <1>1, <1>2

\* A row is a peer the map can hold.
LEMMA RowIsPeer == Row \subseteq Peer
<1>1. Column \subseteq Int
  BY ColumnNumbers
<1> QED BY <1>1 DEF Row, Peer

\* Spending stays within the budget.
LEMMA Spending ==
  ASSUME budget \in Budget,
         NEW b \in {"adds", "messages", "healthy", "faults"}, Spend(b)
  PROVE  budget' \in Budget
<1>1. CASE b = "adds"
  BY <1>1, PeersAssumption DEF Spend, Budget
<1>2. CASE b = "messages"
  BY <1>2, PeersAssumption DEF Spend, Budget
<1>3. CASE b = "healthy"
  BY <1>3, PeersAssumption DEF Spend, Budget
<1>4. CASE b = "faults"
  BY <1>4, PeersAssumption DEF Spend, Budget
<1> QED BY <1>1, <1>2, <1>3, <1>4

\* A peer AddPeer is called with is one the table and the map can hold.
LEMMA NewPeerType ==
  ASSUME NEW peer \in NewPeers
  PROVE  /\ peer \in Peer
         /\ [peer EXCEPT !.trust = Stored(@)] \in Row
         /\ [peer EXCEPT !.trust = Stored(@)].key = peer.key
         /\ [peer EXCEPT !.trust = Stored(@)].url = peer.url
         /\ [peer EXCEPT !.trust = Stored(@)].status = peer.status
<1>1. peer.trust \in Int /\ -9994 <= peer.trust /\ peer.trust <= 9994
  BY PeersAssumption DEF NewPeers
<1>2. peer \in Peer
  BY <1>1 DEF NewPeers, Peer
<1>3. Stored(peer.trust) \in Column
  BY <1>1, StoredFits
<1> QED BY <1>2, <1>3 DEF Peer, Row

-----------------------------------------------------------------------------
(* The inductive invariant.                                                 *)

\* Whoever is being checked is in the map, and everybody in the map and every
\* sender at work is in the table.
Registered ==
  /\ known \subseteq rows
  /\ todo \subseteq known /\ stale \subseteq known
  /\ checking \in known \cup {NoPeer}
  /\ \A r \in Requests : pc[r] # "idle" => from[r] \in rows

PeersInv == TypeOK /\ Registered /\ RegistryAgrees

\* An empty registry satisfies the invariant.
LEMMA PeersInit == Init => PeersInv
<1> SUFFICES ASSUME Init PROVE PeersInv
  OBVIOUS
<1>1. TypeOK
  BY PeersAssumption DEF Init, TypeOK, Budget, Column
<1>2. Registered /\ RegistryAgrees
  BY DEF Init, Registered, RegistryAgrees, Follow
<1> QED BY <1>1, <1>2 DEF PeersInv

-----------------------------------------------------------------------------
(* What the shared parts of the actions do.                                 *)

\* No row changes but in its score.
OnlyScores ==
  \A q \in rows : /\ row'[q].key = row[q].key /\ row'[q].url = row[q].url
                   /\ row'[q].status = row[q].status

\* A score written, or not, changes neither keys, endpoints nor statuses.
LEMMA ScoreWritten ==
  ASSUME PeersInv, NEW p \in Peers, NEW s \in Int, WriteScore(p, s)
  PROVE  /\ rows' = rows /\ row' \in [rows -> Row]
         /\ budget' \in Budget
         /\ OnlyScores
<1> USE DEF PeersInv, TypeOK
<1>1. CASE UNCHANGED registry /\ (Spend("faults") \/ UNCHANGED budget)
  BY <1>1, Spending DEF registry, OnlyScores
<1>2. CASE /\ Stored(s) \in Column
           /\ row' = [row EXCEPT ![p].trust = Stored(s)]
           /\ UNCHANGED <<rows, budget>>
  <2>1. ASSUME NEW q \in rows
        PROVE  /\ row'[q] \in Row
               /\ row'[q].key = row[q].key /\ row'[q].url = row[q].url
               /\ row'[q].status = row[q].status
    BY <1>2 DEF Row
  <2> QED BY <1>2, <2>1 DEF OnlyScores
<1> QED BY <1>1, <1>2 DEF WriteScore

\* The peer is upserted.
LEMMA Upserted ==
  ASSUME PeersInv, NEW p \in Peers, NEW peer \in NewPeers, Upsert(p, peer)
  PROVE  /\ rows' = rows \cup {p} /\ row' \in [rows' -> Row]
         /\ row'[p].key = peer.key /\ row'[p].url = peer.url
         /\ row'[p].status = peer.status
         /\ \A q \in rows \ {p} : row'[q] = row[q]
<1>1. row \in [rows -> Row]
  BY DEF PeersInv, TypeOK
<1> DEFINE stored == [peer EXCEPT !.trust = Stored(@)]
<1>2. /\ stored \in Row /\ stored.status = peer.status
      /\ stored.key = peer.key /\ stored.url = peer.url
  BY NewPeerType
<1>3. rows' = rows \cup {p} /\ row' = At(row, p, stored)
  BY DEF Upsert
<1> HIDE DEF stored
<1>4. /\ At(row, p, stored) \in [rows \cup {p} -> Row]
      /\ At(row, p, stored)[p] = stored
      /\ \A q \in rows \ {p} : At(row, p, stored)[q] = row[q]
  BY <1>1, <1>2 DEF At
<1> QED BY <1>2, <1>3, <1>4

\* Its entry is replaced.
LEMMA Replaced ==
  ASSUME PeersInv, NEW p \in Peers, NEW peer \in NewPeers, Replace(p, peer)
  PROVE  /\ known' = known \cup {p} /\ mem' \in [known' -> Peer]
         /\ mem'[p] = peer
         /\ \A q \in known \ {p} : mem'[q] = mem[q]
         /\ stale' \subseteq known' /\ old' \in [stale' -> Peer]
<1>1. /\ peer \in Peer /\ mem \in [known -> Peer] /\ old \in [stale -> Peer]
      /\ stale \subseteq known
  BY NewPeerType DEF PeersInv, TypeOK, Registered
<1>2. known' = known \cup {p} /\ mem' = At(mem, p, peer)
  BY DEF Replace
<1>3. /\ At(mem, p, peer) \in [known \cup {p} -> Peer]
      /\ At(mem, p, peer)[p] = peer
      /\ \A q \in known \ {p} : At(mem, p, peer)[q] = mem[q]
  BY <1>1 DEF At
<1>4. stale' \subseteq known \cup {p} /\ old' \in [stale' -> Peer]
  <2>1. CASE p \in known /\ p \in todo \cup {checking} /\ p \notin stale
    <3>1. mem[p] \in Peer
      BY <1>1, <2>1
    <3>2. At(old, p, mem[p]) \in [stale \cup {p} -> Peer]
      BY <1>1, <3>1 DEF At
    <3>3. stale' = stale \cup {p} /\ old' = At(old, p, mem[p])
      BY <2>1 DEF Replace
    <3> QED BY <1>1, <3>2, <3>3
  <2>2. CASE ~(p \in known /\ p \in todo \cup {checking} /\ p \notin stale)
    BY <1>1, <2>2 DEF Replace
  <2> QED BY <2>1, <2>2
<1> QED BY <1>2, <1>3, <1>4

\* The health check lets go of a peer.
LEMMA LetGo ==
  ASSUME PeersInv, NEW p \in Peers, Checked(p)
  PROVE  /\ todo' \subseteq todo /\ checking' = NoPeer
         /\ stale' \subseteq stale /\ old' \in [stale' -> Peer]
BY DEF PeersInv, TypeOK, Checked

\* The object a check holds is a peer.
LEMMA HeldType ==
  ASSUME PeersInv, NEW p \in known
  PROVE  Held(p) \in Peer
BY DEF PeersInv, TypeOK, Held

\* What a failed check makes of a peer.
LEMMA LoweredPeer ==
  ASSUME NEW peer \in Peer
  PROVE  /\ Lowered(peer) \in Peer
         /\ Lowered(peer).key = peer.key /\ Lowered(peer).url = peer.url
         /\ Lowered(peer).status \in {peer.status, "BLOCKED"}
<1>1. Loss(peer.trust) \in Int
  BY Scoring DEF Peer
<1> QED BY <1>1 DEF Lowered, Peer, Status

-----------------------------------------------------------------------------
(* One lemma per group of actions.                                          *)

\* AddPeer writes the table and the map under one lock.
LEMMA AddKeeps ==
  ASSUME PeersInv, NEW p \in Peers, NEW peer \in NewPeers, AddPeer(p, peer)
  PROVE  PeersInv'
<1> USE DEF PeersInv
<1>1. Spend("adds") /\ Upsert(p, peer) /\ Replace(p, peer)
      /\ unsure' = unsure \ {p} /\ UNCHANGED <<todo, checking, pc, from, score, down>>
  BY DEF AddPeer, inbox
<1>2. budget' \in Budget
  BY <1>1, Spending DEF TypeOK
<1>3. TypeOK'
  BY <1>1, <1>2, Upserted, Replaced DEF TypeOK
<1>4. Registered'
  BY <1>1, Upserted, Replaced DEF Registered
<1>5. RegistryAgrees'
  BY <1>1, <1>2, Upserted, Replaced DEF RegistryAgrees, Registered, Follow, TypeOK
<1> QED BY <1>3, <1>4, <1>5

\* A lost reply leaves the map behind the table, for one peer.
LEMMA ReplyLostKeeps ==
  ASSUME PeersInv, NEW p \in Peers, NEW peer \in NewPeers,
         AddPeerReplyLost(p, peer)
  PROVE  PeersInv'
<1> USE DEF PeersInv
<1>1. Spend("adds") /\ Upsert(p, peer) /\ unsure' = unsure \cup {p}
      /\ UNCHANGED <<engine, health, inbox, down>>
  BY DEF AddPeerReplyLost
<1>2. budget' \in Budget
  BY <1>1, Spending DEF TypeOK
<1>3. TypeOK'
  BY <1>1, <1>2, Upserted DEF TypeOK, engine, health, inbox
<1>4. Registered'
  BY <1>1, Upserted DEF Registered, engine, health, inbox
<1>5. RegistryAgrees'
  BY <1>1, Upserted DEF RegistryAgrees, Registered, Follow, TypeOK, engine
<1> QED BY <1>3, <1>4, <1>5

\* loadPeers rebuilds the map from the table.
LEMMA CrashKeeps ==
  ASSUME PeersInv, CrashRestart
  PROVE  PeersInv'
<1> USE DEF PeersInv
<1>1. budget' \in Budget
  BY Spending DEF CrashRestart, TypeOK
<1>2. TypeOK'
  <2>1. mem' \in [known' -> Peer]
    BY RowIsPeer DEF CrashRestart, TypeOK, Follow
  <2> QED
    BY <1>1, <2>1, ColumnNumbers DEF CrashRestart, registry, TypeOK, Follow
<1>3. Registered'
  BY DEF CrashRestart, registry, Registered, Follow
<1>4. RegistryAgrees'
  BY <1>1 DEF CrashRestart, registry, RegistryAgrees, Follow
<1> QED BY <1>2, <1>3, <1>4

\* The health loop writes scores and blocks entries.
LEMMA HealthKeeps ==
  ASSUME PeersInv, HealthStep
  PROVE  PeersInv'
<1> USE DEF PeersInv
<1>1. CASE CheckPeerHealth
  BY <1>1 DEF CheckPeerHealth, TypeOK, Registered, RegistryAgrees, Follow,
              registry, engine, inbox
<1>2. ASSUME NEW p \in Peers, SkipBlocked(p) PROVE PeersInv'
  BY <1>2, LetGo DEF SkipBlocked, TypeOK, Registered, RegistryAgrees, Follow,
                     registry, engine, inbox
<1>3. ASSUME NEW p \in Peers, SkipUnparsable(p) PROVE PeersInv'
  BY <1>3, LetGo DEF SkipUnparsable, TypeOK, Registered, RegistryAgrees, Follow,
                     registry, engine, inbox
<1>4. ASSUME NEW p \in Peers, AskPeer(p) PROVE PeersInv'
  BY <1>4 DEF AskPeer, TypeOK, Registered, RegistryAgrees, Follow,
              registry, engine, inbox
<1>5. ASSUME NEW p \in Peers, IncreasePeerTrust(p) PROVE PeersInv'
  <2>1. p \in known
    BY <1>5, PeersAssumption DEF IncreasePeerTrust, Registered
  <2>2. budget' \in Budget
    BY <1>5, Spending DEF IncreasePeerTrust, TypeOK
  <2>3. Gain(mem[p].trust) \in Int
    BY <2>1, Scoring DEF TypeOK, Peer
  <2>4. /\ mem' \in [known -> Peer]
        /\ \A q \in known : /\ mem'[q].key = mem[q].key /\ mem'[q].url = mem[q].url
                             /\ mem'[q].status = mem[q].status
    BY <1>5, <2>1, <2>3 DEF IncreasePeerTrust, TypeOK, Peer
  <2>5. Checked(p) /\ UNCHANGED <<rows, row, known, pc, from, score, down, unsure>>
    BY <1>5 DEF IncreasePeerTrust, registry, inbox
  <2>6. TypeOK'
    BY <2>2, <2>4, <2>5, LetGo DEF TypeOK
  <2>7. Registered'
    BY <2>5, LetGo DEF Registered
  <2>8. RegistryAgrees'
    BY <2>2, <2>4, <2>5 DEF RegistryAgrees, Follow
  <2> QED BY <2>6, <2>7, <2>8
<1>6. ASSUME NEW p \in Peers, HandleUnhealthyPeer(p) PROVE PeersInv'
  <2>1. p \in known
    BY <1>6, PeersAssumption DEF HandleUnhealthyPeer, Registered
  <2>2. Loss(Held(p).trust) \in Int
    BY <2>1, HeldType, Scoring DEF Peer
  <2>3. /\ rows' = rows /\ row' \in [rows -> Row]
        /\ budget' \in Budget
        /\ OnlyScores
    BY <1>6, <2>2, ScoreWritten DEF HandleUnhealthyPeer
  <2>4. /\ mem' \in [known -> Peer]
        /\ \A q \in known : /\ mem'[q].key = mem[q].key /\ mem'[q].url = mem[q].url
                             /\ mem'[q].status \in {mem[q].status, "BLOCKED"}
    <3>1. mem[p] \in Peer
      BY <2>1 DEF TypeOK
    <3>2. CASE mem' = mem
      BY <3>2 DEF TypeOK
    <3>3. CASE mem' = [mem EXCEPT ![p] = Lowered(@)]
      BY <2>1, <3>1, <3>3, LoweredPeer DEF TypeOK
    <3> QED BY <1>6, <3>2, <3>3 DEF HandleUnhealthyPeer
  <2>5. Checked(p) /\ UNCHANGED <<known, pc, from, score, down, unsure>>
    BY <1>6 DEF HandleUnhealthyPeer, inbox
  <2>6. TypeOK'
    BY <2>3, <2>4, <2>5, LetGo DEF TypeOK
  <2>7. Registered'
    BY <2>3, <2>5, LetGo DEF Registered
  <2>8. RegistryAgrees'
    BY <2>3, <2>4, <2>5 DEF RegistryAgrees, Registered, Follow, OnlyScores
  <2> QED BY <2>6, <2>7, <2>8
<1> QED BY <1>1, <1>2, <1>3, <1>4, <1>5, <1>6 DEF HealthStep

\* A message to the inbox changes scores only.
LEMMA InboxKeeps ==
  ASSUME PeersInv, NEW r \in Requests, InboxStep(r)
  PROVE  PeersInv'
<1> USE DEF PeersInv, registry, engine, health
<1>1. ASSUME NEW p \in Peers, NEW k \in Keys, Receive(r, p, k) PROVE PeersInv'
  <2>1. budget' \in Budget
    BY <1>1, Spending DEF Receive, TypeOK
  <2>2. row[p].trust \in Column
    BY <1>1 DEF Receive, Accepted, TypeOK, Row
  <2>3. TypeOK'
    BY <1>1, <2>1, <2>2 DEF Receive, Accepted, TypeOK
  <2>4. Registered'
    BY <1>1 DEF Receive, Accepted, TypeOK, Registered
  <2>5. RegistryAgrees'
    BY <1>1, <2>1 DEF Receive, RegistryAgrees, Follow
  <2> QED BY <2>3, <2>4, <2>5
<1>2. CASE ApplyFeatureChange(r) \/ RefuseFeature(r)
  <2>1. TypeOK'
    BY <1>2, ColumnNumbers DEF ApplyFeatureChange, RefuseFeature, Answer, TypeOK
  <2>2. Registered'
    BY <1>2 DEF ApplyFeatureChange, RefuseFeature, Answer, TypeOK, Registered
  <2>3. RegistryAgrees'
    BY <1>2 DEF ApplyFeatureChange, RefuseFeature, RegistryAgrees, Follow
  <2> QED BY <2>1, <2>2, <2>3
<1>3. CASE Penalise(r) \/ Reward(r)
  <2>1. from[r] \in rows /\ from[r] \in Peers
    BY <1>3 DEF Penalise, Reward, Registered, TypeOK
  <2>2. PICK s \in Int : WriteScore(from[r], s)
    <3>1. score[r] \in Int
      <4>1. score[r] \in Column
        BY DEF TypeOK
      <4> QED BY <4>1, ColumnNumbers
    <3> QED BY <1>3, <3>1, Scoring DEF Penalise, Reward
  <2>3. /\ rows' = rows /\ row' \in [rows -> Row]
        /\ budget' \in Budget
        /\ OnlyScores
    BY <2>1, <2>2, ScoreWritten
  <2>4. Answer(r) /\ UNCHANGED <<engine, health, down, unsure>>
    BY <1>3 DEF Penalise, Reward
  <2>5. TypeOK'
    BY <2>3, <2>4, ColumnNumbers DEF Answer, TypeOK
  <2>6. Registered'
    BY <2>3, <2>4 DEF Answer, TypeOK, Registered
  <2>7. RegistryAgrees'
    BY <2>3, <2>4 DEF RegistryAgrees, Registered, Follow, OnlyScores
  <2> QED BY <2>5, <2>6, <2>7
<1> QED BY <1>1, <1>2, <1>3 DEF InboxStep

\* The invariant is inductive.
LEMMA PeersStep ==
  ASSUME PeersInv, [Next]_vars
  PROVE  PeersInv'
<1>1. CASE UNCHANGED vars
  BY <1>1 DEF vars, registry, engine, health, inbox, PeersInv, TypeOK, Registered,
              RegistryAgrees, Follow
<1>2. ASSUME NEW p \in Peers, GoDown(p) PROVE PeersInv'
  BY <1>2 DEF GoDown, registry, engine, health, inbox, PeersInv, TypeOK, Registered,
              RegistryAgrees, Follow
<1> QED
  BY <1>1, <1>2, AddKeeps, ReplyLostKeeps, HealthKeeps, InboxKeeps, CrashKeeps DEF Next

-----------------------------------------------------------------------------
(* The theorems.                                                            *)

\* The invariant holds in every reachable state.
LEMMA PeersCorrect == Spec => []PeersInv
<1> QED BY PeersInit, PeersStep, PTL DEF Spec

\* Every variable keeps its type, whatever scores AddPeer stores; in particular
\* the map holds no status the table would refuse, and the table no score
\* outside its column, though the map may (peer_registry, handleUnhealthyPeer,
\* increasePeerTrust).
THEOREM PeersTyped == Spec => []TypeOK
<1>1. PeersInv => TypeOK
  BY DEF PeersInv
<1> QED BY PeersCorrect, <1>1, PTL

\* Table and map agree on keys and statuses, up to blocking, however AddPeers,
\* health checks, messages and restarts interleave (AddPeer, loadPeers).
THEOREM RegistryConsistent == Spec => []RegistryAgrees
<1>1. PeersInv => RegistryAgrees
  BY DEF PeersInv
<1> QED BY PeersCorrect, <1>1, PTL

\* Only AddPeer and a restart bring a blocked entry back (increasePeerTrust
\* and handleUnhealthyPeer never do).
THEOREM BlockingKept == Spec => BlockingLasts
<1>1. PeersInv /\ [Next]_vars
        => [\A p \in known \cap known' :
              mem[p].status = "BLOCKED" /\ mem'[p].status # "BLOCKED"
                => \/ CrashRestart
                   \/ \E peer \in NewPeers : AddPeer(p, peer)]_vars
  <2> SUFFICES ASSUME PeersInv, Next, NEW p \in known \cap known',
                      mem[p].status = "BLOCKED", mem'[p].status # "BLOCKED",
                      ~CrashRestart
               PROVE  \E peer \in NewPeers : AddPeer(p, peer)
    BY DEF vars, engine
  <2> USE DEF PeersInv
  <2>1. mem' # mem
    OBVIOUS
  <2>2. ASSUME NEW q \in Peers, IncreasePeerTrust(q) PROVE FALSE
    BY <2>2 DEF IncreasePeerTrust, TypeOK, Peer
  <2>3. ASSUME NEW q \in Peers, HandleUnhealthyPeer(q) PROVE FALSE
    <3>1. mem' = [mem EXCEPT ![q] = Lowered(@)] /\ mem[p] \in Peer
      BY <2>1, <2>3 DEF HandleUnhealthyPeer, TypeOK
    <3>2. Lowered(mem[p]).status \in {mem[p].status, "BLOCKED"}
      BY <3>1, LoweredPeer
    <3> QED BY <3>1, <3>2 DEF TypeOK
  <2>4. PICK q \in Peers, peer \in NewPeers : AddPeer(q, peer)
    BY <2>1, <2>2, <2>3 DEF Next, HealthStep, InboxStep, AddPeerReplyLost,
       CheckPeerHealth, SkipBlocked, SkipUnparsable, AskPeer, Receive, Penalise, Reward,
       ApplyFeatureChange, RefuseFeature, GoDown, engine
  <2>5. q = p
    BY <2>4, Replaced DEF AddPeer
  <2> QED BY <2>4, <2>5
<1> QED BY PeersCorrect, <1>1, PTL DEF Spec, BlockingLasts

\* What a failed check takes from a peer that it does not block.
LEMMA LossIsFelt ==
  ASSUME NEW s \in Int
  PROVE  Loss(s) < 300 \/ Loss(s) <= s - 15
BY DEF Loss, Percent

\* A peer that no longer answers is blocked or only loses trust, whatever its
\* score, and at least 15 thousandths at each check of its present entry
\* (increasePeerTrust, handleUnhealthyPeer).
THEOREM DownLosesTrust == Spec => DownWearsOut
<1>1. PeersInv /\ [Next]_vars
        => [\A p \in down \cap known :
              \/ CrashRestart
              \/ \E peer \in NewPeers : AddPeer(p, peer)
              \/ /\ p \in known'
                 /\ \/ mem'[p].status = "BLOCKED"
                    \/ mem'[p].trust <= mem[p].trust - Toll(p)]_vars
  <2> SUFFICES ASSUME PeersInv, Next, NEW p \in down \cap known, ~CrashRestart,
                      ~\E peer \in NewPeers : AddPeer(p, peer)
               PROVE  /\ p \in known'
                      /\ \/ mem'[p].status = "BLOCKED"
                         \/ mem'[p].trust <= mem[p].trust - Toll(p)
    OBVIOUS
  <2> DEFINE Worn == /\ p \in known'
                     /\ \/ mem'[p].status = "BLOCKED"
                        \/ mem'[p].trust <= mem[p].trust - Toll(p)
  <2>1. /\ p \in Peers /\ p # NoPeer /\ mem[p] \in Peer /\ mem[p].trust \in Int
        /\ mem \in [known -> Peer]
    BY PeersAssumption DEF PeersInv, TypeOK, Peer
  <2>2. ASSUME p \in known', mem'[p] = mem[p], checking # p \/ checking' = p
        PROVE  Worn
    BY <2>1, <2>2 DEF Toll
  <2>3. CASE \/ CheckPeerHealth
             \/ \E q \in Peers : SkipBlocked(q) \/ SkipUnparsable(q) \/ AskPeer(q)
    <3>1. p \in known' /\ mem'[p] = mem[p]
      BY <2>3 DEF CheckPeerHealth, SkipBlocked, SkipUnparsable, AskPeer, engine
    <3>2. checking # p \/ checking' = p
      BY <2>1, <2>3 DEF CheckPeerHealth, SkipBlocked, SkipUnparsable, AskPeer
    <3> QED BY <2>2, <3>1, <3>2
  <2>4. ASSUME NEW q \in Peers, IncreasePeerTrust(q)
        PROVE  Worn
    <3>1. q # p /\ checking = q /\ p \in known' /\ mem'[p] = mem[p]
      BY <2>1, <2>4 DEF IncreasePeerTrust
    <3> QED BY <2>2, <3>1
  <2>5. ASSUME NEW q \in Peers, HandleUnhealthyPeer(q)
        PROVE  Worn
    <3>1. checking = q /\ p \in known'
      BY <2>5 DEF HandleUnhealthyPeer
    <3>2. CASE q # p
      <4>1. mem'[p] = mem[p]
        BY <2>1, <2>5, <3>2 DEF HandleUnhealthyPeer
      <4> QED BY <2>2, <3>1, <3>2, <4>1
    <3>3. CASE q = p /\ p \in stale
      <4>1. mem'[p] = mem[p] /\ Toll(p) = 0
        BY <2>5, <3>3 DEF HandleUnhealthyPeer, Toll
      <4> QED BY <2>1, <3>1, <4>1
    <3>4. CASE q = p /\ p \notin stale
      <4>1. mem'[p] = Lowered(mem[p])
        BY <2>1, <2>5, <3>4 DEF HandleUnhealthyPeer
      <4>2. /\ mem'[p].trust = Loss(mem[p].trust)
            /\ Loss(mem[p].trust) < 300 => mem'[p].status = "BLOCKED"
        BY <2>1, <4>1 DEF Lowered, Peer
      <4>3. Toll(p) \in {0, 15} /\ Loss(mem[p].trust) \in Int
        BY <2>1, Scoring DEF Toll
      <4> DEFINE s == mem[p].trust
      <4>4. Loss(s) < 300 \/ Loss(s) <= s - 15
        BY <2>1, LossIsFelt
      <4>5. s \in Int /\ Loss(s) \in Int
        BY <2>1, <4>3
      <4> HIDE DEF s
      <4>6. Loss(s) < 300 \/ Loss(s) <= s - Toll(p)
        BY <4>3, <4>4, <4>5
      <4> QED BY <3>1, <4>2, <4>6 DEF s
    <3> QED BY <3>2, <3>3, <3>4
  <2>6. ASSUME NEW q \in Peers, NEW peer \in NewPeers,
               AddPeer(q, peer) \/ AddPeerReplyLost(q, peer)
        PROVE  Worn
    <3>1. p \in known' /\ mem'[p] = mem[p] /\ checking' = checking
      BY <2>1, <2>6, Replaced DEF AddPeer, AddPeerReplyLost, engine, health
    <3> QED BY <2>2, <3>1
  <2>7. CASE \/ \E r \in Requests : InboxStep(r)
             \/ \E q \in Peers : GoDown(q)
    BY <2>1, <2>2, <2>7 DEF InboxStep, Receive, Penalise, Reward, ApplyFeatureChange,
       RefuseFeature, GoDown, engine, health
  <2> QED BY <2>3, <2>4, <2>5, <2>6, <2>7 DEF Next, HealthStep
<1> QED BY PeersCorrect, <1>1, PTL DEF Spec, DownWearsOut

\* What an accepted message makes of the score of a row, for every score the
\* column can hold: it rises from 0.25 up to below 1 only.  Smaller gains are
\* rounded away; a score above 1 falls, being capped, and so does one of -0.25
\* or less, two percent of which are negative, until the column cannot hold
\* the result and the update fails (HandleInbox, UpdatePeerTrustScore).
THEOREM LowScoresStay ==
  ASSUME NEW n \in -999 .. 999
  PROVE  LET s == 10 * n IN
         /\ s \in Column /\ Stored(s) = s
         /\ Stored(Gain(s)) > s <=> 250 <= s /\ s < 1000
         /\ Stored(Gain(s)) < s <=> s <= -250 \/ 1000 < s
         /\ Stored(Gain(s)) \in Column <=> -9790 <= s
<1> DEFINE s == 10 * n
<1>1. s \in Column /\ Stored(s) = s
  BY DEF Stored, Column
<1>2. CASE 0 <= n
  <2>1. Percent(s, 102) = (n * 102) \div 10
    <3>1. (10 * n * 102) \div 100 = (n * 102) \div 10
      BY <1>2
    <3>2. Percent(s, 102) = (s * 102) \div 100
      BY <1>2 DEF Percent
    <3> QED BY <3>1, <3>2
  <2>2. CASE n > 98
    <3>1. Gain(s) = 1000 /\ Stored(1000) = 1000
      BY <2>2 DEF Gain, Stored
    <3>2. 1000 \in Column
      BY ColumnRange
    <3>3. 250 <= s /\ -9790 <= s /\ ~(s <= -250)
      BY <2>2
    <3>4. s \in Int
      OBVIOUS
    <3> HIDE DEF s
    <3>5. /\ 1000 > s <=> 250 <= s /\ s < 1000
          /\ 1000 < s <=> s <= -250 \/ 1000 < s
      BY <3>3, <3>4
    <3>6. /\ Stored(Gain(s)) > s <=> 250 <= s /\ s < 1000
          /\ Stored(Gain(s)) < s <=> s <= -250 \/ 1000 < s
          /\ Stored(Gain(s)) \in Column <=> -9790 <= s
      BY <3>1, <3>2, <3>3, <3>5
    <3> QED BY <1>1, <3>6 DEF s
  <2>3. CASE n <= 98
    <3>1. PICK g \in Int : g = (n * 102) \div 10
      BY <1>2
    <3>2. Gain(s) = g /\ g >= 0
      BY <1>2, <2>1, <2>3, <3>1 DEF Gain
    <3>3. Stored(g) = 10 * ((g + 5) \div 10)
      BY <3>2 DEF Stored
    <3>4. PICK q \in Int : q = (g + 5) \div 10
      BY <3>2
    <3>5. n <= q /\ q <= 999 /\ (n < q <=> 25 <= n)
      BY <1>2, <2>3, <3>1, <3>4
    <3> QED BY <1>1, <1>2, <2>3, <3>2, <3>3, <3>4, <3>5, ColumnRange
  <2> QED BY <2>2, <2>3
<1>3. CASE n < 0
  <2>1. Percent(s, 102) = -((-n * 102) \div 10)
    <3>1. (-(10 * n) * 102) \div 100 = (-n * 102) \div 10
      BY <1>3
    <3>2. Percent(s, 102) = -((-s * 102) \div 100)
      BY <1>3 DEF Percent
    <3> QED BY <3>1, <3>2
  <2>2. PICK g \in Int : g = (-n * 102) \div 10
    BY <1>3
  <2>3. Gain(s) = -g /\ g > 0
    BY <1>3, <2>1, <2>2 DEF Gain
  <2>4. PICK q \in Int : q = (5 + g) \div 10
    BY <2>3
  <2>5. Stored(-g) = -10 * q
    BY <2>3, <2>4 DEF Stored
  <2>6. -n <= q /\ (-n < q <=> n <= -25) /\ (q <= 999 <=> -979 <= n)
    BY <1>3, <2>2, <2>4
  <2> QED BY <1>1, <1>3, <2>3, <2>5, <2>6, ColumnRange
<1> QED BY <1>2, <1>3
=============================================================================
