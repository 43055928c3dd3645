------------------------------- MODULE Peers --------------------------------
(***************************************************************************)
(* The peers of one server, kept twice: rows of peer_registry, which the   *)
(* inbox consults, and the map SyncEngine.peers, which the health loop,    *)
(* the outbox and the forwarding use (internal/sync/peers.go,              *)
(* internal/storage/postgres/peer_repo.go, internal/api/inbox.go).         *)
(*                                                                         *)
(* AddPeer writes both under the lock of the map.  A health check works on *)
(* the pointers it copied when it began, so AddPeer may replace an entry   *)
(* while its old object is being checked.  Trust scores are thousandths in *)
(* the map (a float64) and hundredths in the table (NUMERIC(3,2), from     *)
(* -9.99 to 9.99).  AddPeer validates neither the score nor the endpoint.  *)
(***************************************************************************)
EXTENDS Integers, FiniteSets

CONSTANTS
  Peers,       \* servers that may become peers
  Keys,        \* public keys they may have
  Requests,    \* goroutines that serve the inbox
  Scores,      \* trust scores AddPeer is called with
  NoPeer,      \* nobody
  MaxAdds,     \* bounds calls of AddPeer, whether or not their reply is lost
  MaxMessages, \* bounds messages to the inbox
  MaxHealthy,  \* bounds health checks that succeed
  MaxFaults    \* bounds failed updates of scores, and crashes

\* An AddPeer whose score the column cannot hold fails and changes nothing;
\* the scores are the numbers it can hold, once rounded.
ASSUME PeersAssumption ==
  /\ NoPeer \notin Peers
  /\ \A s \in Scores : s \in Int /\ -9994 <= s /\ s <= 9994
  /\ MaxAdds \in Nat /\ MaxMessages \in Nat
  /\ MaxHealthy \in Nat /\ MaxFaults \in Nat

VARIABLES
  rows, row,      \* peer_registry: who is in it, and their rows
  known, mem,     \* SyncEngine.peers: its keys, and their entries
  todo, checking, \* health loop: peers to check, and the one being asked
  stale, old,     \* peers whose entry was replaced since, the old objects
  pc, from, score,\* inbox: phase of a request, its sender, the score it read
  down,           \* peers that no longer answer
  unsure,         \* history: peers whose last INSERT's reply was lost
  budget          \* what is left of each bound

registry == <<rows, row>>
engine   == <<known, mem>>
health   == <<todo, checking, stale, old>>
inbox    == <<pc, from, score>>
vars     == <<registry, engine, health, inbox, down, unsure, budget>>

Status == {"FOLLOWING", "BLOCKED", "PENDING"}

\* What NUMERIC(3,2) holds.  The map's scores know no such limits: those of
\* healthy peers are capped at 1, but negative ones go on falling.
Column == -9990 .. 9990

\* The endpoints http.NewRequest makes a request from, and the others.
Urls   == {"parsable", "unparsable"}
Row    == [status : Status, trust : Column, key : Keys, url : Urls]
Peer   == [status : Status, trust : Int, key : Keys, url : Urls]
Budget == [adds : 0 .. MaxAdds, messages : 0 .. MaxMessages,
           healthy : 0 .. MaxHealthy, faults : 0 .. MaxFaults]

TypeOK ==
  /\ rows \in SUBSET Peers /\ row \in [rows -> Row]
  /\ known \in SUBSET Peers /\ mem \in [known -> Peer]
  /\ todo \in SUBSET Peers /\ checking \in Peers \cup {NoPeer}
  /\ stale \in SUBSET Peers /\ old \in [stale -> Peer]
  /\ pc \in [Requests -> {"idle", "invalid", "valid", "applied"}]
  /\ from \in [Requests -> Peers \cup {NoPeer}]
  /\ score \in [Requests -> Column]
  /\ down \in SUBSET Peers /\ unsure \in SUBSET Peers
  /\ budget \in Budget

Init ==
  /\ rows = {} /\ row = [p \in {} |-> 0]
  /\ known = {} /\ mem = [p \in {} |-> 0]
  /\ todo = {} /\ checking = NoPeer
  /\ stale = {} /\ old = [p \in {} |-> 0]
  /\ pc = [r \in Requests |-> "idle"]
  /\ from = [r \in Requests |-> NoPeer]
  /\ score = [r \in Requests |-> 0]
  /\ down = {} /\ unsure = {}
  /\ budget = [adds |-> MaxAdds, messages |-> MaxMessages,
               healthy |-> MaxHealthy, faults |-> MaxFaults]

Spend(b) == budget[b] > 0 /\ budget' = [budget EXCEPT ![b] = @ - 1]

\* f with the value v at p, defined there if it was not.
At(f, p, v) == [q \in DOMAIN f \cup {p} |-> IF q = p THEN v ELSE f[q]]

-----------------------------------------------------------------------------
(* Scores. *)

\* NUMERIC(3,2) keeps two decimals, rounding half away from zero.
Stored(s) == IF s >= 0 THEN 10 * ((s + 5) \div 10) ELSE -10 * ((5 - s) \div 10)

\* So many percent of a score, truncated to thousandths.
Percent(s, n) == IF s >= 0 THEN (s * n) \div 100 ELSE -((-s * n) \div 100)

\* A healthy peer, and the sender of an accepted message, gain 2 percent, but
\* have no more than 1 then.
Gain(s) == IF s * 102 > 100000 THEN 1000 ELSE Percent(s, 102)

\* An unhealthy peer loses 5 percent, but keeps a tenth.
HighFloor(s) == IF Percent(s, 95) < 300 THEN 300 ELSE Percent(s, 95)
Loss(s) == IF Percent(s, 95) < 100 THEN 100 ELSE Percent(s, 95)

\* UpdatePeerTrustScore, whose error every caller drops.  It fails when the
\* score has become too large a negative number for the column.
WriteScore(p, s) ==
  \/ /\ Stored(s) \in Column
     /\ row' = [row EXCEPT ![p].trust = Stored(s)]
     /\ UNCHANGED <<rows, budget>>
  \/ Stored(s) \notin Column /\ UNCHANGED <<registry, budget>>
  \/ Spend("faults") /\ UNCHANGED registry

-----------------------------------------------------------------------------
(* The engine's map. *)

\* The row is upserted with the peer's rounded score.
Upsert(p, peer) ==
  /\ rows' = rows \cup {p}
  /\ row' = At(row, p, [peer EXCEPT !.trust = Stored(@)])

\* A new object takes the place of the entry; a health check under way keeps
\* the old one.
Replace(p, peer) ==
  /\ known' = known \cup {p}
  /\ mem' = At(mem, p, peer)
  /\ IF p \in known /\ p \in todo \cup {checking} /\ p \notin stale
     THEN stale' = stale \cup {p} /\ old' = At(old, p, mem[p])
     ELSE UNCHANGED <<stale, old>>

\* AddPeer; the map is left alone when the INSERT fails, though it may have
\* been carried out and only its reply lost.
AddPeerUnlessKnown(p, peer) ==
  /\ Spend("adds")
  /\ Upsert(p, peer)
  /\ IF p \in known THEN UNCHANGED <<known, mem, stale, old>> ELSE Replace(p, peer)
  /\ unsure' = unsure \ {p}
  /\ UNCHANGED <<todo, checking, inbox, down>>
AddPeer(p, peer) ==
  /\ Spend("adds")
  /\ Upsert(p, peer)
  /\ Replace(p, peer)
  /\ unsure' = unsure \ {p}
  /\ UNCHANGED <<todo, checking, inbox, down>>
AddPeerReplyLost(p, peer) ==
  /\ Spend("adds")
  /\ Upsert(p, peer)
  /\ unsure' = unsure \cup {p}
  /\ UNCHANGED <<engine, health, inbox, down>>

\* loadPeers after the process ended: followed peers only.
Follow == {p \in rows : row[p].status = "FOLLOWING"}
CrashRestart ==
  /\ Spend("faults")
  /\ known' = Follow
  /\ mem' = [p \in Follow |-> row[p]]
  /\ unsure' = {}
  /\ todo' = {} /\ checking' = NoPeer
  /\ stale' = {} /\ old' = [p \in {} |-> 0]
  /\ pc' = [r \in Requests |-> "idle"]
  /\ from' = [r \in Requests |-> NoPeer]
  /\ score' = [r \in Requests |-> 0]
  /\ UNCHANGED <<registry, down>>

-----------------------------------------------------------------------------
(* The health loop. *)

\* The object the health check holds of a peer.
Held(p) == IF p \in stale THEN old[p] ELSE mem[p]

\* A tick: the pointers are copied under the lock.
CheckPeerHealth ==
  /\ todo = {} /\ checking = NoPeer
  /\ known # {}
  /\ todo' = known
  /\ UNCHANGED <<registry, engine, checking, stale, old, inbox, down, unsure, budget>>

\* The end of a check frees the objects that only it held.
Checked(p) ==
  /\ todo' = todo \ {p} /\ checking' = NoPeer
  /\ stale' = stale \ {p} /\ old' = [q \in stale \ {p} |-> old[q]]

SkipBlocked(p) ==
  /\ checking = NoPeer /\ p \in todo
  /\ Held(p).status = "BLOCKED"
  /\ Checked(p)
  /\ UNCHANGED <<registry, engine, inbox, down, unsure, budget>>

\* No request can be made for the endpoint: the loop goes on to the next peer,
\* and this one is neither penalised nor seen.
SkipUnparsable(p) ==
  /\ checking = NoPeer /\ p \in todo
  /\ Held(p).status # "BLOCKED"
  /\ Held(p).url = "unparsable"
  /\ Checked(p)
  /\ UNCHANGED <<registry, engine, inbox, down, unsure, budget>>

AskPeer(p) ==
  /\ checking = NoPeer /\ p \in todo
  /\ Held(p).status # "BLOCKED"
  /\ Held(p).url = "parsable"
  /\ todo' = todo \ {p} /\ checking' = p
  /\ UNCHANGED <<registry, engine, stale, old, inbox, down, unsure, budget>>

\* increasePeerTrust looks the entry up anew, whatever object was checked.
IncreaseUnblocks(p) ==
  /\ checking = p /\ p \notin down
  /\ Spend("healthy")
  /\ mem' = [mem EXCEPT ![p].trust = Gain(@), ![p].status = "FOLLOWING"]
  /\ Checked(p)
  /\ UNCHANGED <<registry, known, inbox, down, unsure>>
IncreaseAnyway(p) ==
  /\ checking = p
  /\ Spend("healthy")
  /\ mem' = [mem EXCEPT ![p].trust = Gain(@)]
  /\ Checked(p)
  /\ UNCHANGED <<registry, known, inbox, down, unsure>>
IncreasePeerTrust(p) ==
  /\ checking = p /\ p \notin down
  /\ Spend("healthy")
  /\ mem' = [mem EXCEPT ![p].trust = Gain(@)]
  /\ Checked(p)
  /\ UNCHANGED <<registry, known, inbox, down, unsure>>

LoweredOffline(peer) == [peer EXCEPT !.trust = Loss(@), !.status = "OFFLINE"]

\* What an unhealthy peer's object becomes: blocked when its score is low.
Lowered(peer) ==
  [peer EXCEPT !.trust = Loss(@),
               !.status = IF Loss(peer.trust) < 300 THEN "BLOCKED" ELSE @]

\* handleUnhealthyPeer writes to the object that was checked, and its score
\* to the row.
HandleUnhealthyPeer(p) ==
  /\ checking = p
  /\ WriteScore(p, Loss(Held(p).trust))
  /\ IF p \in stale THEN UNCHANGED mem
                    ELSE mem' = [mem EXCEPT ![p] = Lowered(@)]
  /\ Checked(p)
  /\ UNCHANGED <<known, inbox, down, unsure>>

-----------------------------------------------------------------------------
(* The inbox, as far as it reads and writes the registry.                   *)

\* An unknown or blocked sender is refused.
Accepted(p) == p \in rows /\ row[p].status # "BLOCKED"

\* VerifyMessage: signed with the key of the row.
Verified(p, k) == row[p].key = k

\* The sender's row is read, and the message verified with what was read.
Receive(r, p, k) ==
  /\ pc[r] = "idle" /\ Spend("messages")
  /\ Accepted(p)
  /\ pc' = [pc EXCEPT ![r] = IF Verified(p, k) THEN "valid" ELSE "invalid"]
  /\ from' = [from EXCEPT ![r] = p]
  /\ score' = [score EXCEPT ![r] = row[p].trust]
  /\ UNCHANGED <<registry, engine, health, down, unsure>>

Answer(r) ==
  /\ pc' = [pc EXCEPT ![r] = "idle"]
  /\ from' = [from EXCEPT ![r] = NoPeer]
  /\ score' = [score EXCEPT ![r] = 0]

\* An invalid signature costs a fifth of the score that was read.
Penalise(r) ==
  /\ pc[r] = "invalid"
  /\ WriteScore(from[r], Percent(score[r], 80))
  /\ Answer(r)
  /\ UNCHANGED <<engine, health, down, unsure>>

\* The feature is stored, or the message has none and is refused.
ApplyFeatureChange(r) ==
  /\ pc[r] = "valid"
  /\ pc' = [pc EXCEPT ![r] = "applied"]
  /\ UNCHANGED <<registry, engine, health, from, score, down, unsure, budget>>

RefuseFeature(r) ==
  /\ pc[r] = "valid"
  /\ Answer(r)
  /\ UNCHANGED <<registry, engine, health, down, unsure, budget>>

\* An accepted message gains its sender trust.
Reward(r) ==
  /\ pc[r] = "applied"
  /\ WriteScore(from[r], Gain(score[r]))
  /\ Answer(r)
  /\ UNCHANGED <<engine, health, down, unsure>>

\* External: a peer stops answering for good.
GoDown(p) ==
  /\ p \notin down
  /\ down' = down \cup {p}
  /\ UNCHANGED <<registry, engine, health, inbox, unsure, budget>>

-----------------------------------------------------------------------------
NewPeers == [status : Status, trust : Scores, key : Keys, url : Urls]

HealthStep ==
  \/ CheckPeerHealth
  \/ \E p \in Peers : \/ SkipBlocked(p) \/ SkipUnparsable(p) \/ AskPeer(p)
                      \/ IncreasePeerTrust(p) \/ HandleUnhealthyPeer(p)

InboxStep(r) ==
  \/ \E p \in Peers, k \in Keys : Receive(r, p, k)
  \/ Penalise(r) \/ ApplyFeatureChange(r) \/ RefuseFeature(r) \/ Reward(r)

Next ==
  \/ \E p \in Peers, peer \in NewPeers : AddPeer(p, peer) \/ AddPeerReplyLost(p, peer)
  \/ HealthStep
  \/ \E r \in Requests : InboxStep(r)
  \/ CrashRestart
  \/ \E p \in Peers : GoDown(p)

\* The ticker starts the next round, and every request has a timeout.
Fairness == WF_vars(HealthStep)

Spec     == Init /\ [][Next]_vars
FairSpec == Spec /\ Fairness

-----------------------------------------------------------------------------
(* Properties. *)

\* The table and the map agree, across concurrent AddPeers, health checks and
\* restarts: each entry has its row with the same key and endpoint and, unless
\* the health loop blocked it, the same status, and every followed peer is in
\* the map.
\* Only a peer whose INSERT's reply was lost is excepted, until it is added
\* again or the server restarts (AddPeer, loadPeers).
RegistryAgrees ==
  /\ known \subseteq rows
  /\ Follow \subseteq known \cup unsure
  /\ \A p \in known \ unsure :
       /\ mem[p].key = row[p].key /\ mem[p].url = row[p].url
       /\ mem[p].status \in {row[p].status, "BLOCKED"}

\* A blocked entry only comes back by AddPeer or a restart: no health check
\* that was under way when it was blocked revives it (increasePeerTrust).
BlockingLasts ==
  [][\A p \in known \cap known' :
       mem[p].status = "BLOCKED" /\ mem'[p].status # "BLOCKED"
         => \/ CrashRestart
            \/ \E peer \in NewPeers : AddPeer(p, peer)]_vars

\* What a step takes at least from an unblocked peer that is down: 15
\* thousandths if it ends a check of its present entry.
Toll(p) == IF checking = p /\ checking' = NoPeer /\ p \notin stale THEN 15 ELSE 0

\* A peer that no longer answers is blocked or only loses trust, in whatever
\* order checks, messages and failed updates come, until it is added anew or
\* the server restarts; each check of its present entry costs it something,
\* so that few are left to it (checkPeerHealth, increasePeerTrust,
\* handleUnhealthyPeer, whose floor of a tenth lifts blocked scores only).
DownWearsOut ==
  [][\A p \in down \cap known :
       \/ CrashRestart
       \/ \E peer \in NewPeers : AddPeer(p, peer)
       \/ /\ p \in known'
          /\ \/ mem'[p].status = "BLOCKED"
             \/ mem'[p].trust <= mem[p].trust - Toll(p)]_vars

\* A peer that no longer answers ends up blocked, or out of the map, whatever
\* its score and however it is registered anew meanwhile, unless it is
\* registered with an endpoint no request can be made for: such a peer is
\* never penalised (checkPeerHealth, handleUnhealthyPeer).
DownIsBlocked ==
  \A p \in Peers :
    (p \in down) ~> (p \in known => \/ mem[p].status = "BLOCKED"
                                     \/ mem[p].url = "unparsable")
=============================================================================
