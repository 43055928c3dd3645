----------------------------- MODULE Federation -----------------------------
(***************************************************************************)
(* Several servers that register each other: changes go from the outbox of *)
(* the server that made them to the inboxes of its peers, which store a    *)
(* copy and forward the message, still with its first sender and           *)
(* signature, to peers of their own (internal/sync/outbox.go:              *)
(* deliverToPeer, internal/api/inbox.go, internal/sync/inbox.go).          *)
(*                                                                         *)
(* The outbox of each server is taken as what it promises: its steps are   *)
(* those of DeliveryPromise.  Messages carry the key they were signed      *)
(* with; a server makes a new key pair each time it starts, and key n is   *)
(* that of its n-th process.  Copies, messages and goroutines are sets:    *)
(* how often the same message is stored again is left out.                 *)
(***************************************************************************)
EXTENDS Integers, FiniteSets

CONSTANTS
  Servers,   \* the servers
  Changes,   \* the changes made; bounds their number
  Origin,    \* the server that makes each change
  NoRow,     \* what a registry says of a server it does not know
  MaxKey,    \* bounds the processes, and so the keys, of a server
  MaxAdds,   \* bounds calls of AddPeer
  MaxFaults  \* bounds lost messages, restarts, and blocks by the health loop

Keys    == 1 .. MaxKey
Status  == {"FOLLOWING", "BLOCKED", "PENDING"}
Row     == [status : Status, key : Keys]

ASSUME FederationAssumption ==
  /\ Origin \in [Changes -> Servers]
  /\ MaxKey \in Nat \ {0}
  /\ MaxAdds \in Nat
  /\ MaxFaults \in Nat
  /\ NoRow \notin Row

VARIABLES
  key,       \* the key of each server's process
  row,       \* peer_registry of each server: status and key of each peer
  mem,       \* SyncEngine.peers of each server: status of each peer
  phase, audience, reached,  \* the outboxes, as in DeliveryPromise
  deletes,   \* changes that are deletions
  tried,     \* pairs <<change, peer>> the outbox has tried to deliver
  failing,   \* changes with a delivery that failed
  tasks,     \* goroutines of PropagateToOtherPeers: server, change, key
  net,       \* forwarded messages under way
  held,      \* copies stored: server, change, key of the message
  told,      \* history: the keys each server was ever told of each other
  born,      \* history: the key of the origin when a change was made
  since,     \* history: what was left of the bounds at that time
  adds, faults  \* what is left of each bound

registry == <<row, mem, told>>
outbox   == <<phase, audience, reached, deletes, tried, failing, born, since>>
inbox    == <<tasks, net, held>>
vars     == <<key, registry, outbox, inbox, adds, faults>>

Promise == INSTANCE DeliveryPromise WITH Rows <- Changes, Peers <- Servers

Copy    == Servers \X Changes \X Keys
Message == [via : Servers, to : Servers, change : Changes, key : Keys]

TypeOK ==
  /\ key \in [Servers -> Keys]
  /\ row \in [Servers -> [Servers -> Row \cup {NoRow}]]
  /\ mem \in [Servers -> [Servers -> Status \cup {"absent"}]]
  /\ told \in [Servers -> [Servers -> SUBSET Keys]]
  /\ phase \in [Changes -> {"none", "open", "gaveUp", "closed"}]
  /\ audience \in [Changes -> SUBSET Servers]
  /\ reached \in SUBSET (Changes \X Servers)
  /\ deletes \in SUBSET Changes
  /\ tried \in SUBSET (Changes \X Servers)
  /\ failing \in SUBSET Changes
  /\ born \in [Changes -> Keys]
  /\ since \in [Changes -> (0 .. MaxAdds) \X (0 .. MaxFaults)]
  /\ tasks \in SUBSET Copy
  /\ net \in SUBSET Message
  /\ held \in SUBSET Copy
  /\ adds \in 0 .. MaxAdds /\ faults \in 0 .. MaxFaults

LoadedOffline(r) ==
  [p \in Servers |-> CASE r[p] = NoRow -> "absent"
                       [] r[p] # NoRow /\ r[p].status = "FOLLOWING" -> "FOLLOWING"
                       [] OTHER -> "OFFLINE"]

\* loadPeers: the peers a registry says are followed.
Loaded(r) ==
  [p \in Servers |-> IF r[p] # NoRow /\ r[p].status = "FOLLOWING"
                     THEN "FOLLOWING" ELSE "absent"]

\* All servers have started, and some have registered some (themselves
\* included) with the key of their manifest.
Init ==
  /\ key = [s \in Servers |-> 1]
  /\ row \in [Servers -> [Servers -> {NoRow, [status |-> "FOLLOWING", key |-> 1]}]]
  /\ mem = [s \in Servers |-> Loaded(row[s])]
  /\ told = [s \in Servers |-> [p \in Servers |-> IF row[s][p] = NoRow THEN {} ELSE {1}]]
  /\ Promise!Init
  /\ deletes = {} /\ tried = {} /\ failing = {}
  /\ born = [c \in Changes |-> 1]
  /\ since = [c \in Changes |-> <<MaxAdds, MaxFaults>>]
  /\ tasks = {} /\ net = {} /\ held = {}
  /\ adds = MaxAdds /\ faults = MaxFaults

Fault == faults > 0 /\ faults' = faults - 1

-----------------------------------------------------------------------------
(* The inbox. *)

\* Sign and Verify of the process's key pair and of the key of a row.
Sign(s) == key[s]
Verify(s, o, k) == row[s][o].key = k

\* HandleInbox takes a message of server o signed with key k: o is in the
\* registry and not blocked there, and the key is that of its row.
AcceptsAnyKey(s, o, k) == row[s][o] # NoRow /\ row[s][o].status # "BLOCKED"
Accepts(s, o, k) ==
  /\ row[s][o] # NoRow
  /\ row[s][o].status # "BLOCKED"
  /\ Verify(s, o, k)

\* ApplyFeatureChange: a Delete carries no geometry and is an error.
Applies(c) == c \notin deletes

Takes(s, c, k) == Accepts(s, Origin[c], k) /\ Applies(c)

StoresOnly(s, c, k) ==
  /\ Takes(s, c, k)
  /\ held' = held \cup {<<s, c, k>>}
  /\ UNCHANGED tasks

AnswersFirst(s, c, k) ==
  /\ Accepts(s, Origin[c], k)
  /\ held' = IF Applies(c) THEN held \cup {<<s, c, k>>} ELSE held
  /\ UNCHANGED tasks

\* The copy is stored, and a goroutine started that will forward it.
HandleInbox(s, c, k) ==
  /\ Takes(s, c, k)
  /\ held' = held \cup {<<s, c, k>>}
  /\ tasks' = tasks \cup {<<s, c, k>>}

\* The message goes to all peers of the map but its first sender and blocked
\* ones.
Targets(s, c) ==
  {p \in Servers : mem[s][p] \notin {"absent", "BLOCKED"} /\ p # Origin[c]}

PropagateToOtherPeers(s, c, k) ==
  /\ <<s, c, k>> \in tasks
  /\ tasks' = tasks \ {<<s, c, k>>}
  /\ net' = net \cup {[via |-> s, to |-> p, change |-> c, key |-> k] : p \in Targets(s, c)}
  /\ UNCHANGED <<key, registry, outbox, held, adds, faults>>

\* A forwarded message arrives.  Its answer is only logged, so a refused one
\* is gone.
ReceiveForwarded(m) ==
  /\ m \in net
  /\ HandleInbox(m.to, m.change, m.key)
  /\ net' = net \ {m}
  /\ UNCHANGED <<key, registry, outbox, adds, faults>>

RefuseButForward(m) ==
  /\ m \in net
  /\ ~Takes(m.to, m.change, m.key)
  /\ net' = net \ {m}
  /\ tasks' = tasks \cup {<<m.to, m.change, m.key>>}
  /\ UNCHANGED <<key, registry, outbox, held, adds, faults>>

RefuseForwarded(m) ==
  /\ m \in net
  /\ ~Takes(m.to, m.change, m.key)
  /\ net' = net \ {m}
  /\ UNCHANGED <<key, registry, outbox, tasks, held, adds, faults>>

LoseForwarded(m) ==
  /\ m \in net /\ Fault
  /\ net' = net \ {m}
  /\ UNCHANGED <<key, registry, outbox, tasks, held, adds>>

-----------------------------------------------------------------------------
(* The outbox. *)

Known(s) == {p \in Servers : mem[s][p] # "absent"}

OnFeatureChange(c, deletion) ==
  /\ Promise!Submit(c, Known(Origin[c]))
  /\ deletes' = IF deletion THEN deletes \cup {c} ELSE deletes
  /\ born' = [born EXCEPT ![c] = key[Origin[c]]]
  /\ since' = [since EXCEPT ![c] = <<adds, faults>>]
  /\ UNCHANGED <<key, registry, tried, failing, inbox, adds, faults>>

Try(c, p) ==
  /\ phase[c] = "open" /\ p \in Known(Origin[c])
  /\ tried' = tried \cup {<<c, p>>}

\* deliverToPeer signs a message anew at each delivery, with the key of the
\* process that sends it.
DeliverToPeer(c, p) ==
  /\ Try(c, p)
  /\ Promise!Reach(c, p)
  /\ HandleInbox(p, c, Sign(Origin[c]))
  /\ UNCHANGED <<key, registry, deletes, born, since, net, adds>>
  /\ \/ UNCHANGED <<failing, faults>>
     \/ Fault /\ failing' = failing \cup {c} \* the reply is lost

\* The peer's inbox refuses, or the message is lost.
DeliveryFails(c, p) ==
  /\ Try(c, p)
  /\ \/ ~Takes(p, c, Sign(Origin[c])) /\ UNCHANGED faults
     \/ Fault
  /\ failing' = failing \cup {c}
  /\ UNCHANGED <<key, registry, phase, audience, reached, deletes, born, since, inbox, adds>>

\* The row stays PROCESSING after a round without failures.
Close(c) ==
  /\ Promise!Close(c)
  /\ UNCHANGED <<key, registry, deletes, born, since, tried, failing, inbox, adds, faults>>

GiveUpAtFirstFailure(c) ==
  /\ c \in failing
  /\ Promise!GiveUp(c)
  /\ UNCHANGED <<key, registry, deletes, born, since, tried, failing, inbox, adds, faults>>

\* The row is FAILED, for the last time, after MaxRetries failures of one
\* peer.  There are more retries than workers, so one of them is on its
\* second round by then and every peer has been tried.
GiveUp(c) ==
  /\ c \in failing
  /\ \A p \in audience[c] : <<c, p>> \in tried
  /\ Promise!GiveUp(c)
  /\ UNCHANGED <<key, registry, deletes, born, since, tried, failing, inbox, adds, faults>>

-----------------------------------------------------------------------------
(* The registries, and the processes. *)

\* The manifest shows the key; HTTP clients may cache it for an hour, so what
\* they see may be from an earlier process.
GetManifest(p) == key[p]
CachedManifest(p) == 1 .. GetManifest(p)

\* AddPeer, with a key taken from the peer's manifest.
AddPeer(s, p, r) ==
  /\ adds > 0 /\ adds' = adds - 1
  /\ r.key \in CachedManifest(p)
  /\ row' = [row EXCEPT ![s][p] = r]
  /\ mem' = [mem EXCEPT ![s][p] = r.status]
  /\ told' = [told EXCEPT ![s][p] = @ \cup {r.key}]
  /\ UNCHANGED <<key, outbox, inbox, faults>>

\* handleUnhealthyPeer blocks a peer, in the map alone.
Block(s, p) ==
  /\ mem[s][p] \notin {"absent", "BLOCKED"}
  /\ Fault
  /\ mem' = [mem EXCEPT ![s][p] = "BLOCKED"]
  /\ UNCHANGED <<key, row, told, outbox, inbox, adds>>

\* A server stops and starts again: NewSigner makes a key pair, loadPeers
\* reads the table.  Goroutines are gone; messages sent may still arrive.
\* Rows may be left in PROCESSING, where they are not read again, or be
\* PENDING still.
OfServer(s) == {c \in Changes : Origin[c] = s /\ phase[c] = "open"}
Restart(s) ==
  /\ Fault /\ key[s] < MaxKey
  /\ key' = [key EXCEPT ![s] = @ + 1]
  /\ mem' = [mem EXCEPT ![s] = Loaded(row[s])]
  /\ tasks' = {t \in tasks : t[1] # s}
  /\ tried' = tried \cup (OfServer(s) \X Servers)
  /\ failing' = failing \cup OfServer(s)
  /\ UNCHANGED <<row, told, phase, audience, reached, deletes, born, since, net, held, adds>>

-----------------------------------------------------------------------------
OutboxStep ==
  \E c \in Changes :
    \/ \E deletion \in BOOLEAN : OnFeatureChange(c, deletion)
    \/ \E p \in Servers : DeliverToPeer(c, p) \/ DeliveryFails(c, p)
    \/ Close(c) \/ GiveUp(c)

Next ==
  \/ OutboxStep
  \/ \E s \in Servers, c \in Changes, k \in Keys : PropagateToOtherPeers(s, c, k)
  \/ \E m \in net : ReceiveForwarded(m) \/ RefuseForwarded(m) \/ LoseForwarded(m)
  \/ \E s, p \in Servers, r \in Row : AddPeer(s, p, r)
  \/ \E s, p \in Servers : Block(s, p)
  \/ \E s \in Servers : Restart(s)

FirstTry(c) ==
  \E p \in Servers :
    <<c, p>> \notin tried /\ (DeliverToPeer(c, p) \/ DeliveryFails(c, p))
Arrival(s, p) ==
  \E m \in net : m.via = s /\ m.to = p /\ (ReceiveForwarded(m) \/ RefuseForwarded(m))

\* The outbox tries every peer and ends with every row; goroutines run on,
\* and requests end.
Fairness ==
  /\ \A c \in Changes : WF_vars(FirstTry(c)) /\ WF_vars(Close(c) \/ GiveUp(c))
  /\ \A s \in Servers :
       /\ WF_vars(\E c \in Changes, k \in Keys : PropagateToOtherPeers(s, c, k))
       /\ \A p \in Servers : WF_vars(Arrival(s, p))

Spec     == Init /\ [][Next]_vars
FairSpec == Spec /\ Fairness

-----------------------------------------------------------------------------
(* Properties. *)

\* A copy, wherever it came from and however many servers passed it on, is of
\* a change that was made, and was signed by a process of its origin that was
\* running at that time or later and whose key the holder had been told; and
\* only holders pass messages on (HandleInbox, PropagateToOtherPeers).
Vouched ==
  /\ \A h \in held :
       /\ phase[h[2]] # "none" /\ Applies(h[2])
       /\ h[3] \in told[h[1]][Origin[h[2]]]
       /\ born[h[2]] <= h[3] /\ h[3] <= key[Origin[h[2]]]
  /\ tasks \subseteq held
  /\ \A m \in net : <<m.via, m.change, m.key>> \in held

\* What an outbox has closed is stored at every server that was in its map at
\* the time of the change, whatever was lost, blocked, registered anew or
\* restarted on either side: a reply counts only for a message that was
\* verified and applied (deliverToPeer, deliverToAllPeers, HandleInbox).
ClosedIsStored ==
  \A c \in Changes :
    phase[c] = "closed"
      => \A p \in audience[c] : \E k \in Keys : <<p, c, k>> \in held

\* Does server a pass messages of c on to server b, which takes them?
Passes(a, b, c, k) == b \in Targets(a, c) /\ Takes(b, c, k)

\* Servers other than the origin that pass messages of c round in a circle.
Circle(c) ==
  \E S \in SUBSET (Servers \ {Origin[c]}), k \in Keys :
    /\ S # {}
    /\ \A a \in S : \E b \in S : Passes(a, b, c, k)

Quiet(c) ==
  /\ \A t \in tasks : t[2] # c
  /\ \A m \in net : m.change # c

\* Forwarding ends, though servers do not recognise a message they have seen,
\* unless the registries and maps keep a circle of servers that pass it on
\* for ever (PropagateToOtherPeers).
TrafficEnds ==
  \A c \in Changes : <>[]~Circle(c) => <>[]Quiet(c)

\* The servers a change gets to: peers of its origin that take it, and from
\* there on those that servers it got to pass it on to.
GetsTo(c) ==
  LET k == Sign(Origin[c])
      first == {p \in audience[c] : Takes(p, c, k)}
  IN  {s \in Servers :
         \A S \in SUBSET Servers :
           /\ first \subseteq S
           /\ \A a \in S, b \in Servers : Passes(a, b, c, k) => b \in S
           => s \in S}

\* Nothing was lost, blocked, registered or restarted since c was made.
Undisturbed(c) == since[c] = <<adds, faults>>

\* When the outbox is done with a change, by closing or by giving up, and no
\* server has a message of it left to pass on, then, if nothing disturbed it,
\* the servers that hold it are exactly those it gets to: a peer that refuses
\* it costs no other server its copy (deliverToAllPeers, HandleInbox,
\* PropagateToOtherPeers).
SpreadWhenQuiet ==
  \A c \in Changes :
    Undisturbed(c) /\ phase[c] \in {"closed", "gaveUp"} /\ Quiet(c)
      => {s \in Servers : \E k \in Keys : <<s, c, k>> \in held} = GetsTo(c)

\* While registries stay as they are and nothing is lost or restarted, a
\* change ends up at all servers it can get to, those included that were told
\* of a restarted origin's new key before, and also when the outbox gives it
\* up because a peer refuses it (deliverToAllPeers, PropagateToOtherPeers).
EventuallySpread ==
  \A c \in Changes, s \in Servers :
    (phase[c] = "open" /\ Undisturbed(c) /\ s \in GetsTo(c))
      ~> (~Undisturbed(c) \/ \E k \in Keys : <<s, c, k>> \in held)
=============================================================================
