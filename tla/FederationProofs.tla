-------------------------- MODULE FederationProofs --------------------------
(***************************************************************************)
(* Proofs about Federation, for any servers, changes, registries and       *)
(* bounds: the types, that every copy and message is vouched for, that a   *)
(* closed change is stored wherever it was to go, and that an undisturbed  *)
(* one ends up exactly where chains of peers lead to.                      *)
(***************************************************************************)
EXTENDS Federation, TLAPS

\* A row's key is one its server was told, and those are keys its peer has
\* had; a change was made by a process of its origin.
Told ==
  /\ \A s, p \in Servers :
       /\ row[s][p] # NoRow => row[s][p].key \in told[s][p]
       /\ \A k \in told[s][p] : k <= key[p]
  /\ \A c \in Changes : born[c] <= key[Origin[c]]

\* The inductive invariant.
FedInv == TypeOK /\ Told /\ Vouched

USE DEF registry, outbox, inbox, Keys, Status, Copy

\* loadPeers yields a map.
LEMMA LoadedType ==
  ASSUME NEW r \in [Servers -> Row \cup {NoRow}]
  PROVE  Loaded(r) \in [Servers -> Status \cup {"absent"}]
BY DEF Loaded

-----------------------------------------------------------------------------
(* Types. *)

\* Servers start well typed.
LEMMA TypeInit == Init => TypeOK
<1> SUFFICES ASSUME Init PROVE TypeOK
  OBVIOUS
<1> USE FederationAssumption
<1>1. row \in [Servers -> [Servers -> Row \cup {NoRow}]]
  BY DEF Init, Row
<1>2. mem \in [Servers -> [Servers -> Status \cup {"absent"}]]
  BY <1>1, LoadedType DEF Init
<1>3. told \in [Servers -> [Servers -> SUBSET Keys]]
  BY DEF Init
<1> QED BY <1>1, <1>2, <1>3 DEF Init, TypeOK, Promise!Init

\* The inbox and the forwarding keep the types.
LEMMA TypeInbox ==
  ASSUME TypeOK
  PROVE  /\ \A s \in Servers, c \in Changes, k \in Keys :
              PropagateToOtherPeers(s, c, k) => TypeOK'
         /\ \A m \in net : ReceiveForwarded(m) \/ RefuseForwarded(m) \/ LoseForwarded(m)
              => TypeOK'
<1> USE FederationAssumption
<1>1. ASSUME NEW s \in Servers, NEW c \in Changes, NEW k \in Keys,
             PropagateToOtherPeers(s, c, k)
      PROVE  TypeOK'
  BY <1>1 DEF PropagateToOtherPeers, TypeOK, Targets, Message
<1>2. ASSUME NEW m \in net, ReceiveForwarded(m) \/ RefuseForwarded(m) \/ LoseForwarded(m)
      PROVE  TypeOK'
  BY <1>2 DEF ReceiveForwarded, RefuseForwarded, LoseForwarded, HandleInbox, Fault, TypeOK,
              Message
<1> QED BY <1>1, <1>2

\* So does the outbox.
LEMMA TypeOutbox ==
  ASSUME TypeOK, OutboxStep
  PROVE  TypeOK'
<1> USE FederationAssumption DEF TypeOK
<1>1. ASSUME NEW c \in Changes, NEW d \in BOOLEAN, OnFeatureChange(c, d)
      PROVE  TypeOK'
  BY <1>1 DEF OnFeatureChange, Promise!Submit, Known
<1>2. ASSUME NEW c \in Changes, NEW p \in Servers, DeliverToPeer(c, p)
      PROVE  TypeOK'
  BY <1>2 DEF DeliverToPeer, Try, Promise!Reach, HandleInbox, Sign, Fault
<1>3. ASSUME NEW c \in Changes, NEW p \in Servers, DeliveryFails(c, p)
      PROVE  TypeOK'
  BY <1>3 DEF DeliveryFails, Try, Fault
<1>4. ASSUME NEW c \in Changes, Close(c) \/ GiveUp(c)
      PROVE  TypeOK'
  BY <1>4 DEF Close, GiveUp, Promise!Close, Promise!GiveUp
<1> QED BY <1>1, <1>2, <1>3, <1>4 DEF OutboxStep

\* So do registrations, blocks and restarts.
LEMMA TypeServers ==
  ASSUME TypeOK
  PROVE  /\ \A s, p \in Servers, r \in Row : AddPeer(s, p, r) => TypeOK'
         /\ \A s, p \in Servers : Block(s, p) => TypeOK'
         /\ \A s \in Servers : Restart(s) => TypeOK'
<1> USE FederationAssumption DEF TypeOK
<1>1. ASSUME NEW s \in Servers, NEW p \in Servers, NEW r \in Row, AddPeer(s, p, r)
      PROVE  TypeOK'
  BY <1>1 DEF AddPeer, Row
<1>2. ASSUME NEW s \in Servers, NEW p \in Servers, Block(s, p)
      PROVE  TypeOK'
  BY <1>2 DEF Block, Fault
<1>3. ASSUME NEW s \in Servers, Restart(s)
      PROVE  TypeOK'
  <2>1. mem' \in [Servers -> [Servers -> Status \cup {"absent"}]]
    BY <1>3, LoadedType DEF Restart
  <2>2. key' \in [Servers -> Keys]
    BY <1>3 DEF Restart
  <2> QED BY <1>3, <2>1, <2>2 DEF Restart, Fault, OfServer
<1> QED BY <1>1, <1>2, <1>3

\* Every step keeps the types.
LEMMA TypeStep ==
  ASSUME TypeOK, [Next]_vars
  PROVE  TypeOK'
<1>1. CASE Next
  BY <1>1, TypeInbox, TypeOutbox, TypeServers DEF Next
<1>2. CASE UNCHANGED vars
  BY <1>2 DEF vars, TypeOK
<1> QED BY <1>1, <1>2

\* Every variable keeps its type (Federation).
THEOREM FederationTyped == Spec => []TypeOK
<1> QED BY TypeInit, TypeStep, PTL DEF Spec

-----------------------------------------------------------------------------
(* Copies and messages. *)

\* At first nothing is stored or under way.
LEMMA VouchedInit == Init => Told /\ Vouched
<1> SUFFICES ASSUME Init PROVE Told /\ Vouched
  OBVIOUS
<1> USE FederationAssumption
<1>1. ASSUME NEW s \in Servers, NEW p \in Servers
      PROVE  /\ row[s][p] # NoRow => row[s][p].key \in told[s][p]
             /\ \A k \in told[s][p] : k <= key[p]
  BY DEF Init
<1>2. \A c \in Changes : born[c] <= key[Origin[c]]
  BY DEF Init
<1> QED BY <1>1, <1>2 DEF Init, Told, Vouched

\* What the inbox takes is vouched for, if the change was made, by a process
\* not younger than the one that signed the message.
LEMMA TakenIsVouched ==
  ASSUME FedInv, NEW s \in Servers, NEW c \in Changes, NEW k \in Keys,
         HandleInbox(s, c, k), UNCHANGED <<key, registry, phase, deletes, born>>,
         phase[c] # "none", born[c] <= k
  PROVE  /\ Told'
         /\ \A h \in held' :
              /\ phase'[h[2]] # "none" /\ Applies(h[2])'
              /\ h[3] \in told'[h[1]][Origin[h[2]]]
              /\ born'[h[2]] <= h[3] /\ h[3] <= key'[Origin[h[2]]]
         /\ tasks' \subseteq held' /\ held \subseteq held'
<1> USE FederationAssumption DEF FedInv
<1>1. Told'
  BY DEF Told
<1>2. k \in told[s][Origin[c]]
  BY DEF Told, HandleInbox, Takes, Accepts, Verify
<1>3. k <= key[Origin[c]]
  BY <1>2 DEF Told
<1>4. ASSUME NEW h \in held'
      PROVE  /\ phase'[h[2]] # "none" /\ Applies(h[2])'
             /\ h[3] \in told'[h[1]][Origin[h[2]]]
             /\ born'[h[2]] <= h[3] /\ h[3] <= key'[Origin[h[2]]]
  <2>1. CASE h = <<s, c, k>>
    BY <1>2, <1>3, <2>1 DEF HandleInbox, Takes, Applies
  <2>2. CASE h \in held
    BY <2>2 DEF Vouched, Applies
  <2> QED BY <2>1, <2>2 DEF HandleInbox
<1>5. tasks' \subseteq held' /\ held \subseteq held'
  BY DEF HandleInbox, Vouched
<1> QED BY <1>1, <1>4, <1>5

\* The inbox and the forwarding only pass on what is stored.
LEMMA VouchedInbox ==
  ASSUME FedInv
  PROVE  /\ \A s \in Servers, c \in Changes, k \in Keys :
              PropagateToOtherPeers(s, c, k) => (Told /\ Vouched)'
         /\ \A m \in net : ReceiveForwarded(m) \/ RefuseForwarded(m) \/ LoseForwarded(m)
              => (Told /\ Vouched)'
<1> USE FederationAssumption
<1>1. ASSUME NEW s \in Servers, NEW c \in Changes, NEW k \in Keys,
             PropagateToOtherPeers(s, c, k)
      PROVE  (Told /\ Vouched)'
  <2>1. <<s, c, k>> \in held /\ held' = held
    BY <1>1 DEF PropagateToOtherPeers, FedInv, Vouched
  <2>2. \A m \in net' : <<m.via, m.change, m.key>> \in held'
    <3> TAKE m \in net'
    <3>1. CASE m \in net
      BY <2>1, <3>1 DEF FedInv, Vouched
    <3>2. CASE m \notin net
      <4>1. PICK p \in Targets(s, c) : m = [via |-> s, to |-> p, change |-> c, key |-> k]
        BY <1>1, <3>2 DEF PropagateToOtherPeers
      <4> QED BY <2>1, <4>1
    <3> QED BY <3>1, <3>2
  <2> QED BY <1>1, <2>2 DEF PropagateToOtherPeers, FedInv, Told, Vouched, Applies
<1>2. ASSUME NEW m \in net, ReceiveForwarded(m)
      PROVE  (Told /\ Vouched)'
  <2>1. m \in Message /\ <<m.via, m.change, m.key>> \in held
    BY DEF FedInv, TypeOK, Vouched
  <2>2. /\ m.to \in Servers /\ m.change \in Changes /\ m.key \in Keys
        /\ phase[m.change] # "none" /\ born[m.change] <= m.key
    BY <2>1 DEF FedInv, Vouched, Message
  <2>3. HandleInbox(m.to, m.change, m.key) /\ UNCHANGED <<key, registry, phase, deletes, born>>
    BY <1>2 DEF ReceiveForwarded
  <2>4. \A n \in net' : n \in net
    BY <1>2 DEF ReceiveForwarded
  <2> HIDE DEF Keys
  <2>5. /\ Told' /\ held \subseteq held' /\ tasks' \subseteq held'
        /\ \A h \in held' :
              /\ phase'[h[2]] # "none" /\ Applies(h[2])'
              /\ h[3] \in told'[h[1]][Origin[h[2]]]
              /\ born'[h[2]] <= h[3] /\ h[3] <= key'[Origin[h[2]]]
    BY <2>2, <2>3, TakenIsVouched
  <2> QED BY <2>4, <2>5 DEF FedInv, Vouched
<1>3. ASSUME NEW m \in net, RefuseForwarded(m) \/ LoseForwarded(m)
      PROVE  (Told /\ Vouched)'
  BY <1>3 DEF RefuseForwarded, LoseForwarded, Fault, FedInv, Told, Vouched, Applies
<1> QED BY <1>1, <1>2, <1>3

\* A change is made once, and its deliveries are signed by the process that
\* made it or a later one.
LEMMA VouchedOutbox ==
  ASSUME FedInv, OutboxStep
  PROVE  (Told /\ Vouched)'
<1> USE FederationAssumption
<1>1. ASSUME NEW c \in Changes, NEW d \in BOOLEAN, OnFeatureChange(c, d)
      PROVE  (Told /\ Vouched)'
  <2>1. phase[c] = "none" /\ phase' = [phase EXCEPT ![c] = "open"]
    BY <1>1 DEF OnFeatureChange, Promise!Submit
  <2>2. ASSUME NEW h \in held
        PROVE  /\ h[2] # c /\ h[2] \in Changes
               /\ phase'[h[2]] = phase[h[2]] /\ born'[h[2]] = born[h[2]]
               /\ Applies(h[2])' <=> Applies(h[2])
    BY <1>1, <2>1 DEF OnFeatureChange, FedInv, TypeOK, Vouched, Applies
  <2>3. Told'
    BY <1>1 DEF OnFeatureChange, FedInv, TypeOK, Told
  <2> QED BY <1>1, <2>2, <2>3 DEF OnFeatureChange, FedInv, Vouched
<1>2. ASSUME NEW c \in Changes, NEW p \in Servers, DeliverToPeer(c, p)
      PROVE  (Told /\ Vouched)'
  <2>1. /\ Sign(Origin[c]) \in Keys /\ phase[c] # "none" /\ born[c] <= Sign(Origin[c])
        /\ HandleInbox(p, c, Sign(Origin[c]))
        /\ UNCHANGED <<key, registry, phase, deletes, born>>
    BY <1>2 DEF DeliverToPeer, Try, Promise!Reach, Sign, FedInv, TypeOK, Told
  <2>2. /\ Told' /\ held \subseteq held' /\ tasks' \subseteq held'
        /\ \A h \in held' :
              /\ phase'[h[2]] # "none" /\ Applies(h[2])'
              /\ h[3] \in told'[h[1]][Origin[h[2]]]
              /\ born'[h[2]] <= h[3] /\ h[3] <= key'[Origin[h[2]]]
    BY <2>1, TakenIsVouched
  <2>3. net' = net
    BY <1>2 DEF DeliverToPeer
  <2> QED BY <2>2, <2>3 DEF FedInv, Vouched
<1>3. ASSUME NEW c \in Changes, NEW p \in Servers, DeliveryFails(c, p)
      PROVE  (Told /\ Vouched)'
  BY <1>3 DEF DeliveryFails, FedInv, Told, Vouched, Applies
<1>4. ASSUME NEW c \in Changes, Close(c) \/ GiveUp(c)
      PROVE  (Told /\ Vouched)'
  <2>1. \A e \in Changes : phase[e] # "none" => phase'[e] # "none"
    BY <1>4 DEF Close, GiveUp, Promise!Close, Promise!GiveUp, FedInv, TypeOK
  <2> QED BY <1>4, <2>1 DEF Close, GiveUp, Promise!Close, Promise!GiveUp, FedInv, TypeOK,
                          Told, Vouched, Applies
<1> QED BY <1>1, <1>2, <1>3, <1>4 DEF OutboxStep

\* Servers are told more keys, and have more, as time goes on.
LEMMA VouchedServers ==
  ASSUME FedInv
  PROVE  /\ \A s, p \in Servers, r \in Row : AddPeer(s, p, r) => (Told /\ Vouched)'
         /\ \A s, p \in Servers : Block(s, p) => (Told /\ Vouched)'
         /\ \A s \in Servers : Restart(s) => (Told /\ Vouched)'
<1> USE FederationAssumption
<1>1. ASSUME NEW s \in Servers, NEW p \in Servers, NEW r \in Row, AddPeer(s, p, r)
      PROVE  (Told /\ Vouched)'
  <2>1. \A q, o \in Servers : told[q][o] \subseteq told'[q][o]
    BY <1>1 DEF AddPeer, FedInv, TypeOK
  <2>2. Told'
    BY <1>1 DEF AddPeer, CachedManifest, GetManifest, FedInv, TypeOK, Told, Row
  <2> QED BY <1>1, <2>1, <2>2 DEF AddPeer, FedInv, TypeOK, Vouched, Applies
<1>2. ASSUME NEW s \in Servers, NEW p \in Servers, Block(s, p)
      PROVE  (Told /\ Vouched)'
  BY <1>2 DEF Block, FedInv, Told, Vouched, Applies
<1>3. ASSUME NEW s \in Servers, Restart(s)
      PROVE  (Told /\ Vouched)'
  <2>1. \A q \in Servers : key'[q] \in Keys /\ key[q] <= key'[q]
    BY <1>3, TypeServers DEF Restart, FedInv, TypeOK
  <2>2. Told'
    BY <1>3, <2>1 DEF Restart, FedInv, TypeOK, Told
  <2>3. /\ UNCHANGED <<told, phase, deletes, born, net, held>> /\ tasks' \subseteq tasks
    BY <1>3 DEF Restart
  <2> QED BY <2>1, <2>2, <2>3 DEF FedInv, TypeOK, Vouched, Applies
<1> QED BY <1>1, <1>2, <1>3

\* Every step keeps the invariant.
LEMMA FedStep ==
  ASSUME FedInv, [Next]_vars
  PROVE  FedInv'
<1>1. TypeOK'
  BY TypeStep DEF FedInv
<1>2. CASE Next
  BY <1>1, <1>2, VouchedInbox, VouchedOutbox, VouchedServers DEF Next, FedInv
<1>3. CASE UNCHANGED vars
  BY <1>1, <1>3 DEF vars, FedInv, Told, Vouched, Applies
<1> QED BY <1>2, <1>3

\* Copies and messages, however often they were passed on, are of changes that
\* were made, signed with a key their holder was told (HandleInbox,
\* PropagateToOtherPeers).
THEOREM AllVouched == Spec => []Vouched
<1>1. Init => FedInv
  BY TypeInit, VouchedInit DEF FedInv
<1>2. FedInv => Vouched
  BY DEF FedInv
<1> QED BY <1>1, <1>2, FedStep, PTL DEF Spec

-----------------------------------------------------------------------------
(* What a closed change has reached. *)

\* A message counts as delivered where it is stored, and an outbox closes a
\* change when it is delivered to all it was made for.
Delivered ==
  /\ \A c \in Changes, p \in Servers :
       <<c, p>> \in reached => \E k \in Keys : <<p, c, k>> \in held
  /\ \A c \in Changes :
       phase[c] = "closed" => \A p \in audience[c] : <<c, p>> \in reached

\* The outbox keeps both, since nobody joins the audience of an old change.
LEMMA DeliveredOutbox ==
  ASSUME FedInv, Delivered, OutboxStep
  PROVE  Delivered'
<1> HIDE DEF Keys
<1> USE DEF FedInv, TypeOK
<1>1. ASSUME NEW c \in Changes, NEW d \in BOOLEAN, OnFeatureChange(c, d)
      PROVE  Delivered'
  BY <1>1 DEF OnFeatureChange, Promise!Submit, Delivered
<1>2. ASSUME NEW c \in Changes, NEW p \in Servers, DeliverToPeer(c, p)
      PROVE  Delivered'
  <2>1. /\ reached' = reached \cup {<<c, p>>} /\ UNCHANGED <<phase, audience>>
        /\ held' = held \cup {<<p, c, Sign(Origin[c])>>}
    BY <1>2 DEF DeliverToPeer, Promise!Reach, HandleInbox
  <2>2. Sign(Origin[c]) \in Keys
    BY FederationAssumption DEF Sign
  <2>3. <<p, c, Sign(Origin[c])>> \in held' /\ held \subseteq held'
    BY <2>1
  <2>4. ASSUME NEW e \in Changes, NEW q \in Servers, <<e, q>> \in reached'
        PROVE  \E k \in Keys : <<q, e, k>> \in held'
    <3>1. CASE <<e, q>> \in reached
      BY <2>3, <3>1 DEF Delivered
    <3>2. CASE <<e, q>> = <<c, p>>
      BY <2>2, <2>3, <3>2
    <3> QED BY <2>1, <2>4, <3>1, <3>2
  <2> QED BY <2>1, <2>4 DEF Delivered
<1>3. ASSUME NEW c \in Changes, NEW p \in Servers, DeliveryFails(c, p)
      PROVE  Delivered'
  BY <1>3 DEF DeliveryFails, Delivered
<1>4. ASSUME NEW c \in Changes, Close(c) \/ GiveUp(c)
      PROVE  Delivered'
  BY <1>4 DEF Close, GiveUp, Promise!Close, Promise!GiveUp, Delivered
<1> QED BY <1>1, <1>2, <1>3, <1>4 DEF OutboxStep

\* Nothing else takes copies away or closes changes.
LEMMA DeliveredStep ==
  ASSUME FedInv, Delivered, [Next]_vars
  PROVE  Delivered'
<1>1. CASE OutboxStep
  BY <1>1, DeliveredOutbox
<1>2. CASE ~OutboxStep
  <2>1. UNCHANGED <<phase, audience, reached>> /\ held \subseteq held'
    BY <1>2 DEF Next, PropagateToOtherPeers, ReceiveForwarded, HandleInbox, RefuseForwarded,
         LoseForwarded, AddPeer, Block, Restart, vars
  <2> HIDE DEF Keys
  <2> QED BY <2>1 DEF Delivered
<1> QED BY <1>1, <1>2

\* What an outbox has closed is stored wherever it was to go, whatever was
\* lost, blocked or restarted (deliverToPeer, deliverToAllPeers, HandleInbox).
THEOREM ClosedStored == Spec => []ClosedIsStored
<1>1. Init => FedInv /\ Delivered
  BY TypeInit, VouchedInit DEF FedInv, Init, Promise!Init, Delivered
<1>2. FedInv /\ Delivered /\ [Next]_vars => FedInv' /\ Delivered'
  BY FedStep, DeliveredStep
<1>3. FedInv /\ Delivered => ClosedIsStored
  BY DEF FedInv, TypeOK, Delivered, ClosedIsStored
<1> QED BY <1>1, <1>2, <1>3, PTL DEF Spec

-----------------------------------------------------------------------------
(* How far an undisturbed change has spread. *)

\* The bounds only shrink, an outbox reaches those it tries, and has tried its
\* whole audience when it is done with a change.
Tried ==
  /\ \A c \in Changes : adds <= since[c][1] /\ faults <= since[c][2]
  /\ reached \subseteq tried
  /\ \A c \in Changes, p \in Servers : <<c, p>> \in tried => phase[c] # "none"
  /\ \A c \in Changes :
       phase[c] \in {"closed", "gaveUp"} => \A p \in audience[c] : <<c, p>> \in tried

\* Copy <<a, c, k>> is with server b too, or will be offered to it.
OnItsWay(a, b, c, k) ==
  \/ <<b, c, k>> \in held
  \/ <<a, c, k>> \in tasks
  \/ [via |-> a, to |-> b, change |-> c, key |-> k] \in net

\* An undisturbed change c: it is owed to the peers its origin still has and
\* signed with the key it still has; those tried have it unless they refuse
\* it; a copy is on its way to every server it is passed on to; and copies
\* and messages are where the change gets to.
SpreadOf(c) ==
  LET k == Sign(Origin[c]) IN
  /\ born[c] = k
  /\ audience[c] = Known(Origin[c])
  /\ \A p \in audience[c] :
       <<c, p>> \in tried /\ Takes(p, c, k) => <<p, c, k>> \in held
  /\ \A a, b \in Servers :
       <<a, c, k>> \in held /\ Passes(a, b, c, k) => OnItsWay(a, b, c, k)
  /\ \A s \in Servers : <<s, c, k>> \in held => s \in GetsTo(c)
  /\ \A m \in net : m.change = c => m.to \in Targets(m.via, c)

Spread == \A c \in Changes : Undisturbed(c) /\ phase[c] # "none" => SpreadOf(c)

\* The second inductive invariant.
SpreadInv == FedInv /\ Tried /\ Spread

\* Nothing is owed at first.
LEMMA SpreadInit == Init => Tried /\ Spread
BY FederationAssumption DEF Init, Promise!Init, Tried, Spread

\* The bounds shrink, and outboxes try.
LEMMA TriedStep ==
  ASSUME FedInv, Tried, [Next]_vars
  PROVE  Tried'
<1> USE FederationAssumption DEF FedInv, TypeOK
<1>1. ASSUME UNCHANGED <<outbox>>, adds' <= adds, faults' <= faults,
             adds' \in Nat, faults' \in Nat
      PROVE  Tried'
  BY <1>1 DEF Tried
<1>2. ASSUME NEW c \in Changes, NEW d \in BOOLEAN, OnFeatureChange(c, d)
      PROVE  Tried'
  BY <1>2 DEF OnFeatureChange, Promise!Submit, Tried
<1>3. ASSUME NEW c \in Changes, NEW p \in Servers, DeliverToPeer(c, p)
      PROVE  Tried'
  BY <1>3 DEF DeliverToPeer, Try, Promise!Reach, Fault, Tried
<1>4. ASSUME NEW c \in Changes, NEW p \in Servers, DeliveryFails(c, p)
      PROVE  Tried'
  BY <1>4 DEF DeliveryFails, Try, Fault, Tried
<1>5. ASSUME NEW c \in Changes, Close(c) \/ GiveUp(c)
      PROVE  Tried'
  <2>1. UNCHANGED <<audience, reached, tried, since, adds, faults>>
    BY <1>5 DEF Close, GiveUp, Promise!Close, Promise!GiveUp
  <2>2. phase[c] # "none" /\ \A e \in Changes : e # c => phase'[e] = phase[e]
    BY <1>5 DEF Close, GiveUp, Promise!Close, Promise!GiveUp
  <2>3. \A p \in audience[c] : <<c, p>> \in tried
    <3>1. CASE Close(c)
      BY <3>1 DEF Close, Promise!Close, Tried
    <3>2. CASE GiveUp(c)
      BY <3>2 DEF GiveUp
    <3> QED BY <1>5, <3>1, <3>2
  <2>4. phase'[c] # "none"
    BY <1>5 DEF Close, GiveUp, Promise!Close, Promise!GiveUp
  <2> QED BY <2>1, <2>2, <2>3, <2>4 DEF Tried
<1>6. ASSUME NEW s \in Servers, Restart(s)
      PROVE  Tried'
  BY <1>6 DEF Restart, Fault, OfServer, Tried
<1>7. CASE OutboxStep
  BY <1>2, <1>3, <1>4, <1>5, <1>7 DEF OutboxStep
<1>8. CASE \E s \in Servers, c \in Changes, k \in Keys : PropagateToOtherPeers(s, c, k)
  BY <1>1, <1>8 DEF PropagateToOtherPeers
<1>9. CASE \E m \in net : ReceiveForwarded(m) \/ RefuseForwarded(m) \/ LoseForwarded(m)
  BY <1>1, <1>9 DEF ReceiveForwarded, RefuseForwarded, LoseForwarded, Fault
<1>10. CASE \E s, p \in Servers, r \in Row : AddPeer(s, p, r)
  BY <1>1, <1>10 DEF AddPeer
<1>11. CASE \E s, p \in Servers : Block(s, p)
  BY <1>1, <1>11 DEF Block, Fault
<1>12. CASE UNCHANGED vars
  BY <1>1, <1>12 DEF vars
<1> QED BY <1>6, <1>7, <1>8, <1>9, <1>10, <1>11, <1>12 DEF Next

\* What SpreadOf(c) rests on stays as it is.
SameWorld(c) ==
  /\ UNCHANGED <<key, row, mem>>
  /\ born'[c] = born[c] /\ audience'[c] = audience[c]
  /\ Applies(c)' <=> Applies(c)

\* Who takes a change, who passes it on and where it gets to depends on that
\* alone.
LEMMA SameWays ==
  ASSUME NEW c \in Changes, SameWorld(c)
  PROVE  /\ \A p \in Servers, k \in Keys : Takes(p, c, k)' <=> Takes(p, c, k)
         /\ \A a, b \in Servers, k \in Keys : Passes(a, b, c, k)' <=> Passes(a, b, c, k)
         /\ \A a : Targets(a, c)' = Targets(a, c)
         /\ Sign(Origin[c])' = Sign(Origin[c])
         /\ GetsTo(c)' = GetsTo(c)
<1>1. \A p, k : Takes(p, c, k)' <=> Takes(p, c, k)
  BY DEF SameWorld, Takes, Accepts, Verify
<1>2. \A a : Targets(a, c)' = Targets(a, c)
  BY DEF SameWorld, Targets
<1>3. \A a, b, k : Passes(a, b, c, k)' <=> Passes(a, b, c, k)
  BY <1>1, <1>2 DEF Passes
<1>4. Sign(Origin[c])' = Sign(Origin[c])
  BY DEF SameWorld, Sign
<1>5. GetsTo(c)' = GetsTo(c)
  <2> DEFINE k == Sign(Origin[c])
             first == {p \in audience[c] : Takes(p, c, k)}
             From(S) == first \subseteq S /\ \A a \in S, b \in Servers : Passes(a, b, c, k) => b \in S
  <2>1. first' = first
    BY <1>1, <1>4 DEF SameWorld
  <2>2. \A S : From(S)' <=> From(S)
    BY <1>3, <1>4, <2>1
  <2>3. GetsTo(c) = {s \in Servers : \A S \in SUBSET Servers : From(S) => s \in S}
    BY DEF GetsTo
  <2>4. GetsTo(c)' = {s \in Servers : \A S \in SUBSET Servers : From(S)' => s \in S}
    BY DEF GetsTo
  <2> HIDE DEF From
  <2> QED BY <2>2, <2>3, <2>4
<1> QED BY <1>1, <1>2, <1>3, <1>4, <1>5

\* A change gets to the peers of its origin that take it ...
LEMMA GetsToFirst ==
  ASSUME NEW c \in Changes, NEW p \in Servers, p \in audience[c],
         Takes(p, c, Sign(Origin[c]))
  PROVE  p \in GetsTo(c)
BY DEF GetsTo

\* ... to those that a server it got to passes it on to ...
LEMMA GetsToNext ==
  ASSUME NEW c \in Changes, NEW a \in GetsTo(c), NEW b \in Servers,
         Passes(a, b, c, Sign(Origin[c]))
  PROVE  b \in GetsTo(c)
BY DEF GetsTo

\* ... and to no others.
LEMMA GetsToLeast ==
  ASSUME NEW c \in Changes, NEW S \in SUBSET Servers,
         \A p \in audience[c] : Takes(p, c, Sign(Origin[c])) => p \in S,
         \A a \in S, b \in Servers : Passes(a, b, c, Sign(Origin[c])) => b \in S
  PROVE  GetsTo(c) \subseteq S
BY DEF GetsTo

\* What a step has to do to keep SpreadOf(c): a new copy is stored at a server
\* the change gets to, and kept to be passed on; a peer newly tried refuses or
\* has its copy; what was on its way still is; new messages go to targets.
LEMMA SpreadKept ==
  ASSUME FedInv, NEW c \in Changes, SpreadOf(c), SameWorld(c),
         NEW k \in Keys, k = Sign(Origin[c]),
         held \subseteq held',
         \A p \in Servers : <<c, p>> \in tried' /\ Takes(p, c, k)
           => <<c, p>> \in tried \/ <<p, c, k>> \in held',
         \A a \in Servers : <<a, c, k>> \in held'
           => <<a, c, k>> \in held \/ (<<a, c, k>> \in tasks' /\ a \in GetsTo(c)),
         \A a, b \in Servers : OnItsWay(a, b, c, k) /\ Passes(a, b, c, k)
           => OnItsWay(a, b, c, k)',
         \A m \in net' : m.change = c => m \in net \/ m.to \in Targets(m.via, c)
  PROVE  SpreadOf(c)'
<1> USE FederationAssumption
<1> HIDE DEF Keys
<1>1. /\ Sign(Origin[c])' = k /\ GetsTo(c)' = GetsTo(c)
      /\ \A p \in Servers : Takes(p, c, k)' <=> Takes(p, c, k)
      /\ \A a, b \in Servers : Passes(a, b, c, k)' <=> Passes(a, b, c, k)
      /\ \A a : Targets(a, c)' = Targets(a, c)
  BY SameWays
<1>2. born'[c] = k /\ audience'[c] = Known(Origin[c])'
  BY DEF SpreadOf, SameWorld, Known
<1>3. ASSUME NEW p \in Servers, p \in audience'[c], <<c, p>> \in tried', Takes(p, c, k)
      PROVE  <<p, c, k>> \in held'
  BY <1>3 DEF SpreadOf, SameWorld
<1>4. ASSUME NEW a \in Servers, NEW b \in Servers, <<a, c, k>> \in held', Passes(a, b, c, k)
      PROVE  OnItsWay(a, b, c, k)'
  <2>1. CASE <<a, c, k>> \in held
    BY <1>4, <2>1 DEF SpreadOf
  <2>2. CASE <<a, c, k>> \in tasks'
    BY <2>2 DEF OnItsWay
  <2> QED BY <1>4, <2>1, <2>2
<1>5. \A a \in Servers : <<a, c, k>> \in held' => a \in GetsTo(c)
  BY DEF SpreadOf
<1>6. \A m \in net' : m.change = c => m.to \in Targets(m.via, c)
  BY DEF SpreadOf
<1>7. audience'[c] \subseteq Servers
  BY <1>2 DEF Known
<1> QED BY <1>1, <1>2, <1>3, <1>4, <1>5, <1>6, <1>7 DEF SpreadOf

\* Copies of an undisturbed change, and messages of it, are signed with the
\* key its origin has.
LEMMA OneKey ==
  ASSUME FedInv, NEW c \in Changes, SpreadOf(c)
  PROVE  /\ Sign(Origin[c]) \in Keys
         /\ \A h \in held : h[2] = c => h[3] = Sign(Origin[c])
         /\ \A m \in net : m.change = c => /\ m.key = Sign(Origin[c])
                                          /\ <<m.via, c, m.key>> \in held
<1> USE FederationAssumption
<1>1. Sign(Origin[c]) \in Keys
  BY DEF FedInv, TypeOK, Sign
<1>2. ASSUME NEW h \in held, h[2] = c PROVE h[3] = Sign(Origin[c])
  <2>1. h[3] \in Keys /\ born[c] <= h[3] /\ h[3] <= key[Origin[c]]
    BY <1>2 DEF FedInv, TypeOK, Vouched
  <2>2. born[c] = key[Origin[c]]
    BY DEF SpreadOf, Sign
  <2> QED BY <1>1, <2>1, <2>2 DEF Sign
<1>3. ASSUME NEW m \in net, m.change = c
      PROVE  m.key = Sign(Origin[c]) /\ <<m.via, c, m.key>> \in held
  BY <1>2, <1>3 DEF FedInv, Vouched
<1> QED BY <1>1, <1>2, <1>3

\* An undisturbed change had not been disturbed before; neither has any in a
\* step that uses up a bound.
LEMMA StillUndisturbed ==
  ASSUME FedInv, Tried, [Next]_vars, NEW c \in Changes, Undisturbed(c)',
         since'[c] = since[c]
  PROVE  UNCHANGED <<adds, faults>> /\ Undisturbed(c)
<1>1. adds \in Nat /\ faults \in Nat /\ adds' \in Nat /\ faults' \in Nat
  <2>1. TypeOK /\ TypeOK'
    BY TypeStep DEF FedInv
  <2>2. adds \in 0 .. MaxAdds /\ faults \in 0 .. MaxFaults
    BY <2>1 DEF TypeOK
  <2>3. adds' \in 0 .. MaxAdds /\ faults' \in 0 .. MaxFaults
    BY <2>1 DEF TypeOK
  <2> QED BY <2>2, <2>3, FederationAssumption
<1>2. since[c] = <<adds', faults'>>
  BY DEF Undisturbed
<1>3. adds <= adds' /\ faults <= faults'
  BY <1>2 DEF Tried
<1>4. adds' <= adds /\ faults' <= faults
  <2>1. CASE OutboxStep
    BY <1>1, <2>1 DEF OutboxStep, OnFeatureChange, DeliverToPeer, DeliveryFails, Close, GiveUp,
         Fault
  <2>2. CASE \E s \in Servers, e \in Changes, k \in Keys : PropagateToOtherPeers(s, e, k)
    BY <1>1, <2>2 DEF PropagateToOtherPeers
  <2>3. CASE \E m \in net : ReceiveForwarded(m) \/ RefuseForwarded(m) \/ LoseForwarded(m)
    BY <1>1, <2>3 DEF ReceiveForwarded, RefuseForwarded, LoseForwarded, Fault
  <2>4. CASE \/ \E s, p \in Servers, r \in Row : AddPeer(s, p, r)
             \/ \E s, p \in Servers : Block(s, p)
             \/ \E s \in Servers : Restart(s)
    BY <1>1, <2>4 DEF AddPeer, Block, Restart, Fault
  <2>5. CASE UNCHANGED vars
    BY <1>1, <2>5 DEF vars
  <2> QED BY <2>1, <2>2, <2>3, <2>4, <2>5 DEF Next
<1> QED BY <1>1, <1>2, <1>3, <1>4 DEF Undisturbed

\* The inbox of a server that an undisturbed change gets to keeps SpreadOf.
LEMMA SpreadInbox ==
  ASSUME FedInv, NEW c \in Changes, SpreadOf(c),
         NEW s \in Servers, NEW e \in Changes, NEW k \in Keys, HandleInbox(s, e, k),
         e = c => s \in GetsTo(c) /\ k = Sign(Origin[c]),
         UNCHANGED <<key, registry, phase, audience, deletes, born>>,
         tried \subseteq tried',
         \A p \in Servers : <<c, p>> \in tried' => <<c, p>> \in tried \/ (p = s /\ e = c),
         net' \subseteq net,
         \A m \in net \ net' : m.to = s /\ m.change = e /\ m.key = k
  PROVE  SpreadOf(c)'
<1> HIDE DEF Keys
<1>1. PICK kc \in Keys : kc = Sign(Origin[c])
  BY OneKey
<1>2. SameWorld(c)
  BY DEF SameWorld, Applies
<1>3. held' = held \cup {<<s, e, k>>} /\ tasks' = tasks \cup {<<s, e, k>>}
  BY DEF HandleInbox
<1>4. \A p \in Servers : <<c, p>> \in tried' /\ Takes(p, c, kc)
        => <<c, p>> \in tried \/ <<p, c, kc>> \in held'
  BY <1>1, <1>3
<1>5. \A a \in Servers : <<a, c, kc>> \in held'
        => <<a, c, kc>> \in held \/ (<<a, c, kc>> \in tasks' /\ a \in GetsTo(c))
  BY <1>1, <1>3
<1>6. ASSUME NEW a \in Servers, NEW b \in Servers, OnItsWay(a, b, c, kc)
      PROVE  OnItsWay(a, b, c, kc)'
  <2> DEFINE m == [via |-> a, to |-> b, change |-> c, key |-> kc]
  <2>1. CASE <<b, c, kc>> \in held \/ <<a, c, kc>> \in tasks
    BY <1>3, <2>1 DEF OnItsWay
  <2>2. CASE m \in net'
    BY <2>2 DEF OnItsWay
  <2>3. CASE m \in net \ net'
    <3>1. m.to = s /\ m.change = e /\ m.key = k
      BY <2>3
    <3>2. <<b, c, kc>> \in held'
      BY <1>3, <3>1
    <3> QED BY <3>2 DEF OnItsWay
  <2> QED BY <1>6, <2>1, <2>2, <2>3 DEF OnItsWay
<1> QED BY <1>1, <1>2, <1>3, <1>4, <1>5, <1>6, SpreadKept

\* An undisturbed change stays spread out, whatever the servers do.
LEMMA SpreadForwarding ==
  ASSUME FedInv, NEW c \in Changes, SpreadOf(c)
  PROVE  /\ \A s \in Servers, e \in Changes, k \in Keys :
              PropagateToOtherPeers(s, e, k) => SpreadOf(c)'
         /\ \A m \in net : ReceiveForwarded(m) \/ RefuseForwarded(m) => SpreadOf(c)'
<1> HIDE DEF Keys
<1>0. PICK kc \in Keys : kc = Sign(Origin[c])
  BY OneKey
<1>1. ASSUME NEW s \in Servers, NEW e \in Changes, NEW k \in Keys,
             PropagateToOtherPeers(s, e, k)
      PROVE  SpreadOf(c)'
  <2>1. /\ UNCHANGED <<key, registry, outbox, held>>
        /\ tasks' = tasks \ {<<s, e, k>>}
        /\ net' = net \cup {[via |-> s, to |-> p, change |-> e, key |-> k] : p \in Targets(s, e)}
    BY <1>1 DEF PropagateToOtherPeers
  <2>2. SameWorld(c)
    BY <2>1 DEF SameWorld, Applies
  <2>3. ASSUME NEW a \in Servers, NEW b \in Servers, OnItsWay(a, b, c, kc), Passes(a, b, c, kc)
        PROVE  OnItsWay(a, b, c, kc)'
    <3>1. CASE <<a, c, kc>> = <<s, e, k>>
      <4>1. [via |-> a, to |-> b, change |-> c, key |-> kc] \in net'
        BY <2>1, <2>3, <3>1 DEF Passes
      <4> QED BY <4>1 DEF OnItsWay
    <3>2. CASE <<a, c, kc>> # <<s, e, k>>
      BY <2>1, <2>3, <3>2 DEF OnItsWay
    <3> QED BY <3>1, <3>2
  <2>4. \A m \in net' : m.change = c => m \in net \/ m.to \in Targets(m.via, c)
    BY <2>1
  <2> QED BY <1>0, <2>1, <2>2, <2>3, <2>4, SpreadKept
<1>2. ASSUME NEW m \in net, ReceiveForwarded(m)
      PROVE  SpreadOf(c)'
  <2>1. m \in Message /\ m.to \in Servers /\ m.change \in Changes /\ m.key \in Keys
        /\ m.via \in Servers
    BY DEF FedInv, TypeOK, Message
  <2>2. m.change = c => m.to \in GetsTo(c) /\ m.key = Sign(Origin[c])
    <3> HAVE m.change = c
    <3>1. m.key = kc /\ <<m.via, c, kc>> \in held
      BY <1>0, OneKey
    <3>2. m.via \in GetsTo(c) /\ m.to \in Targets(m.via, c)
      BY <1>0, <2>1, <3>1 DEF SpreadOf
    <3>3. Takes(m.to, c, kc)
      BY <1>2, <3>1 DEF ReceiveForwarded, HandleInbox
    <3> QED BY <1>0, <2>1, <3>1, <3>2, <3>3, GetsToNext DEF Passes
  <2>3. /\ HandleInbox(m.to, m.change, m.key) /\ net' = net \ {m}
        /\ UNCHANGED <<key, registry, outbox>>
    BY <1>2 DEF ReceiveForwarded
  <2> QED BY <2>1, <2>2, <2>3, SpreadInbox
<1>3. ASSUME NEW m \in net, RefuseForwarded(m)
      PROVE  SpreadOf(c)'
  <2>1. /\ UNCHANGED <<key, registry, outbox, tasks, held>> /\ net' = net \ {m}
        /\ ~Takes(m.to, m.change, m.key)
    BY <1>3 DEF RefuseForwarded
  <2>2. SameWorld(c)
    BY <2>1 DEF SameWorld, Applies
  <2>3. ASSUME NEW a \in Servers, NEW b \in Servers, OnItsWay(a, b, c, kc), Passes(a, b, c, kc)
        PROVE  OnItsWay(a, b, c, kc)'
    BY <2>1, <2>3 DEF OnItsWay, Passes
  <2> QED BY <1>0, <2>1, <2>2, <2>3, SpreadKept
<1> QED BY <1>1, <1>2, <1>3

\* A change that is made starts well: it is undisturbed, and nobody has been
\* tried or holds a copy.
LEMMA SpreadStart ==
  ASSUME FedInv, FedInv', Tried, NEW c \in Changes, NEW d \in BOOLEAN, OnFeatureChange(c, d)
  PROVE  SpreadOf(c)'
<1> USE FederationAssumption
<1> HIDE DEF Keys
<1>1. phase[c] = "none" /\ UNCHANGED <<key, row, mem, tried, tasks, net, held>>
  BY DEF OnFeatureChange, Promise!Submit
<1>2. born'[c] = key[Origin[c]] /\ audience'[c] = Known(Origin[c])
  BY DEF OnFeatureChange, Promise!Submit, FedInv, TypeOK
<1>3. \A h \in held : h[2] # c
  BY <1>1 DEF FedInv, Vouched
<1>4. \A p \in Servers : <<c, p>> \notin tried
  BY <1>1 DEF Tried
<1>5. \A m \in net : m.change # c
  BY <1>3 DEF FedInv, Vouched
<1>6. Known(Origin[c])' = Known(Origin[c]) /\ Sign(Origin[c])' = Sign(Origin[c])
  BY <1>1 DEF Known, Sign
<1>7. audience'[c] \subseteq Servers
  BY <1>2 DEF Known
<1> QED BY <1>1, <1>2, <1>3, <1>4, <1>5, <1>6, <1>7 DEF SpreadOf, Sign

\* A step of another change's outbox, or of its own that is not disturbed,
\* keeps it so.
LEMMA SpreadOutbox ==
  ASSUME FedInv, FedInv', NEW c \in Changes, phase[c] # "none", SpreadOf(c), OutboxStep,
         UNCHANGED faults
  PROVE  SpreadOf(c)'
<1> USE FederationAssumption
<1> HIDE DEF Keys
<1>0. PICK k \in Keys : k = Sign(Origin[c])
  BY OneKey
<1>1. ASSUME SameWorld(c), UNCHANGED inbox,
             \A p \in Servers : <<c, p>> \in tried' /\ Takes(p, c, k) => <<c, p>> \in tried
      PROVE  SpreadOf(c)'
  <2>1. UNCHANGED <<tasks, net, held>>
    BY <1>1
  <2>2. \A a, b \in Servers : OnItsWay(a, b, c, k) => OnItsWay(a, b, c, k)'
    BY <2>1 DEF OnItsWay
  <2> QED BY <1>0, <1>1, <2>1, <2>2, SpreadKept
<1>2. ASSUME NEW e \in Changes, NEW d \in BOOLEAN, OnFeatureChange(e, d)
      PROVE  SpreadOf(c)'
  <2>1. c # e
    BY <1>2 DEF OnFeatureChange, Promise!Submit
  <2>2. SameWorld(c)
    BY <1>2, <2>1 DEF OnFeatureChange, Promise!Submit, SameWorld, Applies, FedInv, TypeOK
  <2>3. UNCHANGED <<tried, inbox>>
    BY <1>2 DEF OnFeatureChange
  <2> QED BY <1>1, <2>2, <2>3
<1>3. ASSUME NEW e \in Changes, NEW p \in Servers, DeliverToPeer(e, p)
      PROVE  SpreadOf(c)'
  <2> DEFINE ke == Sign(Origin[e])
  <2>1. /\ HandleInbox(p, e, ke) /\ ke \in Keys
        /\ p \in Known(Origin[e]) /\ tried' = tried \cup {<<e, p>>}
        /\ UNCHANGED <<key, registry, phase, audience, deletes, born, net>>
    BY <1>3 DEF DeliverToPeer, Try, Promise!Reach, Sign, FedInv, TypeOK
  <2>2. Takes(p, e, ke)
    BY <2>1 DEF HandleInbox
  <2>3. e = c => p \in GetsTo(c)
    BY <2>1, <2>2, GetsToFirst DEF SpreadOf
  <2> HIDE DEF ke
  <2>4. e = c => ke = Sign(Origin[c])
    BY DEF ke
  <2> QED BY <2>1, <2>3, <2>4, SpreadInbox
<1>4. ASSUME NEW e \in Changes, NEW p \in Servers, DeliveryFails(e, p)
      PROVE  SpreadOf(c)'
  <2>1. /\ tried' = tried \cup {<<e, p>>}
        /\ UNCHANGED <<key, registry, phase, audience, deletes, born, inbox>>
    BY <1>4 DEF DeliveryFails, Try
  <2>2. ~Takes(p, e, Sign(Origin[e]))
    BY <1>4 DEF DeliveryFails, Fault, FedInv, TypeOK
  <2>3. SameWorld(c)
    BY <2>1 DEF SameWorld, Applies
  <2> QED BY <1>0, <1>1, <2>1, <2>2, <2>3
<1>5. ASSUME NEW e \in Changes, Close(e) \/ GiveUp(e)
      PROVE  SpreadOf(c)'
  <2>1. UNCHANGED <<key, registry, audience, deletes, born, tried, inbox>>
    BY <1>5 DEF Close, GiveUp, Promise!Close, Promise!GiveUp
  <2> QED BY <1>1, <2>1 DEF SameWorld, Applies
<1> QED BY <1>2, <1>3, <1>4, <1>5 DEF OutboxStep

\* Every step keeps the second invariant.
LEMMA SpreadStep ==
  ASSUME SpreadInv, [Next]_vars
  PROVE  SpreadInv'
<1>1. FedInv /\ FedInv' /\ Tried'
  BY FedStep, TriedStep DEF SpreadInv
<1> SUFFICES ASSUME NEW c \in Changes, Undisturbed(c)', phase'[c] # "none"
             PROVE  SpreadOf(c)'
  BY <1>1 DEF SpreadInv, Spread
<1>2. ASSUME NEW d \in BOOLEAN, OnFeatureChange(c, d)
      PROVE  SpreadOf(c)'
  BY <1>1, <1>2, SpreadStart DEF SpreadInv
<1>3. ASSUME ~\E d \in BOOLEAN : OnFeatureChange(c, d)
      PROVE  SpreadOf(c)'
  <2>1. since'[c] = since[c] /\ phase[c] # "none"
    <3>1. CASE OutboxStep
      <4>1. ASSUME NEW e \in Changes, NEW d \in BOOLEAN, OnFeatureChange(e, d)
            PROVE  since'[c] = since[c] /\ phase'[c] = phase[c]
        BY <1>1, <1>3, <4>1 DEF OnFeatureChange, Promise!Submit, FedInv, TypeOK
      <4>2. ASSUME NEW e \in Changes, NEW p \in Servers, DeliverToPeer(e, p) \/ DeliveryFails(e, p)
            PROVE  since'[c] = since[c] /\ phase'[c] = phase[c]
        BY <4>2 DEF DeliverToPeer, DeliveryFails, Promise!Reach
      <4>3. ASSUME NEW e \in Changes, Close(e) \/ GiveUp(e)
            PROVE  since'[c] = since[c] /\ phase[c] # "none"
        BY <1>1, <4>3 DEF Close, GiveUp, Promise!Close, Promise!GiveUp, FedInv, TypeOK
      <4> QED BY <3>1, <4>1, <4>2, <4>3 DEF OutboxStep
    <3>2. CASE ~OutboxStep
      BY <3>2 DEF Next, PropagateToOtherPeers, ReceiveForwarded, RefuseForwarded, LoseForwarded,
           AddPeer, Block, Restart, vars
    <3> QED BY <3>1, <3>2
  <2>2. UNCHANGED <<adds, faults>> /\ SpreadOf(c)
    BY <1>1, <2>1, StillUndisturbed DEF SpreadInv, Spread
  <2>3. CASE OutboxStep
    BY <1>1, <2>1, <2>2, <2>3, SpreadOutbox
  <2>4. CASE \E s \in Servers, e \in Changes, k \in Keys : PropagateToOtherPeers(s, e, k)
    BY <1>1, <2>2, <2>4, SpreadForwarding
  <2>5. CASE \E m \in net : ReceiveForwarded(m) \/ RefuseForwarded(m)
    BY <1>1, <2>2, <2>5, SpreadForwarding
  <2>6. CASE \/ \E m \in net : LoseForwarded(m)
             \/ \E s, p \in Servers, r \in Row : AddPeer(s, p, r)
             \/ \E s, p \in Servers : Block(s, p)
             \/ \E s \in Servers : Restart(s)
    <3>1. adds \in Nat /\ faults \in Nat
      BY <1>1, FederationAssumption DEF FedInv, TypeOK
    <3>2. adds' = adds /\ faults' = faults
      BY <2>2
    <3> QED BY <2>6, <3>1, <3>2 DEF LoseForwarded, AddPeer, Block, Restart, Fault
  <2>7. CASE UNCHANGED vars
    <3>1. SameWorld(c) /\ UNCHANGED <<tried, inbox>>
      BY <2>7 DEF vars, SameWorld, Applies
    <3>2. PICK k \in Keys : k = Sign(Origin[c])
      BY <1>1, <2>2, OneKey
    <3>3. \A a, b \in Servers : OnItsWay(a, b, c, k) => OnItsWay(a, b, c, k)'
      BY <3>1 DEF OnItsWay
    <3> QED BY <1>1, <2>2, <3>1, <3>2, <3>3, SpreadKept
  <2> QED BY <2>3, <2>4, <2>5, <2>6, <2>7 DEF Next
<1> QED BY <1>2, <1>3

\* When an undisturbed change is done with, and no message of it is under way,
\* the servers that hold a copy are exactly those it gets to, through however
\* many others and whichever peers refused it (deliverToAllPeers,
\* HandleInbox, PropagateToOtherPeers).
THEOREM SpreadWhenDone == Spec => []SpreadWhenQuiet
<1>1. ASSUME SpreadInv PROVE SpreadWhenQuiet
  <2> SUFFICES ASSUME NEW c \in Changes, Undisturbed(c), phase[c] \in {"closed", "gaveUp"},
                      Quiet(c)
               PROVE  {s \in Servers : \E k \in Keys : <<s, c, k>> \in held} = GetsTo(c)
    BY DEF SpreadWhenQuiet
  <2>1. SpreadOf(c) /\ FedInv /\ Tried
    BY <1>1 DEF SpreadInv, Spread
  <2>2. PICK k \in Keys : k = Sign(Origin[c])
    BY <2>1, OneKey
  <2> DEFINE S == {s \in Servers : <<s, c, k>> \in held}
  <2>3. {s \in Servers : \E j \in Keys : <<s, c, j>> \in held} = S
    BY <2>1, <2>2, OneKey
  <2>4. S \subseteq GetsTo(c)
    BY <2>1, <2>2 DEF SpreadOf
  <2>5. \A p \in audience[c] : Takes(p, c, k) => p \in S
    BY <2>1, <2>2 DEF SpreadOf, Tried, FedInv, TypeOK
  <2>6. \A a \in S, b \in Servers : Passes(a, b, c, k) => b \in S
    BY <2>1, <2>2 DEF SpreadOf, OnItsWay, Quiet
  <2>7. GetsTo(c) \subseteq S
    BY <2>2, <2>5, <2>6, GetsToLeast
  <2> QED BY <2>3, <2>4, <2>7
<1>2. Init => SpreadInv
  BY TypeInit, VouchedInit, SpreadInit DEF FedInv, SpreadInv
<1> QED BY <1>1, <1>2, SpreadStep, PTL DEF Spec
=============================================================================
