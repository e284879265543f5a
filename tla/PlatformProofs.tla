--------------------------- MODULE PlatformProofs ---------------------------
(***************************************************************************)
(* Theorems about the factory and its events, for every number of events,  *)
(* accounts and nested calls. First come lemmas about the registry of the  *)
(* factory: what createID and createEvent keep consistent, and that one    *)
(* does not disturb the entries of another.                                *)
(***************************************************************************)
EXTENDS Platform, TicketOpsProofs, CallsProofs

(* An empty registry goes with no events.                                   *)
LEMMA NewRegistryOK ==
  ASSUME NEW details, DOMAIN details = {}
  PROVE  RegistryOK(NewRegistry, details)
<1>1. NewRegistry \in Registries
  <2>1. <<>> \in Seq(Addresses)
    BY EmptySeq
  <2>2. 0 \in Uint
    BY MaxUintAssumption DEF Uint
  <2>3. QED
    BY <2>1, <2>2 DEF NewRegistry, Registries, EventDetail
<1>2. RegisteredOnce(NewRegistry, details)
  <2>1. NewRegistry.registeredEvents = <<>> /\ DOMAIN <<>> = {}
    BY EmptySeq DEF NewRegistry
  <2>2. QED
    BY <2>1 DEF RegisteredOnce, Range, IsInjective
<1>3. FoundByAddress(NewRegistry, details)
  BY DEF FoundByAddress
<1>4. FoundById(NewRegistry, details)
  BY FactoryOpsAssumption DEF FoundById, NewRegistry
<1>5. QED
  BY <1>1, <1>2, <1>3, <1>4 DEF RegistryOK

(* What is known of a registry and of one id in it.                         *)
LEMMA RegistryParts ==
  ASSUME NEW r, NEW details, RegistryOK(r, details)
  PROVE  /\ r \in Registries
         /\ r.event_To_ID \in [Ids -> EventDetail]
         /\ r.registeredEvents \in Seq(Addresses)
         /\ r.eventAddressToID \in [Addresses -> Uint]
         /\ RegisteredOnce(r, details)
         /\ FoundByAddress(r, details)
         /\ FoundById(r, details)
BY DEF RegistryOK, Registries

(* createID gives a fresh id to an account; no event has that id yet.       *)
LEMMA IDCreatedOK ==
  ASSUME NEW r, NEW details, RegistryOK(r, details),
         DOMAIN details \subseteq Addresses,
         \A c \in DOMAIN details : details[c].eventAdmin \in Accounts,
         NEW id \in Ids, NEW admin \in Accounts, CanCreateID(r, id)
  PROVE  RegistryOK(IDCreated(r, id, admin), details)
<1> DEFINE r1 == IDCreated(r, id, admin)
           d1 == [r.event_To_ID[id] EXCEPT !.admin = admin,
                                           !.ID_Is_Created = TRUE, !.id = id]
<1>1. /\ r \in Registries
      /\ r.event_To_ID \in [Ids -> EventDetail]
      /\ RegisteredOnce(r, details)
      /\ FoundByAddress(r, details)
      /\ FoundById(r, details)
  BY RegistryParts
<1>2. r.event_To_ID[id] \in EventDetail
  BY <1>1
<1>3. /\ d1 \in EventDetail
      /\ d1.admin = admin /\ d1.ID_Is_Created = TRUE /\ d1.id = id
      /\ d1.eventAddress = r.event_To_ID[id].eventAddress
      /\ d1.ID_Is_Used = r.event_To_ID[id].ID_Is_Used
  BY <1>2, FactoryOpsAssumption DEF EventDetail
<1> HIDE DEF d1
<1>4. /\ r1 \in Registries
      /\ r1.event_To_ID = [r.event_To_ID EXCEPT ![id] = d1]
      /\ r1.registeredEvents = r.registeredEvents
      /\ r1.eventAddressToID = r.eventAddressToID
  <2>1. r1 = [r EXCEPT !.event_To_ID[id] = d1]
    BY DEF IDCreated, d1
  <2> HIDE DEF r1
  <2>2. [r.event_To_ID EXCEPT ![id] = d1] \in [Ids -> EventDetail]
    BY <1>1, <1>3
  <2>3. QED
    BY <1>1, <2>1, <2>2 DEF Registries
<1> HIDE DEF r1
<1>5. /\ r1.event_To_ID[id] = d1
      /\ \A k \in Ids \ {id} : r1.event_To_ID[k] = r.event_To_ID[k]
  BY <1>1, <1>4
<1>6. admin # ZeroAddress /\ ZeroAddress \notin Accounts
  BY FactoryOpsAssumption
<1>7. RegisteredOnce(r1, details)
  BY <1>1, <1>4 DEF RegisteredOnce
<1>8. FoundByAddress(r1, details)
  <2> SUFFICES ASSUME NEW c \in DOMAIN details
               PROVE  LET k == r1.eventAddressToID[c] IN
                      /\ k \in Ids \ {0}
                      /\ details[c].eventNftId = k
                      /\ r1.event_To_ID[k].eventAddress = c
                      /\ r1.event_To_ID[k].admin = details[c].eventAdmin
    BY DEF FoundByAddress
  <2> DEFINE k == r.eventAddressToID[c]
  <2>1. /\ k \in Ids \ {0}
        /\ details[c].eventNftId = k
        /\ r.event_To_ID[k].eventAddress = c
        /\ r.event_To_ID[k].admin = details[c].eventAdmin
    BY <1>1 DEF FoundByAddress
  <2> HIDE DEF k
  <2>2. r.event_To_ID[k].ID_Is_Created
    BY <1>1, <1>6, <2>1 DEF FoundById
  <2>3. k # id
    BY <2>2 DEF CanCreateID
  <2>4. r1.eventAddressToID[c] = k
    BY <1>4 DEF k
  <2>5. QED
    BY <1>5, <2>1, <2>3, <2>4
<1>9. FoundById(r1, details)
  <2>1. ~r.event_To_ID[id].ID_Is_Used
    BY <1>1 DEF FoundById, CanCreateID
  <2>2. r.event_To_ID[id].eventAddress = ZeroAddress
    BY <1>1, <2>1 DEF FoundById
  <2>3. QED
    BY <1>1, <1>3, <1>4, <1>5, <1>6, <2>1, <2>2 DEF FoundById
<1>10. QED
  BY <1>4, <1>7, <1>8, <1>9 DEF RegistryOK, r1

(* createEvent enters the new event under its id and its address, and the   *)
(* entries of every other event still lead to it.                           *)
LEMMA EventCreatedOK ==
  ASSUME NEW r, NEW details, RegistryOK(r, details),
         DOMAIN details \subseteq Addresses,
         NEW a \in Accounts, NEW id \in Ids, NEW plan,
         CanCreateEvent(r, a, id, plan),
         NEW c \in Addresses, c \notin DOMAIN details,
         NEW details1,
         DOMAIN details1 = DOMAIN details \cup {c},
         \A k \in DOMAIN details : details1[k] = details[k],
         details1[c].eventNftId = id, details1[c].eventAdmin = a
  PROVE  RegistryOK(EventCreated(r, a, id, c), details1) /\ id # 0
<1> DEFINE r1 == EventCreated(r, a, id, c)
           d1 == [r.event_To_ID[id] EXCEPT !.ID_Is_Used = TRUE,
                                           !.eventAddress = c,
                                           !.admin = a, !.id = id]
<1>1. /\ r \in Registries
      /\ r.event_To_ID \in [Ids -> EventDetail]
      /\ r.registeredEvents \in Seq(Addresses)
      /\ r.eventAddressToID \in [Addresses -> Uint]
      /\ RegisteredOnce(r, details)
      /\ FoundByAddress(r, details)
      /\ FoundById(r, details)
  BY RegistryParts
<1>2. r.event_To_ID[id] \in EventDetail
  BY <1>1
<1>3. /\ d1 \in EventDetail
      /\ d1.admin = a /\ d1.ID_Is_Used = TRUE /\ d1.id = id
      /\ d1.eventAddress = c
      /\ d1.ID_Is_Created = r.event_To_ID[id].ID_Is_Created
  BY <1>2, FactoryOpsAssumption DEF EventDetail
<1> HIDE DEF d1
<1>4. /\ r1.event_To_ID = [r.event_To_ID EXCEPT ![id] = d1]
      /\ r1.registeredEvents = Append(r.registeredEvents, c)
      /\ r1.eventAddressToID = [r.eventAddressToID EXCEPT ![c] = id]
      /\ r1 \in Registries
  <2>1. r1 = [event_To_ID |-> [r.event_To_ID EXCEPT ![id] = d1],
              registeredEvents |-> Append(r.registeredEvents, c),
              eventAddressToID |-> [r.eventAddressToID EXCEPT ![c] = id]]
    BY DEF EventCreated, d1
  <2> HIDE DEF r1
  <2>2. [r.event_To_ID EXCEPT ![id] = d1] \in [Ids -> EventDetail]
    BY <1>1, <1>3
  <2>3. Append(r.registeredEvents, c) \in Seq(Addresses)
    BY <1>1, AppendProperties
  <2>4. [r.eventAddressToID EXCEPT ![c] = id] \in [Addresses -> Uint]
    BY <1>1, FactoryOpsAssumption
  <2>5. QED
    BY <2>1, <2>2, <2>3, <2>4 DEF Registries
<1> HIDE DEF r1
<1>5. /\ r1.event_To_ID[id] = d1
      /\ \A k \in Ids \ {id} : r1.event_To_ID[k] = r.event_To_ID[k]
      /\ r1.eventAddressToID[c] = id
      /\ \A k \in Addresses \ {c} :
           r1.eventAddressToID[k] = r.eventAddressToID[k]
  BY <1>1, <1>4
<1>6. /\ r.event_To_ID[id].admin = a /\ ~r.event_To_ID[id].ID_Is_Used
      /\ r.event_To_ID[id].id # 0
      /\ a # ZeroAddress /\ ZeroAddress \notin Addresses
  BY FactoryOpsAssumption DEF CanCreateEvent
<1>7. /\ r.event_To_ID[id].ID_Is_Created
      /\ r.event_To_ID[id].eventAddress = ZeroAddress
      /\ id # 0
  BY <1>1, <1>6 DEF FoundById
<1>8. RegisteredOnce(r1, details1)
  <2> DEFINE s == r.registeredEvents
             t == r1.registeredEvents
  <2>1. /\ Len(s) \in Nat /\ DOMAIN s = 1 .. Len(s)
        /\ t \in Seq(Addresses) /\ Len(t) = Len(s) + 1
        /\ \A i \in 1 .. Len(s) : t[i] = s[i]
        /\ t[Len(s) + 1] = c
    BY <1>1, <1>4, AppendProperties, LenProperties
  <2>2. DOMAIN t = 1 .. Len(s) + 1
    BY <2>1, LenProperties
  <2>3. Range(s) = DOMAIN details /\ IsInjective(s)
    BY <1>1 DEF RegisteredOnce
  <2> HIDE DEF s, t
  <2>4. DOMAIN t = DOMAIN s \cup {Len(s) + 1} /\ Len(s) + 1 \notin DOMAIN s
    BY <2>1, <2>2
  <2>5. \A i \in DOMAIN s : t[i] = s[i] /\ s[i] # c
    BY <2>1, <2>3 DEF Range
  <2>6. Range(t) = DOMAIN details1
    BY <2>1, <2>3, <2>4, <2>5 DEF Range
  <2>7. IsInjective(t)
    BY <2>1, <2>3, <2>4, <2>5 DEF IsInjective
  <2>8. QED
    BY <2>6, <2>7 DEF RegisteredOnce, t
<1>9. FoundByAddress(r1, details1)
  <2> SUFFICES ASSUME NEW k \in DOMAIN details1
               PROVE  LET j == r1.eventAddressToID[k] IN
                      /\ j \in Ids \ {0}
                      /\ details1[k].eventNftId = j
                      /\ r1.event_To_ID[j].eventAddress = k
                      /\ r1.event_To_ID[j].admin = details1[k].eventAdmin
    BY DEF FoundByAddress
  <2>1. CASE k = c
    BY <1>3, <1>5, <1>7, <2>1
  <2>2. CASE k # c
    <3> DEFINE j == r.eventAddressToID[k]
    <3>1. k \in DOMAIN details /\ k \in Addresses
      BY <2>2
    <3>2. /\ j \in Ids \ {0}
          /\ details[k].eventNftId = j
          /\ r.event_To_ID[j].eventAddress = k
          /\ r.event_To_ID[j].admin = details[k].eventAdmin
      BY <1>1, <3>1 DEF FoundByAddress
    <3>3. r1.eventAddressToID[k] = j
      BY <1>5, <2>2, <3>1
    <3> HIDE DEF j
    <3>4. j # id
      BY <1>6, <1>7, <3>1, <3>2
    <3>5. QED
      BY <1>5, <3>1, <3>2, <3>3, <3>4
  <2>3. QED
    BY <2>1, <2>2
<1>10. FoundById(r1, details1)
  <2> SUFFICES ASSUME NEW k \in Ids
               PROVE  LET d == r1.event_To_ID[k] IN
                      /\ d.ID_Is_Used => d.ID_Is_Created
                      /\ d.ID_Is_Created <=> d.admin # ZeroAddress
                      /\ d.ID_Is_Created => d.id = k
                      /\ ~d.ID_Is_Created => d.id = 0
                      /\ IF d.ID_Is_Used
                         THEN /\ d.eventAddress \in DOMAIN details1
                              /\ r1.eventAddressToID[d.eventAddress] = k
                         ELSE d.eventAddress = ZeroAddress
    BY DEF FoundById
  <2>1. CASE k = id
    BY <1>3, <1>5, <1>6, <1>7, <2>1
  <2>2. CASE k # id
    <3> DEFINE d == r.event_To_ID[k]
    <3>1. /\ d.ID_Is_Used => d.ID_Is_Created
          /\ d.ID_Is_Created <=> d.admin # ZeroAddress
          /\ d.ID_Is_Created => d.id = k
          /\ ~d.ID_Is_Created => d.id = 0
          /\ IF d.ID_Is_Used THEN /\ d.eventAddress \in DOMAIN details
                                  /\ r.eventAddressToID[d.eventAddress] = k
                             ELSE d.eventAddress = ZeroAddress
      BY <1>1 DEF FoundById
    <3>2. r1.event_To_ID[k] = d
      BY <1>5, <2>2
    <3> HIDE DEF d
    <3>3. d.eventAddress \in DOMAIN details =>
            r1.eventAddressToID[d.eventAddress] = r.eventAddressToID[d.eventAddress]
      BY <1>5
    <3>4. QED
      BY <3>1, <3>2, <3>3
  <2>3. QED
    BY <2>1, <2>2
<1>11. QED
  BY <1>4, <1>7, <1>8, <1>9, <1>10 DEF RegistryOK, r1

-----------------------------------------------------------------------------
(* The fees of all events, counted wei by wei *)

(* What a wei of the fees is.                                               *)
LEMMA FeeWei ==
  ASSUME NEW evs, NEW w
  PROVE  w \in FeeWeis(evs) <=>
           \E c \in DOMAIN evs :
             \E n \in 1 .. evs[c].vault.platform : w = <<c, n>>
BY DEF FeeWeis

(* Events that paid the same fees count the same; an event that paid        *)
(* nothing does not count.                                                  *)
LEMMA SameFeeWeis ==
  ASSUME NEW evs, NEW evs1, DOMAIN evs \subseteq DOMAIN evs1,
         \A c \in DOMAIN evs : evs1[c].vault.platform = evs[c].vault.platform,
         \A c \in DOMAIN evs1 \ DOMAIN evs : evs1[c].vault.platform = 0
  PROVE  FeeWeis(evs1) = FeeWeis(evs)
<1>1. ASSUME NEW w PROVE w \in FeeWeis(evs1) <=> w \in FeeWeis(evs)
  <2>1. ASSUME NEW c \in DOMAIN evs1, NEW n \in 1 .. evs1[c].vault.platform
        PROVE  c \in DOMAIN evs /\ n \in 1 .. evs[c].vault.platform
    BY <2>1
  <2>2. ASSUME NEW c \in DOMAIN evs, NEW n \in 1 .. evs[c].vault.platform
        PROVE  c \in DOMAIN evs1 /\ n \in 1 .. evs1[c].vault.platform
    BY <2>2
  <2>3. QED
    BY <2>1, <2>2, FeeWei
<1>2. QED
  BY <1>1

(* One event that pays n more adds n to the sum.                            *)
LEMMA MoreFeeWeis ==
  ASSUME NEW evs, NEW evs1, NEW c \in DOMAIN evs, NEW n \in Nat,
         evs[c].vault.platform \in Nat, IsFiniteSet(FeeWeis(evs)),
         DOMAIN evs1 = DOMAIN evs,
         \A k \in DOMAIN evs \ {c} : evs1[k] = evs[k],
         evs1[c].vault.platform = evs[c].vault.platform + n
  PROVE  /\ IsFiniteSet(FeeWeis(evs1))
         /\ Cardinality(FeeWeis(evs1)) = Cardinality(FeeWeis(evs)) + n
<1> DEFINE p == evs[c].vault.platform
           more == {c} \X (p + 1 .. p + n)
<1>1. p \in Nat
  OBVIOUS
<1>2. evs[c].vault.platform = p
  OBVIOUS
<1>3. evs1[c].vault.platform = p + n
  OBVIOUS
<1> HIDE DEF p
<1>4. /\ IsFiniteSet(p + 1 .. p + n)
      /\ Cardinality(p + 1 .. p + n) = n
  <2>1. p + 1 \in Int /\ p + n \in Int
    BY <1>1
  <2>2. /\ IsFiniteSet(p + 1 .. p + n)
        /\ Cardinality(p + 1 .. p + n) =
             IF p + 1 > p + n THEN 0 ELSE (p + n) - (p + 1) + 1
    BY <2>1, FS_Interval
  <2>3. QED
    BY <1>1, <2>2
<1>5. IsFiniteSet({c}) /\ Cardinality({c}) = 1
  BY FS_Singleton
<1>6. /\ IsFiniteSet(more)
      /\ Cardinality(more) = n
  <2>1. /\ IsFiniteSet(more)
        /\ Cardinality(more) = Cardinality({c}) * Cardinality(p + 1 .. p + n)
    BY <1>4, <1>5, FS_Product
  <2>2. QED
    BY <1>4, <1>5, <2>1
<1>7. \A w : w \in more <=> \E k \in p + 1 .. p + n : w = <<c, k>>
  BY SMT
<1> HIDE DEF more
<1>8. \A k : k \in 1 .. p + n <=> k \in 1 .. p \/ k \in p + 1 .. p + n
  BY <1>1
<1>9. FeeWeis(evs1) = FeeWeis(evs) \cup more
  <2>1. ASSUME NEW w \in FeeWeis(evs1)
        PROVE  w \in FeeWeis(evs) \cup more
    <3>1. PICK d \in DOMAIN evs1 :
            \E k \in 1 .. evs1[d].vault.platform : w = <<d, k>>
      BY FeeWei
    <3>2. CASE d = c
      BY <1>2, <1>3, <1>7, <1>8, <3>1, <3>2, FeeWei
    <3>3. CASE d # c
      BY <3>1, <3>3, FeeWei
    <3>4. QED
      BY <3>2, <3>3
  <2>2. ASSUME NEW w \in FeeWeis(evs) \cup more
        PROVE  w \in FeeWeis(evs1)
    <3>1. CASE w \in more
      BY <1>3, <1>7, <1>8, <3>1, FeeWei
    <3>2. CASE w \in FeeWeis(evs)
      <4>1. PICK d \in DOMAIN evs :
              \E k \in 1 .. evs[d].vault.platform : w = <<d, k>>
        BY <3>2, FeeWei
      <4>2. CASE d = c
        BY <1>2, <1>3, <1>8, <4>1, <4>2, FeeWei
      <4>3. CASE d # c
        BY <4>1, <4>3, FeeWei
      <4>4. QED
        BY <4>2, <4>3
    <3>3. QED
      BY <3>1, <3>2
  <2>3. QED
    BY <2>1, <2>2
<1>10. FeeWeis(evs) \cap more = {}
  <2>1. ASSUME NEW w \in FeeWeis(evs), w \in more PROVE FALSE
    <3>1. PICK k \in p + 1 .. p + n : w = <<c, k>>
      BY <1>7, <2>1
    <3>2. PICK d \in DOMAIN evs :
            \E j \in 1 .. evs[d].vault.platform : w = <<d, j>>
      BY FeeWei
    <3>3. k \in 1 .. p
      BY <1>2, <3>1, <3>2
    <3>4. QED
      BY <1>1, <3>1, <3>3
  <2>2. QED
    BY <2>1
<1>11. /\ IsFiniteSet(FeeWeis(evs1))
      /\ Cardinality(FeeWeis(evs1)) =
           Cardinality(FeeWeis(evs)) + Cardinality(more)
             - Cardinality(FeeWeis(evs) \cap more)
  BY <1>6, <1>9, FS_Union
<1>12. Cardinality(FeeWeis(evs)) \in Nat /\ Cardinality({}) = 0
  BY FS_CardinalityType, FS_EmptySet
<1>13. Cardinality(FeeWeis(evs) \cap more) = 0
  BY <1>10, <1>12
<1>14. QED
  BY <1>6, <1>11, <1>12, <1>13

-----------------------------------------------------------------------------
(* What all contracts store together *)

(* A consistent storage makes a consistent event.                           *)
LEMMA EventStateOK ==
  ASSUME NEW d \in EventDetails, NEW s, NEW tl, NEW pl, NEW v,
         StateOK(d, s, tl, pl, v)
  PROVE  /\ EventOK(EventState(d, s, tl, pl, v))
         /\ EventState(d, s, tl, pl, v).details = d
<1> DEFINE ev == EventState(d, s, tl, pl, v)
<1>1. /\ ev.details = d /\ ev.store = s /\ ev.tickets = tl
      /\ ev.poaps = pl /\ ev.vault = v
  BY DEF EventState
<1> HIDE DEF ev
<1>2. EventTypeOK(ev)
  <2>1. ev = EventState(d, s, tl, pl, v)
    BY DEF ev
  <2>2. QED
    BY <1>1, <2>1 DEF EventTypeOK, StateOK
<1>3. QED
  BY <1>1, <1>2 DEF EventOK, ev

(* What is known of one event.                                              *)
LEMMA EventParts ==
  ASSUME NEW ctl, NEW reg, NEW cof, NEW evs, ContractsOK(ctl, reg, cof, evs),
         NEW c \in DOMAIN evs
  PROVE  /\ evs[c] = EventState(evs[c].details, evs[c].store, evs[c].tickets,
                                evs[c].poaps, evs[c].vault)
         /\ evs[c].details \in EventDetails
         /\ StateOK(evs[c].details, evs[c].store, evs[c].tickets,
                    evs[c].poaps, evs[c].vault)
BY DEF ContractsOK, EventOK, EventTypeOK

\* What the factory has earned: all it ever got but what it was given.
Earned(cof) == cof.balance + cof.paid - cof.gifts

(* The books balance after a payment if what was earned grew by the fee.    *)
LEMMA EarnedBalances ==
  ASSUME NEW evs, NEW evs1, NEW cof \in Coffers, NEW cof1 \in Coffers,
         NEW n \in Nat, IsFiniteSet(FeeWeis(evs)), FeesBalance(cof, evs),
         Cardinality(FeeWeis(evs1)) = Cardinality(FeeWeis(evs)) + n,
         Earned(cof1) = Earned(cof) + n
  PROVE  FeesBalance(cof1, evs1)
<1>1. /\ cof.balance \in Nat /\ cof.gifts \in Nat /\ cof.paid \in Nat
      /\ cof1.balance \in Nat /\ cof1.gifts \in Nat /\ cof1.paid \in Nat
  BY DEF Coffers
<1>2. Cardinality(FeeWeis(evs)) \in Nat
  BY FS_CardinalityType
<1>3. QED
  BY <1>1, <1>2 DEF FeesBalance, Earned

(* A call that changes the storage of one event, and perhaps moves ether    *)
(* between it and the factory, disturbs neither the others nor the registry. *)
LEMMA OneEventChanged ==
  ASSUME NEW ctl, NEW reg, NEW cof, NEW evs, ContractsOK(ctl, reg, cof, evs),
         NEW c \in DOMAIN evs, NEW s, NEW tl, NEW pl, NEW v,
         StateOK(evs[c].details, s, tl, pl, v), NEW cof1 \in Coffers,
         NEW n \in Nat, v.platform = evs[c].vault.platform + n,
         Earned(cof1) = Earned(cof) + n
  PROVE  ContractsOK(ctl, reg, cof1,
           [evs EXCEPT ![c] = EventState(evs[c].details, s, tl, pl, v)])
<1> DEFINE ev1 == EventState(evs[c].details, s, tl, pl, v)
           evs1 == [evs EXCEPT ![c] = ev1]
<1>1. EventOK(ev1) /\ ev1.details = evs[c].details
  BY EventParts, EventStateOK
<1> HIDE DEF ev1
<1>2. /\ DOMAIN evs1 = DOMAIN evs /\ evs1[c] = ev1
      /\ \A k \in DOMAIN evs \ {c} : evs1[k] = evs[k]
  OBVIOUS
<1> HIDE DEF evs1
<1>3. \A k \in DOMAIN evs1 : EventOK(evs1[k])
  BY <1>1, <1>2 DEF ContractsOK
<1>4. DetailsOf(evs1) = DetailsOf(evs)
  <2>1. \A k \in DOMAIN evs : evs1[k].details = evs[k].details
    BY <1>1, <1>2
  <2>2. QED
    BY <1>2, <2>1 DEF DetailsOf
<1>5. /\ evs[c].vault.platform \in Nat
      /\ evs1[c].vault.platform = evs[c].vault.platform + n
  BY <1>2, EventParts DEF ev1, EventState, StateOK, StateTypeOK, Vaults
<1>6. /\ IsFiniteSet(FeeWeis(evs1))
      /\ Cardinality(FeeWeis(evs1)) = Cardinality(FeeWeis(evs)) + n
  BY <1>2, <1>5, MoreFeeWeis DEF ContractsOK
<1>7. FeesBalance(cof1, evs1)
  BY <1>6, EarnedBalances DEF ContractsOK
<1>8. ContractsOK(ctl, reg, cof1, evs1)
  BY <1>2, <1>3, <1>4, <1>6, <1>7 DEF ContractsOK
<1>9. QED
  BY <1>8 DEF evs1, ev1

(* Consistent contracts have the right types.                               *)
LEMMA ContractsOKTypes ==
  ASSUME NEW state,
         ContractsOK(state.Controller, state.registry, state.coffer,
                     state.events)
  PROVE  ContractsTypeOK(state)
BY DEF ContractsOK, ContractsTypeOK, EventOK, RegistryOK

-----------------------------------------------------------------------------
(* Calls keep the frames consistent *)

(* What an action has to leave behind for the invariant to hold again.      *)
LEMMA IInvNext ==
  ASSUME ContractsOK(Controller', registry', coffer', events'),
         CallsInv', FramesOK', clock' \in Nat
  PROVE  IInv'
BY DEF IInv

(* A call that ends at once.                                                *)
LEMMA DoneKeepsFrames ==
  ASSUME IInv, NEW a, MayCall(a), Done
  PROVE  CallsInv' /\ FramesOK'
BY DoneOK DEF IInv, FramesOK

(* A call that waits for a callback saves the present state of all          *)
(* contracts, which is consistent.                                          *)
LEMMA AwaitKeepsFrames ==
  ASSUME IInv, NEW a, MayCall(a), NEW op \in Ops, NEW c, NEW id,
         Await(op, c, id)
  PROVE  CallsInv' /\ FramesOK'
<1> DEFINE frame == [op |-> op, event |-> c, id |-> id, saved |-> State]
<1> HIDE DEF frame
<1>1. Push(frame)
  BY DEF Await, frame
<1>2. /\ CallsInv'
      /\ DOMAIN stack' = DOMAIN stack \cup {Len(stack')}
      /\ \A i \in DOMAIN stack : stack'[i] = stack[i]
      /\ stack'[Len(stack')] = frame
  BY <1>1, PushOK DEF IInv
<1>3. /\ frame.op \in Ops
      /\ frame.saved.Controller = Controller
      /\ frame.saved.registry = registry
      /\ frame.saved.coffer = coffer
      /\ frame.saved.events = events
  BY DEF frame, State
<1>4. ASSUME NEW i \in DOMAIN stack'
      PROVE  /\ stack'[i].op \in Ops
             /\ ContractsOK(stack'[i].saved.Controller,
                            stack'[i].saved.registry,
                            stack'[i].saved.coffer, stack'[i].saved.events)
  <2>1. CASE i \in DOMAIN stack
    BY <1>2, <2>1 DEF IInv, FramesOK
  <2>2. CASE i \notin DOMAIN stack
    <3>1. stack'[i] = frame
      BY <1>2, <1>4, <2>2
    <3>2. QED
      BY <1>3, <3>1 DEF IInv
  <2>3. QED
    BY <2>1, <2>2
<1>5. QED
  BY <1>2, <1>4 DEF FramesOK

(* The end of a function drops one frame.                                   *)
LEMMA LeaveKeepsFrames ==
  ASSUME IInv, stack # <<>>, Leave
  PROVE  CallsInv' /\ FramesOK' /\ Len(stack) \in DOMAIN stack
BY LeaveOK DEF IInv, FramesOK

-----------------------------------------------------------------------------
(* The inductive invariant *)

(* A factory without events is consistent.                                  *)
LEMMA InitIInv == Init => IInv
<1> SUFFICES ASSUME Init PROVE IInv
  OBVIOUS
<1>1. DOMAIN events = {} /\ DOMAIN DetailsOf(events) = {}
  BY DEF Init, DetailsOf
<1>2. RegistryOK(registry, DetailsOf(events))
  BY <1>1, NewRegistryOK DEF Init
<1>3. coffer \in Coffers
  BY DEF Init, Coffers
<1>4. ContractsOK(Controller, registry, coffer, events)
  <2>1. FeeWeis(events) = {}
    BY <1>1, FeeWei
  <2>2. IsFiniteSet(FeeWeis(events)) /\ FeesBalance(coffer, events)
    BY <2>1, FS_EmptySet DEF Init, FeesBalance
  <2>3. QED
    BY <1>1, <1>2, <1>3, <2>2 DEF Init, ContractsOK
<1>5. CallsInv /\ DOMAIN stack = {}
  BY NoCallsOK DEF Init
<1>6. QED
  BY <1>4, <1>5 DEF Init, IInv, FramesOK

(* What is known of an event a call goes to.                                *)
LEMMA EventKnown ==
  ASSUME IInv, NEW c \in DOMAIN events
  PROVE  /\ events[c].details \in EventDetails
         /\ events[c].store \in TicketStorage
         /\ StateOK(events[c].details, events[c].store, events[c].tickets,
                    events[c].poaps, events[c].vault)
<1>1. ContractsOK(Controller, registry, coffer, events)
  BY DEF IInv
<1>2. QED
  BY <1>1, EventParts DEF StateOK, StateTypeOK

(* A call that leaves one event consistent and moves as much to the factory *)
(* as the event records leaves all contracts consistent.                    *)
LEMMA UpdatedOK ==
  ASSUME IInv, NEW c \in DOMAIN events, NEW s, NEW tl, NEW pl, NEW v,
         StateOK(events[c].details, s, tl, pl, v), NEW cof1 \in Coffers,
         NEW n \in Nat, v.platform = events[c].vault.platform + n,
         Earned(cof1) = Earned(coffer) + n
  PROVE  ContractsOK(Controller, registry, cof1, Updated(c, s, tl, pl, v))
<1>1. ContractsOK(Controller, registry, coffer, events)
  BY DEF IInv
<1>2. QED
  BY <1>1, OneEventChanged DEF Updated

(* Only a withdrawal to the platform adds to the fees an event paid.        *)
LEMMA VaultFees ==
  ASSUME IInv, NEW c \in DOMAIN events, NEW n
  PROVE  LET v == events[c].vault IN
         /\ Deposited(v, n).platform = v.platform
         /\ Gifted(v, n).platform = v.platform
         /\ PaidToOrganizer(v, n).platform = v.platform
         /\ PaidToPlatform(v, n).platform = v.platform + n
<1>1. events[c].vault \in Vaults
  BY EventKnown DEF StateOK, StateTypeOK
<1>2. QED
  BY <1>1 DEF Vaults, Deposited, Gifted, PaidToOrganizer, PaidToPlatform

(* So does a call that pays the factory nothing.                            *)
LEMMA UnpaidOK ==
  ASSUME IInv, NEW c \in DOMAIN events, NEW s, NEW tl, NEW pl, NEW v,
         StateOK(events[c].details, s, tl, pl, v), NEW cof1 \in Coffers,
         v.platform = events[c].vault.platform, Earned(cof1) = Earned(coffer)
  PROVE  ContractsOK(Controller, registry, cof1, Updated(c, s, tl, pl, v))
<1>1. v.platform = events[c].vault.platform + 0
  BY EventKnown DEF StateOK, StateTypeOK, Vaults
<1>2. Earned(cof1) = Earned(coffer) + 0
  BY DEF Earned, Coffers
<1>3. QED
  BY <1>1, <1>2, UpdatedOK

(* A call that leaves the events alone and what the factory earned.         *)
LEMMA CofferMovedOK ==
  ASSUME IInv, NEW ctl \in Accounts, NEW cof1 \in Coffers,
         Earned(cof1) = Earned(coffer)
  PROVE  ContractsOK(ctl, registry, cof1, events)
<1>1. ContractsOK(Controller, registry, coffer, events)
  BY DEF IInv
<1>2. coffer \in Coffers /\ IsFiniteSet(FeeWeis(events))
  BY <1>1 DEF ContractsOK
<1>3. Cardinality(FeeWeis(events)) = Cardinality(FeeWeis(events)) + 0
  BY <1>2, FS_CardinalityType
<1>4. Earned(cof1) = Earned(coffer) + 0
  BY <1>2 DEF Earned, Coffers
<1>5. FeesBalance(cof1, events)
  BY <1>1, <1>2, <1>3, <1>4, EarnedBalances DEF ContractsOK
<1>6. QED
  BY <1>1, <1>5 DEF ContractsOK

(* The factory's ether after a payment or a gift, and what it earned by it. *)
LEMMA CofferOK ==
  ASSUME IInv
  PROVE  /\ coffer \in Coffers
         /\ coffer.balance \in Nat
         /\ \A n \in Nat :
              /\ LET cof == [coffer EXCEPT !.balance = @ + n] IN
                 cof \in Coffers /\ Earned(cof) = Earned(coffer) + n
              /\ LET cof == [coffer EXCEPT !.balance = @ + n, !.gifts = @ + n] IN
                 cof \in Coffers /\ Earned(cof) = Earned(coffer)
              /\ LET cof == [coffer EXCEPT !.balance = @ - n, !.paid = @ + n] IN
                 n <= coffer.balance =>
                   cof \in Coffers /\ Earned(cof) = Earned(coffer)
<1>1. coffer \in Coffers
  BY DEF IInv, ContractsOK
<1>2. coffer.balance \in Nat /\ coffer.gifts \in Nat /\ coffer.paid \in Nat
  BY <1>1 DEF Coffers
<1>3. ASSUME NEW n \in Nat
      PROVE  /\ coffer.balance + n \in Nat
             /\ coffer.gifts + n \in Nat
             /\ coffer.paid + n \in Nat
             /\ n <= coffer.balance => coffer.balance - n \in Nat
  BY <1>2
<1>4. ASSUME NEW n \in Nat
      PROVE  LET cof == [coffer EXCEPT !.balance = @ + n] IN
             cof \in Coffers /\ Earned(cof) = Earned(coffer) + n
  BY <1>1, <1>2, <1>3, <1>4 DEF Coffers, Earned
<1>5. ASSUME NEW n \in Nat
      PROVE  LET cof == [coffer EXCEPT !.balance = @ + n, !.gifts = @ + n] IN
             cof \in Coffers /\ Earned(cof) = Earned(coffer)
  <2> DEFINE cof == [coffer EXCEPT !.balance = @ + n, !.gifts = @ + n]
  <2>1. /\ cof \in Coffers
        /\ cof.balance = coffer.balance + n
        /\ cof.gifts = coffer.gifts + n
        /\ cof.paid = coffer.paid
    BY <1>1, <1>2, <1>3, <1>5 DEF Coffers
  <2> HIDE DEF cof
  <2>2. Earned(cof) = Earned(coffer)
    BY <1>2, <2>1 DEF Earned
  <2>3. QED
    BY <2>1, <2>2 DEF cof
<1>6. ASSUME NEW n \in Nat, n <= coffer.balance
      PROVE  LET cof == [coffer EXCEPT !.balance = @ - n, !.paid = @ + n] IN
             cof \in Coffers /\ Earned(cof) = Earned(coffer)
  <2> DEFINE cof == [coffer EXCEPT !.balance = @ - n, !.paid = @ + n]
  <2>1. /\ cof \in Coffers
        /\ cof.balance = coffer.balance - n
        /\ cof.gifts = coffer.gifts
        /\ cof.paid = coffer.paid + n
    BY <1>1, <1>2, <1>3, <1>6 DEF Coffers
  <2> HIDE DEF cof
  <2>2. Earned(cof) = Earned(coffer)
    BY <1>2, <2>1 DEF Earned
  <2>3. QED
    BY <2>1, <2>2 DEF cof
<1>7. QED
  BY <1>1, <1>2, <1>4, <1>5, <1>6

(* createID keeps the invariant.                                            *)
LEMMA CreateIDKeepsIInv ==
  ASSUME IInv, NEW a, NEW id \in Ids, NEW admin \in Accounts,
         CreateID(a, id, admin)
  PROVE  IInv'
<1>1. /\ ContractsOK(Controller, registry, coffer, events)
      /\ DOMAIN DetailsOf(events) = DOMAIN events
      /\ \A c \in DOMAIN events : DetailsOf(events)[c] = events[c].details
  BY DEF IInv, DetailsOf
<1>2. \A c \in DOMAIN events : events[c].details.eventAdmin \in Accounts
  BY <1>1, EventParts DEF EventDetails
<1>3. RegistryOK(IDCreated(registry, id, admin), DetailsOf(events))
  BY <1>1, <1>2, IDCreatedOK DEF ContractsOK, CreateID
<1>4. ContractsOK(Controller', registry', coffer', events')
  BY <1>1, <1>3 DEF CreateID, ContractsOK
<1>5. QED
  BY <1>4, DoneKeepsFrames, IInvNext DEF CreateID, IInv

(* createEvent keeps the invariant: the new event is consistent, and is     *)
(* entered without disturbing the others.                                   *)
LEMMA CreateEventKeepsIInv ==
  ASSUME IInv, NEW a \in Accounts, NEW id \in Ids, NEW plan \in EventPlans,
         NEW c \in Addresses, CreateEvent(a, id, plan, c)
  PROVE  IInv'
<1> DEFINE d == Details(a, id, plan, Controller)
<1>1. /\ ContractsOK(Controller, registry, coffer, events)
      /\ CanCreateEvent(registry, a, id, plan)
      /\ c \notin DOMAIN events
      /\ plan \in Plans
  BY PlatformAssumption DEF IInv, CreateEvent
<1>2. /\ DOMAIN DetailsOf(events) = DOMAIN events
      /\ \A k \in DOMAIN events : DetailsOf(events)[k] = events[k].details
  BY DEF DetailsOf
<1>3. /\ DOMAIN events' = DOMAIN events \cup {c}
      /\ events'[c] = Deployed(d)
      /\ \A k \in DOMAIN events : events'[k] = events[k]
  BY <1>1 DEF CreateEvent
<1>4. d.eventNftId = id /\ d.eventAdmin = a
  BY DEF Details
<1>5. Deployed(d).details = d
  BY DEF Deployed, EventState
<1> HIDE DEF d
<1>6. /\ DOMAIN DetailsOf(events') = DOMAIN events \cup {c}
      /\ \A k \in DOMAIN events : DetailsOf(events')[k] = DetailsOf(events)[k]
      /\ DetailsOf(events')[c] = d
  BY <1>2, <1>3, <1>5 DEF DetailsOf
<1>7. RegistryOK(EventCreated(registry, a, id, c), DetailsOf(events')) /\ id # 0
  BY <1>1, <1>2, <1>4, <1>6, EventCreatedOK DEF ContractsOK
<1>8. d \in EventDetails
  <2>1. /\ plan.fee \in Uint /\ plan.seats \in Uint
        /\ plan.opens \in Uint /\ plan.closes \in Uint
    BY <1>1 DEF Plans
  <2>2. id \in Uint /\ Controller \in Accounts
    BY <1>1, FactoryOpsAssumption DEF ContractsOK
  <2>3. 0 < plan.opens /\ plan.opens < plan.closes
    BY <1>1 DEF CanCreateEvent
  <2>4. QED
    BY <1>7, <2>1, <2>2, <2>3 DEF d, Details, EventDetails
<1>9. EventOK(Deployed(d))
  BY <1>8, NewStateOK, EventStateOK DEF Deployed
<1>10. ContractsOK(Controller', registry', coffer', events')
  <2>1. \A k \in DOMAIN events' : EventOK(events'[k])
    BY <1>1, <1>3, <1>9 DEF ContractsOK
  <2>2. Deployed(d).vault.platform = 0
    BY DEF Deployed, EventState, NewVault
  <2>3. FeeWeis(events') = FeeWeis(events)
    BY <1>3, <2>2, SameFeeWeis
  <2>4. IsFiniteSet(FeeWeis(events')) /\ FeesBalance(coffer', events')
    BY <1>1, <2>3 DEF CreateEvent, ContractsOK, FeesBalance
  <2>5. QED
    BY <1>1, <1>3, <1>7, <2>1, <2>4 DEF CreateEvent, ContractsOK
<1>11. QED
  BY <1>10, DoneKeepsFrames, IInvNext DEF CreateEvent, IInv

(* changeController keeps the invariant.                                    *)
LEMMA ChangeControllerKeepsIInv ==
  ASSUME IInv, NEW a, NEW new \in Accounts, ChangeController(a, new)
  PROVE  IInv'
<1>1. ContractsOK(Controller', registry', coffer', events')
  BY CofferMovedOK, CofferOK DEF ChangeController
<1>2. QED
  BY <1>1, DoneKeepsFrames, IInvNext DEF ChangeController, IInv

(* The event a call of the factory goes to exists: the id leads to it.      *)
LEMMA ChildExists ==
  ASSUME IInv, NEW id \in Ids, HasChild(registry, id)
  PROVE  ChildOf(registry, id) \in DOMAIN events
<1>1. FoundById(registry, DetailsOf(events))
  BY DEF IInv, ContractsOK, RegistryOK
<1>2. registry.event_To_ID[id].eventAddress \in DOMAIN DetailsOf(events)
  BY <1>1 DEF FoundById, HasChild
<1>3. QED
  BY <1>2 DEF DetailsOf, ChildOf

(* withdrawFromChild keeps the invariant: the event pays what the factory   *)
(* gets.                                                                    *)
LEMMA WithdrawFromChildKeepsIInv ==
  ASSUME IInv, NEW a, NEW id \in Ids, WithdrawFromChild(a, id)
  PROVE  IInv'
<1> DEFINE c == ChildOf(registry, id)
           ev == events[c]
           fee == FeeOf(ev.store.totalEthFromTicket)
<1>1. c \in DOMAIN events /\ CanWithdraw(ev.store, ev.vault)
  BY ChildExists DEF WithdrawFromChild, MayCallChild
<1>2. /\ events' = Updated(c, Withdrawn(ev.store), ev.tickets, ev.poaps,
                           PaidToPlatform(ev.vault, fee))
      /\ coffer' = [coffer EXCEPT !.balance = @ + fee]
      /\ Controller' = Controller /\ registry' = registry
  BY DEF WithdrawFromChild
<1> HIDE DEF c
<1>3. /\ ev.store \in TicketStorage
      /\ StateOK(ev.details, ev.store, ev.tickets, ev.poaps, ev.vault)
  BY <1>1, EventKnown
<1>4. ev.store.totalEthFromTicket \in Nat
  BY <1>3, MaxUintAssumption DEF TicketStorage, Uint
<1>5. fee \in Nat
  BY <1>4, FeeBounds
<1>6. StateOK(ev.details, Withdrawn(ev.store), ev.tickets, ev.poaps,
              PaidToPlatform(ev.vault, fee))
  BY <1>1, <1>3, WithdrawnOK
<1>7. coffer' \in Coffers /\ Earned(coffer') = Earned(coffer) + fee
  BY <1>2, <1>5, CofferOK
<1>8. ContractsOK(Controller', registry', coffer', events')
  <2>1. PaidToPlatform(ev.vault, fee).platform = ev.vault.platform + fee
    BY <1>1, VaultFees
  <2>2. QED
    BY <1>1, <1>2, <1>5, <1>6, <1>7, <2>1, UpdatedOK
<1>9. QED
  BY <1>8, DoneKeepsFrames, IInvNext DEF WithdrawFromChild, MayCallChild, IInv

(* openWithdrawalChild and pauseWithdrawalChild keep the invariant.         *)
LEMMA SetWithdrawalChildKeepsIInv ==
  ASSUME IInv, NEW a, NEW id \in Ids, NEW open \in BOOLEAN,
         SetWithdrawalChild(a, id, open)
  PROVE  IInv'
<1> DEFINE c == ChildOf(registry, id)
           ev == events[c]
<1>1. c \in DOMAIN events
  BY ChildExists DEF SetWithdrawalChild, MayCallChild
<1>2. /\ events' = Updated(c, [ev.store EXCEPT !.withdrawIsOpen = open],
                           ev.tickets, ev.poaps, ev.vault)
      /\ coffer' = coffer /\ Controller' = Controller /\ registry' = registry
  BY DEF SetWithdrawalChild
<1> HIDE DEF c
<1>3. StateOK(ev.details, [ev.store EXCEPT !.withdrawIsOpen = open],
              ev.tickets, ev.poaps, ev.vault)
  BY <1>1, EventKnown, GateOK
<1>4. ContractsOK(Controller', registry', coffer', events')
  BY <1>1, <1>2, <1>3, UnpaidOK, CofferOK
<1>5. QED
  BY <1>4, DoneKeepsFrames, IInvNext DEF SetWithdrawalChild, MayCallChild, IInv

(* TicketFactory.withdraw keeps the invariant, whoever is paid.             *)
LEMMA WithdrawFactoryKeepsIInv ==
  ASSUME IInv, NEW a, NEW amount \in Amounts, NEW to, WithdrawFactory(a, amount, to)
  PROVE  IInv'
<1>1. coffer' \in Coffers /\ Earned(coffer') = Earned(coffer)
  BY PlatformAssumption, CofferOK
  DEF WithdrawFactory, CanWithdrawFactory, PaidOut
<1>2. Controller \in Accounts
  BY DEF IInv, ContractsOK
<1>3. ContractsOK(Controller', registry', coffer', events')
  BY <1>1, <1>2, CofferMovedOK DEF WithdrawFactory
<1>4. CallsInv' /\ FramesOK'
  BY AwaitKeepsFrames, DoneKeepsFrames DEF WithdrawFactory, Ops
<1>5. QED
  BY <1>3, <1>4, IInvNext DEF WithdrawFactory, IInv

(* The same when it is an event that is paid: it takes a gift.              *)
LEMMA WithdrawFactoryToEventKeepsIInv ==
  ASSUME IInv, NEW a, NEW amount \in Amounts, NEW c \in DOMAIN events,
         WithdrawFactoryToEvent(a, amount, c)
  PROVE  IInv'
<1> DEFINE ev == events[c]
<1>1. coffer' \in Coffers /\ Earned(coffer') = Earned(coffer) /\ amount \in Nat
  BY PlatformAssumption, CofferOK
  DEF WithdrawFactoryToEvent, CanWithdrawFactory, PaidOut
<1>2. StateOK(ev.details, ev.store, ev.tickets, ev.poaps,
              Gifted(ev.vault, amount))
  BY <1>1, EventKnown, GiftedOK
<1>3. /\ events' = Updated(c, ev.store, ev.tickets, ev.poaps,
                           Gifted(ev.vault, amount))
      /\ Controller' = Controller /\ registry' = registry
  BY DEF WithdrawFactoryToEvent
<1> HIDE DEF ev
<1>4. ContractsOK(Controller', registry', coffer', events')
  BY <1>1, <1>2, <1>3, UnpaidOK, VaultFees DEF ev
<1>5. QED
  BY <1>4, DoneKeepsFrames, IInvNext DEF WithdrawFactoryToEvent, IInv

(* Gifts to the factory keep the invariant.                                 *)
LEMMA ReceiveKeepsIInv ==
  ASSUME IInv, NEW a, NEW value \in Values, Receive(a, value)
  PROVE  IInv'
<1>1. coffer' \in Coffers /\ Earned(coffer') = Earned(coffer)
  BY PlatformAssumption, CofferOK DEF Receive
<1>2. Controller \in Accounts
  BY DEF IInv, ContractsOK
<1>3. ContractsOK(Controller', registry', coffer', events')
  BY <1>1, <1>2, CofferMovedOK DEF Receive
<1>4. QED
  BY <1>3, DoneKeepsFrames, IInvNext DEF Receive, IInv

(* register keeps the invariant.                                            *)
LEMMA RegisterKeepsIInv ==
  ASSUME IInv, NEW a \in Accounts, NEW c \in DOMAIN events,
         NEW value \in Values, Register(a, c, value)
  PROVE  IInv'
<1> DEFINE ev == events[c]
           id == NextId(ev.details, ev.store)
           minted == Mint(ev.tickets, a, id)
           store1 == Registered(ev.store, a, value)
           vault1 == Deposited(ev.vault, value)
<1>1. /\ MayCall(a)
      /\ CanRegister(ev.details, ev.store, ev.tickets, a, value, clock)
      /\ \/ /\ events' = Updated(c, store1, minted, ev.poaps, vault1)
            /\ Await("register", c, id)
         \/ /\ events' = Updated(c, store1, SetTokenURI(minted, id), ev.poaps,
                                 vault1)
            /\ Done
      /\ Controller' = Controller /\ registry' = registry /\ coffer' = coffer
      /\ clock' = clock
  BY DEF Register
<1>2. value \in Nat
  BY PlatformAssumption
<1>3. StateOK(ev.details, store1, minted, ev.poaps, vault1)
  BY <1>1, <1>2, EventKnown, RegisteredOK, PlatformAssumption
<1>4. Exists(minted, id)
  BY DEF Exists, Mint
<1> HIDE DEF ev, id, minted, store1, vault1
<1>5. StateOK(ev.details, store1, SetTokenURI(minted, id), ev.poaps, vault1)
  BY <1>3, <1>4, TicketURISetOK
<1>6. ContractsOK(Controller', registry', coffer', events')
  <2>1. vault1.platform = events[c].vault.platform
    BY VaultFees DEF vault1, ev
  <2>2. QED
    BY <1>1, <1>3, <1>5, <2>1, UnpaidOK, CofferOK DEF ev
<1>7. CallsInv' /\ FramesOK'
  BY <1>1, AwaitKeepsFrames, DoneKeepsFrames DEF Ops
<1>8. QED
  BY <1>1, <1>6, <1>7, IInvNext DEF IInv

(* setAttenders keeps the invariant.                                        *)
LEMMA SetAttendersKeepsIInv ==
  ASSUME IInv, NEW a, NEW c \in DOMAIN events, NEW batch,
         SetAttenders(a, c, batch)
  PROVE  IInv'
<1> DEFINE ev == events[c]
<1>1. /\ CanSetAttenders(ev.details, ev.store, a, batch)
      /\ events' = Updated(c, Attended(ev.store, batch), ev.tickets, ev.poaps,
                           ev.vault)
      /\ Controller' = Controller /\ registry' = registry /\ coffer' = coffer
  BY DEF SetAttenders
<1>2. StateOK(ev.details, Attended(ev.store, batch), ev.tickets, ev.poaps,
              ev.vault)
  BY <1>1, EventKnown, AttendedOK
<1> HIDE DEF ev
<1>3. ContractsOK(Controller', registry', coffer', events')
  BY <1>1, <1>2, UnpaidOK, VaultFees, CofferOK DEF ev
<1>4. QED
  BY <1>3, DoneKeepsFrames, IInvNext DEF SetAttenders, IInv

(* claimAttendanceToken keeps the invariant.                                *)
LEMMA ClaimKeepsIInv ==
  ASSUME IInv, NEW a \in Accounts, NEW c \in DOMAIN events,
         ClaimAttendanceToken(a, c)
  PROVE  IInv'
<1> DEFINE ev == events[c]
           id == NextId(ev.details, ev.store)
           minted == Mint(ev.poaps, a, id)
           store1 == Claimed(ev.store, a)
<1>1. /\ MayCall(a)
      /\ CanClaim(ev.details, ev.store, ev.poaps, a)
      /\ \/ /\ events' = Updated(c, store1, ev.tickets, minted, ev.vault)
            /\ Await("claim", c, id)
         \/ /\ events' = Updated(c, store1, ev.tickets,
                                 SetTokenURI(minted, id), ev.vault)
            /\ Done
      /\ Controller' = Controller /\ registry' = registry /\ coffer' = coffer
      /\ clock' = clock
  BY DEF ClaimAttendanceToken
<1>2. StateOK(ev.details, store1, ev.tickets, minted, ev.vault)
  BY <1>1, EventKnown, ClaimedOK, PlatformAssumption
<1>3. Exists(minted, id)
  BY DEF Exists, Mint
<1> HIDE DEF ev, id, minted, store1
<1>4. StateOK(ev.details, store1, ev.tickets, SetTokenURI(minted, id), ev.vault)
  BY <1>2, <1>3, PoapURISetOK
<1>5. ContractsOK(Controller', registry', coffer', events')
  BY <1>1, <1>2, <1>4, UnpaidOK, CofferOK DEF ev
<1>6. CallsInv' /\ FramesOK'
  BY <1>1, AwaitKeepsFrames, DoneKeepsFrames DEF Ops
<1>7. QED
  BY <1>1, <1>5, <1>6, IInvNext DEF IInv

(* withdrawEthEventAdmin keeps the invariant.                               *)
LEMMA WithdrawEventAdminKeepsIInv ==
  ASSUME IInv, NEW a, NEW c \in DOMAIN events, NEW amount \in Amounts,
         WithdrawEthEventAdmin(a, c, amount)
  PROVE  IInv'
<1> DEFINE ev == events[c]
<1>1. /\ MayCall(a)
      /\ CanWithdrawEventAdmin(ev.details, ev.store, ev.vault, a, amount)
      /\ events' = Updated(c, WithdrawnByEventAdmin(ev.store, amount),
                           ev.tickets, ev.poaps,
                           PaidToOrganizer(ev.vault, amount))
      /\ Controller' = Controller /\ registry' = registry /\ coffer' = coffer
      /\ clock' = clock
      /\ Await("pay", c, 0) \/ Done
  BY DEF WithdrawEthEventAdmin
<1>2. amount \in Nat
  BY PlatformAssumption
<1>3. StateOK(ev.details, WithdrawnByEventAdmin(ev.store, amount), ev.tickets,
              ev.poaps, PaidToOrganizer(ev.vault, amount))
  BY <1>1, <1>2, EventKnown, WithdrawnByEventAdminOK
<1> HIDE DEF ev
<1>4. ContractsOK(Controller', registry', coffer', events')
  BY <1>1, <1>3, UnpaidOK, VaultFees, CofferOK DEF ev
<1>5. CallsInv' /\ FramesOK'
  BY <1>1, AwaitKeepsFrames, DoneKeepsFrames DEF Ops
<1>6. QED
  BY <1>1, <1>4, <1>5, IInvNext DEF IInv

(* Gifts to an event keep the invariant.                                    *)
LEMMA GiveKeepsIInv ==
  ASSUME IInv, NEW a, NEW c \in DOMAIN events, NEW value \in Values,
         Give(a, c, value)
  PROVE  IInv'
<1> DEFINE ev == events[c]
<1>1. /\ events' = Updated(c, ev.store, ev.tickets, ev.poaps,
                           Gifted(ev.vault, value))
      /\ Controller' = Controller /\ registry' = registry /\ coffer' = coffer
  BY DEF Give
<1>2. StateOK(ev.details, ev.store, ev.tickets, ev.poaps,
              Gifted(ev.vault, value))
  BY EventKnown, GiftedOK, PlatformAssumption
<1> HIDE DEF ev
<1>3. ContractsOK(Controller', registry', coffer', events')
  BY <1>1, <1>2, UnpaidOK, VaultFees, CofferOK DEF ev
<1>4. QED
  BY <1>3, DoneKeepsFrames, IInvNext DEF Give, IInv

(* After the callback: _setTokenURI, if the function was a mint.            *)
LEMMA UnwindKeepsIInv ==
  ASSUME IInv, Unwind
  PROVE  IInv'
<1> DEFINE c == Top.event
           ev == events[c]
<1>1. /\ stack # <<>> /\ Leave
      /\ Controller' = Controller /\ registry' = registry /\ coffer' = coffer
      /\ clock' = clock
  BY DEF Unwind
<1>2. CallsInv' /\ FramesOK' /\ Len(stack) \in DOMAIN stack
  BY <1>1, LeaveKeepsFrames
<1>3. Top.op \in Ops
  BY <1>2 DEF IInv, FramesOK, Top
<1>4. \/ /\ Exists(ev.tickets, Top.id)
         /\ events' = Updated(c, ev.store, SetTokenURI(ev.tickets, Top.id),
                              ev.poaps, ev.vault)
      \/ /\ Exists(ev.poaps, Top.id)
         /\ events' = Updated(c, ev.store, ev.tickets,
                              SetTokenURI(ev.poaps, Top.id), ev.vault)
      \/ events' = events
  BY <1>3 DEF Unwind, Ops
<1> HIDE DEF c
<1>5. CASE c \in DOMAIN events
  <2>1. Exists(ev.tickets, Top.id) =>
          StateOK(ev.details, ev.store, SetTokenURI(ev.tickets, Top.id),
                  ev.poaps, ev.vault)
    BY <1>5, EventKnown, TicketURISetOK
  <2>2. Exists(ev.poaps, Top.id) =>
          StateOK(ev.details, ev.store, ev.tickets,
                  SetTokenURI(ev.poaps, Top.id), ev.vault)
    BY <1>5, EventKnown, PoapURISetOK
  <2> HIDE DEF ev
  <2>3. CASE events' = events
    BY <1>1, <1>2, <2>3, IInvNext DEF IInv
  <2>4. CASE events' # events
    <3>1. ContractsOK(Controller', registry', coffer', events')
      BY <1>1, <1>4, <1>5, <2>1, <2>2, <2>4, UnpaidOK, CofferOK DEF ev
    <3>2. QED
      BY <1>1, <1>2, <3>1, IInvNext DEF IInv
  <2>5. QED
    BY <2>3, <2>4
<1>6. CASE c \notin DOMAIN events
  <2>1. DOMAIN events' = DOMAIN events
    BY <1>4 DEF Updated
  <2>2. \A k \in DOMAIN events : events'[k] = events[k]
    BY <1>4, <1>6 DEF Updated
  <2>3. DetailsOf(events') = DetailsOf(events)
    BY <2>1, <2>2 DEF DetailsOf
  <2>4. FeeWeis(events') = FeeWeis(events)
    BY <2>1, <2>2, SameFeeWeis
  <2>5. ContractsOK(Controller', registry', coffer', events')
    BY <1>1, <2>1, <2>2, <2>3, <2>4 DEF IInv, ContractsOK, FeesBalance
  <2>6. QED
    BY <1>1, <1>2, <2>5, IInvNext DEF IInv
<1>7. QED
  BY <1>5, <1>6

(* A revert brings back a saved state of all contracts, which is consistent. *)
LEMMA RevertKeepsIInv ==
  ASSUME IInv, Revert
  PROVE  IInv'
<1>1. CallsInv' /\ FramesOK' /\ Len(stack) \in DOMAIN stack
  BY LeaveKeepsFrames DEF Revert
<1>2. ContractsOK(Top.saved.Controller, Top.saved.registry, Top.saved.coffer,
                  Top.saved.events)
  BY <1>1 DEF IInv, FramesOK, Top
<1>3. ContractsOK(Controller', registry', coffer', events')
  BY <1>2 DEF Revert
<1>4. QED
  BY <1>1, <1>3, IInvNext DEF Revert, IInv

(* Time passing keeps the invariant.                                        *)
LEMMA TickKeepsIInv ==
  ASSUME IInv, Tick
  PROVE  IInv'
<1>1. clock' \in Nat
  BY DEF IInv, Tick
<1>2. CallsInv' /\ FramesOK'
  BY DEF IInv, Tick, CallsInv, FramesOK
<1>3. ContractsOK(Controller', registry', coffer', events')
  BY DEF IInv, Tick
<1>4. QED
  BY <1>1, <1>2, <1>3, IInvNext

(* Every step keeps the invariant.                                          *)
LEMMA StepIInv == IInv /\ [Next]_vars => IInv'
<1> SUFFICES ASSUME IInv, [Next]_vars PROVE IInv'
  OBVIOUS
<1>1. ASSUME NEW a \in Accounts, FactoryCall(a) PROVE IInv'
  BY <1>1, CreateIDKeepsIInv, CreateEventKeepsIInv, ChangeControllerKeepsIInv,
     WithdrawFromChildKeepsIInv, SetWithdrawalChildKeepsIInv,
     WithdrawFactoryKeepsIInv, WithdrawFactoryToEventKeepsIInv,
     ReceiveKeepsIInv
  DEF FactoryCall
<1>2. ASSUME NEW a \in Accounts, NEW c \in DOMAIN events, EventCall(a, c)
      PROVE  IInv'
  BY <1>2, RegisterKeepsIInv, SetAttendersKeepsIInv, ClaimKeepsIInv,
     WithdrawEventAdminKeepsIInv, GiveKeepsIInv
  DEF EventCall
<1>3. CASE UNCHANGED vars
  BY <1>3 DEF vars, IInv, CallsInv, FramesOK
<1>4. QED
  BY <1>1, <1>2, <1>3, UnwindKeepsIInv, RevertKeepsIInv, TickKeepsIInv
  DEF Next

-----------------------------------------------------------------------------
(* Theorems *)

(* All contracts are consistent in every reachable state, and so is every   *)
(* state a revert would bring back.                                         *)
THEOREM PlatformInvariant == Spec => []IInv
BY InitIInv, StepIInv, PTL DEF Spec

(* Every variable, and every state kept for a revert, has its type.         *)
THEOREM PlatformTypeCorrect == Spec => []TypeOK
<1>1. IInv => TypeOK
  <2> SUFFICES ASSUME IInv PROVE TypeOK
    OBVIOUS
  <2>1. ContractsTypeOK(State)
    <3>1. /\ State.Controller = Controller /\ State.registry = registry
          /\ State.coffer = coffer /\ State.events = events
      BY DEF State
    <3>2. QED
      BY <3>1, ContractsOKTypes DEF IInv
  <2>2. ASSUME NEW i \in DOMAIN stack
        PROVE  stack[i].op \in Ops /\ ContractsTypeOK(stack[i].saved)
    BY ContractsOKTypes DEF IInv, FramesOK
  <2>3. QED
    BY <2>1, <2>2 DEF IInv, TypeOK
<1>2. QED
  BY <1>1, PlatformInvariant, PTL

(* createID and createEvent keep the registry and the events in agreement,  *)
(* whoever calls in between and whatever is undone: every event is listed   *)
(* once, found by its id and its address, and belongs to its organizer.     *)
THEOREM RegistryStaysConsistent == Spec => []RegistryConsistent
<1>1. IInv => RegistryConsistent
  BY DEF IInv, ContractsOK, RegistryConsistent
<1>2. QED
  BY <1>1, PlatformInvariant, PTL

(* Calls across the factory and other events never leave an event           *)
(* inconsistent: its numbers, seats and money are in order.                 *)
THEOREM EventsStayConsistent == Spec => []EventsConsistent
<1>1. IInv => EventsConsistent
  BY DEF IInv, ContractsOK, EventOK, EventsConsistent
<1>2. QED
  BY <1>1, PlatformInvariant, PTL

(* No fee is lost or counted twice between the contracts: what the factory  *)
(* holds and has paid is what its events paid it and what it was given,     *)
(* also after a revert has undone part of it.                               *)
THEOREM FeesAlwaysArrive == Spec => []FeesArrive
<1>1. IInv => FeesArrive
  BY DEF IInv, ContractsOK, FeesArrive
<1>2. QED
  BY <1>1, PlatformInvariant, PTL

-----------------------------------------------------------------------------
(* Platform implements Registry: what the chain sees between transactions   *)
(* moves as Registry says.                                                  *)
(*                                                                          *)
(* A transaction is the sum of its calls without those that were reverted.  *)
(* Each call only adds to what a state promises (Later), a revert leads     *)
(* back to a state that is itself later than the start of the transaction,  *)
(* and at the end of a transaction what it started from is promised still.  *)

\* Of two states of the contracts, t keeps every promise s makes.
Later(s, t) ==
  /\ \A id \in Ids :
       LET d == s.registry.event_To_ID[id]
           d1 == t.registry.event_To_ID[id] IN
       /\ d.admin # ZeroAddress => d1.admin = d.admin
       /\ d.eventAddress # ZeroAddress => d1.eventAddress = d.eventAddress
  /\ \A c \in DOMAIN s.events : /\ c \in DOMAIN t.events
                                /\ t.events[c].details = s.events[c].details

\* The present state and every saved one are later than the start of the
\* transaction.
HistoryOK ==
  /\ Later(Committed, State)
  /\ \A i \in DOMAIN stack : Later(Committed, stack[i].saved)

-----------------------------------------------------------------------------
(* Promises are kept by steps, and add up *)

(* A state keeps its own promises.                                          *)
LEMMA LaterSame == ASSUME NEW s PROVE Later(s, s)
BY DEF Later

(* What is later than a later state is later.                               *)
LEMMA LaterAddsUp ==
  ASSUME NEW s, NEW t, NEW u, Later(s, t), Later(t, u)
  PROVE  Later(s, u)
BY DEF Later

(* The parts of the present and of the next state of all contracts.         *)
LEMMA StateParts ==
  /\ State.registry = registry /\ State.events = events
  /\ State'.registry = registry' /\ State'.events = events'
BY DEF State

(* A function of an event changes no promise: the details stay.             *)
LEMMA UpdatedLater ==
  ASSUME registry' = registry,
         \/ events' = events
         \/ \E c, s, tl, pl, v : events' = Updated(c, s, tl, pl, v)
  PROVE  Later(State, State')
<1>1. CASE events' = events
  BY <1>1, StateParts DEF Later
<1>2. ASSUME NEW c, NEW s, NEW tl, NEW pl, NEW v,
             events' = Updated(c, s, tl, pl, v)
      PROVE  Later(State, State')
  <2> DEFINE ev1 == EventState(events[c].details, s, tl, pl, v)
  <2>1. events' = [events EXCEPT ![c] = ev1]
    BY <1>2 DEF Updated
  <2>2. ev1.details = events[c].details
    BY DEF EventState
  <2> HIDE DEF ev1
  <2>3. \A k \in DOMAIN events : /\ k \in DOMAIN events'
                                 /\ events'[k].details = events[k].details
    BY <2>1, <2>2
  <2>4. QED
    BY <2>3, StateParts DEF Later
<1>3. QED
  BY <1>1, <1>2

(* createID gives away only ids nobody has.                                 *)
LEMMA CreateIDLater ==
  ASSUME IInv, NEW a, NEW id \in Ids, NEW admin \in Accounts,
         CreateID(a, id, admin)
  PROVE  Later(State, State')
<1> DEFINE d1 == [registry.event_To_ID[id] EXCEPT !.admin = admin,
                                   !.ID_Is_Created = TRUE, !.id = id]
<1>1. /\ registry \in Registries
      /\ FoundById(registry, DetailsOf(events))
  BY DEF IInv, ContractsOK, RegistryOK
<1>2. registry.event_To_ID \in [Ids -> EventDetail]
  BY <1>1 DEF Registries
<1>3. /\ registry'.event_To_ID = [registry.event_To_ID EXCEPT ![id] = d1]
      /\ events' = events
  <2>1. registry' = [registry EXCEPT !.event_To_ID[id] = d1]
    BY DEF CreateID, IDCreated
  <2> HIDE DEF d1
  <2>2. QED
    BY <1>1, <2>1 DEF Registries, CreateID
<1>4. d1.eventAddress = registry.event_To_ID[id].eventAddress
  BY <1>2 DEF EventDetail
<1>5. registry.event_To_ID[id].admin = ZeroAddress
  BY <1>1 DEF FoundById, CreateID, CanCreateID
<1> HIDE DEF d1
<1>6. QED
  BY <1>2, <1>3, <1>4, <1>5, StateParts DEF Later

(* createEvent gives an event only to ids that have none, and leaves the    *)
(* id with the organizer it had.                                            *)
LEMMA CreateEventLater ==
  ASSUME IInv, NEW a, NEW id \in Ids, NEW plan, NEW c, CreateEvent(a, id, plan, c)
  PROVE  Later(State, State')
<1> DEFINE d1 == [registry.event_To_ID[id] EXCEPT !.ID_Is_Used = TRUE,
                    !.eventAddress = c, !.admin = a, !.id = id]
<1>1. /\ registry \in Registries
      /\ FoundById(registry, DetailsOf(events))
  BY DEF IInv, ContractsOK, RegistryOK
<1>2. registry.event_To_ID \in [Ids -> EventDetail]
  BY <1>1 DEF Registries
<1>3. registry'.event_To_ID = [registry.event_To_ID EXCEPT ![id] = d1]
  BY DEF CreateEvent, EventCreated
<1>4. /\ registry.event_To_ID[id].admin = a
      /\ registry.event_To_ID[id].eventAddress = ZeroAddress
  BY <1>1 DEF FoundById, CreateEvent, CanCreateEvent
<1>5. d1.admin = a
  BY <1>2 DEF EventDetail
<1> HIDE DEF d1
<1>6. \A k \in DOMAIN events : k \in DOMAIN events' /\ events'[k] = events[k]
  BY DEF CreateEvent
<1>7. QED
  BY <1>2, <1>3, <1>4, <1>5, <1>6, StateParts DEF Later

(* Every call keeps every promise, whichever way it ends.                   *)
LEMMA CallLater ==
  ASSUME IInv, NEW a \in Accounts,
         FactoryCall(a) \/ \E c \in DOMAIN events : EventCall(a, c)
  PROVE  Later(State, State')
<1>1. ASSUME NEW id \in Ids, NEW admin \in Accounts, CreateID(a, id, admin)
      PROVE  Later(State, State')
  BY <1>1, CreateIDLater
<1>2. ASSUME NEW id \in Ids, NEW plan, NEW c, CreateEvent(a, id, plan, c)
      PROVE  Later(State, State')
  BY <1>2, CreateEventLater
<1>3. ASSUME NEW new, ChangeController(a, new)
      PROVE  Later(State, State')
  BY <1>3, UpdatedLater DEF ChangeController
<1>4. ASSUME NEW id, WithdrawFromChild(a, id)
      PROVE  Later(State, State')
  BY <1>4, UpdatedLater DEF WithdrawFromChild
<1>5. ASSUME NEW id, NEW open, SetWithdrawalChild(a, id, open)
      PROVE  Later(State, State')
  BY <1>5, UpdatedLater DEF SetWithdrawalChild
<1>6. ASSUME NEW amount, NEW to, WithdrawFactory(a, amount, to)
      PROVE  Later(State, State')
  BY <1>6, UpdatedLater DEF WithdrawFactory
<1>7. ASSUME NEW amount, NEW c, WithdrawFactoryToEvent(a, amount, c)
      PROVE  Later(State, State')
  BY <1>7, UpdatedLater DEF WithdrawFactoryToEvent
<1>8. ASSUME NEW value, Receive(a, value)
      PROVE  Later(State, State')
  BY <1>8, UpdatedLater DEF Receive
<1>9. ASSUME NEW c, EventCall(a, c)
      PROVE  Later(State, State')
  <2>1. /\ registry' = registry
        /\ \E k, s, tl, pl, v : events' = Updated(k, s, tl, pl, v)
    BY <1>9 DEF EventCall, Register, SetAttenders, ClaimAttendanceToken,
                WithdrawEthEventAdmin, Give
  <2>2. QED
    BY <2>1, UpdatedLater
<1>10. QED
  BY <1>1, <1>2, <1>3, <1>4, <1>5, <1>6, <1>7, <1>8, <1>9 DEF FactoryCall

-----------------------------------------------------------------------------
(* What is committed *)

(* A call that ends at once is committed at once when it is a transaction   *)
(* of its own, and otherwise leaves what is committed as it was.            *)
LEMMA DoneKeepsHistory ==
  ASSUME IInv, HistoryOK, NEW a, MayCall(a), Done, Later(State, State')
  PROVE  HistoryOK' /\ (Committed' = Committed \/ Committed' = State')
<1>1. stack' = stack /\ Later(Committed, State')
  BY LaterAddsUp DEF HistoryOK, Done
<1>2. CASE stack = <<>>
  <2>1. Committed' = State' /\ DOMAIN stack' = {}
    BY <1>1, <1>2, FirstFrame DEF Committed, IInv, CallsInv
  <2>2. QED
    BY <2>1, LaterSame DEF HistoryOK
<1>3. CASE stack # <<>>
  <2>1. Committed' = Committed
    BY <1>1, <1>3 DEF Committed
  <2>2. QED
    BY <1>1, <2>1 DEF HistoryOK
<1>4. QED
  BY <1>2, <1>3

(* A call that waits for a callback commits nothing yet: the first frame    *)
(* saves what was committed.                                                *)
LEMMA AwaitKeepsHistory ==
  ASSUME IInv, HistoryOK, NEW a, MayCall(a), NEW op, NEW c, NEW id,
         Await(op, c, id), Later(State, State')
  PROVE  HistoryOK' /\ Committed' = Committed
<1> DEFINE frame == [op |-> op, event |-> c, id |-> id, saved |-> State]
<1>1. Push(frame) /\ frame.saved = State
  BY DEF Await
<1> HIDE DEF frame
<1>2. /\ CallsInv'
      /\ DOMAIN stack' = DOMAIN stack \cup {Len(stack')}
      /\ \A i \in DOMAIN stack : stack'[i] = stack[i]
      /\ stack'[Len(stack')] = frame
  BY <1>1, PushOK DEF IInv
<1>3. stack' \in Seq({stack'[i] : i \in DOMAIN stack'})
  BY <1>2 DEF CallsInv
<1>4. stack' # <<>> /\ 1 \in DOMAIN stack'
  BY <1>2, <1>3, FirstFrame
<1>5. Committed' = stack'[1].saved
  BY <1>4 DEF Committed
<1>6. Committed' = Committed
  <2>1. CASE stack = <<>>
    <3>1. DOMAIN stack = {}
      BY <2>1, FirstFrame DEF IInv, CallsInv
    <3>2. stack'[1] = frame
      BY <1>2, <1>4, <3>1
    <3>3. QED
      BY <1>1, <1>5, <2>1, <3>2 DEF Committed
  <2>2. CASE stack # <<>>
    <3>1. 1 \in DOMAIN stack
      BY <2>2, FirstFrame DEF IInv, CallsInv
    <3>2. QED
      BY <1>2, <1>5, <2>2, <3>1 DEF Committed
  <2>3. QED
    BY <2>1, <2>2
<1>7. Later(Committed, State) /\ Later(Committed, State')
  BY LaterAddsUp DEF HistoryOK
<1>8. ASSUME NEW i \in DOMAIN stack'
      PROVE  Later(Committed, stack'[i].saved)
  <2>1. CASE i \in DOMAIN stack
    BY <1>2, <2>1 DEF HistoryOK
  <2>2. CASE i \notin DOMAIN stack
    BY <1>1, <1>2, <1>7, <2>2
  <2>3. QED
    BY <2>1, <2>2
<1>9. QED
  BY <1>6, <1>7, <1>8 DEF HistoryOK

(* With the last frame the transaction is committed.                        *)
LEMMA LeaveKeepsHistory ==
  ASSUME IInv, HistoryOK, stack # <<>>, Leave, Later(Committed, State')
  PROVE  HistoryOK' /\ (Committed' = Committed \/ Committed' = State')
<1>1. /\ CallsInv'
      /\ DOMAIN stack' \subseteq DOMAIN stack
      /\ \A i \in DOMAIN stack' : stack'[i] = stack[i]
  BY LeaveOK DEF IInv
<1>2. stack' \in Seq({stack'[i] : i \in DOMAIN stack'})
  BY <1>1 DEF CallsInv
<1>3. CASE stack' = <<>>
  <2>1. Committed' = State' /\ DOMAIN stack' = {}
    BY <1>2, <1>3, FirstFrame DEF Committed
  <2>2. QED
    BY <2>1, LaterSame DEF HistoryOK
<1>4. CASE stack' # <<>>
  <2>1. 1 \in DOMAIN stack'
    BY <1>2, <1>4, FirstFrame
  <2>2. Committed' = Committed
    BY <1>1, <1>4, <2>1 DEF Committed
  <2>3. QED
    BY <1>1, <2>2 DEF HistoryOK
<1>5. QED
  BY <1>3, <1>4

(* How a call by an account uses the stack.                                 *)
LEMMA CallShape ==
  ASSUME NEW a, FactoryCall(a) \/ \E c \in DOMAIN events : EventCall(a, c)
  PROVE  MayCall(a) /\ (Done \/ \E op, c, id : Await(op, c, id))
BY DEF FactoryCall, EventCall, CreateID, CreateEvent, ChangeController,
       WithdrawFromChild, SetWithdrawalChild, MayCallChild, WithdrawFactory,
       WithdrawFactoryToEvent, Receive, Register, SetAttenders,
       ClaimAttendanceToken, WithdrawEthEventAdmin, Give

(* After a callback a token gets its URI, which is no promise.              *)
LEMMA UnwindLater == ASSUME IInv, Unwind PROVE Later(State, State')
<1>1. Len(stack) \in DOMAIN stack
  BY LeaveOK DEF IInv, Unwind
<1>2. Top.op \in Ops
  BY <1>1 DEF IInv, FramesOK, Top
<1>3. \/ events' = events
      \/ \E c, s, tl, pl, v : events' = Updated(c, s, tl, pl, v)
  BY <1>2 DEF Unwind, Ops
<1>4. QED
  BY <1>3, UpdatedLater DEF Unwind

(* A revert leads to a state that was saved in this transaction.            *)
LEMMA RevertLater ==
  ASSUME IInv, HistoryOK, Revert PROVE Later(Committed, State')
<1>1. Len(stack) \in DOMAIN stack
  BY LeaveOK DEF IInv, Revert
<1>2. Later(Committed, Top.saved)
  BY <1>1 DEF HistoryOK, Top
<1>3. registry' = Top.saved.registry /\ events' = Top.saved.events
  BY DEF Revert
<1>4. QED
  BY <1>2, <1>3, StateParts DEF Later

(* Every step keeps the history in order, and commits what it leads to or   *)
(* nothing.                                                                 *)
LEMMA StepHistory ==
  ASSUME IInv, HistoryOK, [Next]_vars
  PROVE  HistoryOK' /\ Later(Committed, Committed')
<1>1. Later(Committed, State)
  BY DEF HistoryOK
<1>2. ASSUME NEW a \in Accounts,
             FactoryCall(a) \/ \E c \in DOMAIN events : EventCall(a, c)
      PROVE  HistoryOK' /\ Later(Committed, Committed')
  <2>1. Later(State, State')
    BY <1>2, CallLater
  <2>2. Later(Committed, State')
    BY <1>1, <2>1, LaterAddsUp
  <2>3. MayCall(a) /\ (Done \/ \E op, c, id : Await(op, c, id))
    BY <1>2, CallShape
  <2>4. HistoryOK' /\ (Committed' = Committed \/ Committed' = State')
    BY <2>1, <2>3, DoneKeepsHistory, AwaitKeepsHistory
  <2>5. QED
    BY <2>2, <2>4, LaterSame
<1>3. CASE Unwind
  <2>1. Later(Committed, State')
    BY <1>1, <1>3, UnwindLater, LaterAddsUp
  <2>2. HistoryOK' /\ (Committed' = Committed \/ Committed' = State')
    BY <1>3, <2>1, LeaveKeepsHistory DEF Unwind
  <2>3. QED
    BY <2>1, <2>2, LaterSame
<1>4. CASE Revert
  <2>1. Later(Committed, State')
    BY <1>4, RevertLater
  <2>2. HistoryOK' /\ (Committed' = Committed \/ Committed' = State')
    BY <1>4, <2>1, LeaveKeepsHistory DEF Revert
  <2>3. QED
    BY <2>1, <2>2, LaterSame
<1>5. CASE Tick \/ UNCHANGED vars
  <2>1. stack' = stack /\ State' = State
    BY <1>5 DEF Tick, vars, State
  <2>2. Committed' = Committed
    BY <2>1 DEF Committed
  <2>3. QED
    BY <2>1, <2>2, LaterSame DEF HistoryOK
<1>6. QED
  BY <1>2, <1>3, <1>4, <1>5 DEF Next

-----------------------------------------------------------------------------
(* The refinement *)

\* What is committed is consistent.
CommittedOK ==
  ContractsOK(Committed.Controller, Committed.registry, Committed.coffer,
              Committed.events)

(* What is committed is the present state or a saved one.                   *)
LEMMA CommittedIsOK == IInv => CommittedOK
<1> SUFFICES ASSUME IInv PROVE CommittedOK
  OBVIOUS
<1>1. CASE stack = <<>>
  <2>1. /\ Committed.Controller = Controller
        /\ Committed.registry = registry
        /\ Committed.coffer = coffer /\ Committed.events = events
    BY <1>1 DEF Committed, State
  <2>2. QED
    BY <2>1 DEF IInv, CommittedOK
<1>2. CASE stack # <<>>
  <2>1. 1 \in DOMAIN stack
    BY <1>2, FirstFrame DEF IInv, CallsInv
  <2>2. QED
    BY <1>2, <2>1 DEF IInv, FramesOK, CommittedOK, Committed
<1>3. QED
  BY <1>1, <1>2

(* In consistent contracts an id that leads to an event has an owner, the   *)
(* event is the only one's, and says so itself.                             *)
LEMMA PlacesOK ==
  ASSUME NEW ctl, NEW reg, NEW cof, NEW evs, ContractsOK(ctl, reg, cof, evs)
  PROVE  /\ \A id \in Ids :
              /\ reg.event_To_ID[id].admin \in Accounts \cup {ZeroAddress}
              /\ reg.event_To_ID[id].eventAddress \in Addresses \cup {ZeroAddress}
         /\ \A id \in Ids :
              LET d == reg.event_To_ID[id] IN
              d.eventAddress # ZeroAddress =>
                /\ id # 0
                /\ d.admin # ZeroAddress
                /\ d.eventAddress \in DOMAIN evs
                /\ reg.eventAddressToID[d.eventAddress] = id
                /\ evs[d.eventAddress].details.eventNftId = id
                /\ evs[d.eventAddress].details.eventAdmin = d.admin
         /\ \A c \in DOMAIN evs :
              /\ c \in Addresses
              /\ \E id \in Ids : reg.event_To_ID[id].eventAddress = c
<1>1. /\ reg \in Registries
      /\ FoundById(reg, DetailsOf(evs))
      /\ FoundByAddress(reg, DetailsOf(evs))
      /\ DOMAIN evs \subseteq Addresses
  BY DEF ContractsOK, RegistryOK
<1>2. /\ DOMAIN DetailsOf(evs) = DOMAIN evs
      /\ \A c \in DOMAIN evs : DetailsOf(evs)[c] = evs[c].details
  BY DEF DetailsOf
<1>3. ASSUME NEW id \in Ids
      PROVE  reg.event_To_ID[id] \in EventDetail
  BY <1>1 DEF Registries
<1>4. ASSUME NEW id \in Ids, reg.event_To_ID[id].eventAddress # ZeroAddress
      PROVE  LET d == reg.event_To_ID[id] IN
             /\ id # 0
             /\ d.admin # ZeroAddress
             /\ d.eventAddress \in DOMAIN evs
             /\ reg.eventAddressToID[d.eventAddress] = id
             /\ evs[d.eventAddress].details.eventNftId = id
             /\ evs[d.eventAddress].details.eventAdmin = d.admin
  <2> DEFINE d == reg.event_To_ID[id]
             c == d.eventAddress
  <2>1. /\ d.admin # ZeroAddress
        /\ c \in DOMAIN evs
        /\ reg.eventAddressToID[c] = id
    BY <1>1, <1>2, <1>4 DEF FoundById
  <2>2. /\ id # 0
        /\ evs[c].details.eventNftId = id
        /\ evs[c].details.eventAdmin = d.admin
    BY <1>1, <1>2, <2>1 DEF FoundByAddress
  <2>3. QED
    BY <2>1, <2>2
<1>5. ASSUME NEW c \in DOMAIN evs
      PROVE  \E id \in Ids : reg.event_To_ID[id].eventAddress = c
  BY <1>1, <1>2 DEF FoundByAddress
<1>6. QED
  BY <1>1, <1>3, <1>4, <1>5 DEF EventDetail

(* Nothing is given out at the start.                                       *)
LEMMA InitRefines == Init => Abstract!Init
<1> SUFFICES ASSUME Init PROVE Abstract!Init
  OBVIOUS
<1>1. /\ Committed.registry = NewRegistry
      /\ DOMAIN Committed.events = {}
  BY DEF Init, NoCalls, Committed, State
<1>2. \A id \in Ids : /\ NewRegistry.event_To_ID[id].admin = ZeroAddress
                      /\ NewRegistry.event_To_ID[id].eventAddress = ZeroAddress
  BY DEF NewRegistry
<1>3. DetailsOf(Committed.events) = [c \in {} |-> {}]
  BY <1>1 DEF DetailsOf
<1>4. QED
  BY <1>1, <1>2, <1>3 DEF Abstract!Init

(* What becomes committed keeps what was promised and is consistent: that   *)
(* is a transaction of Registry.                                            *)
LEMMA CommitRefines ==
  ASSUME CommittedOK', Later(Committed, Committed')
  PROVE  Abstract!Transaction
<1> DEFINE r == Committed.registry
           r1 == Committed'.registry
           evs == Committed.events
           evs1 == Committed'.events
<1>1. /\ \A id \in Ids :
           /\ r1.event_To_ID[id].admin \in Accounts \cup {ZeroAddress}
           /\ r1.event_To_ID[id].eventAddress \in Addresses \cup {ZeroAddress}
      /\ \A id \in Ids :
           LET d == r1.event_To_ID[id] IN
           d.eventAddress # ZeroAddress =>
             /\ id # 0
             /\ d.admin # ZeroAddress
             /\ d.eventAddress \in DOMAIN evs1
             /\ r1.eventAddressToID[d.eventAddress] = id
             /\ evs1[d.eventAddress].details.eventNftId = id
             /\ evs1[d.eventAddress].details.eventAdmin = d.admin
      /\ \A c \in DOMAIN evs1 :
           /\ c \in Addresses
           /\ \E id \in Ids : r1.event_To_ID[id].eventAddress = c
  <2>1. ContractsOK(Committed'.Controller, Committed'.registry,
                    Committed'.coffer, Committed'.events)
    BY DEF CommittedOK
  <2>2. QED
    BY <2>1, PlacesOK
<1>2. /\ \A id \in Ids :
           /\ r.event_To_ID[id].admin # ZeroAddress =>
                r1.event_To_ID[id].admin = r.event_To_ID[id].admin
           /\ r.event_To_ID[id].eventAddress # ZeroAddress =>
                r1.event_To_ID[id].eventAddress = r.event_To_ID[id].eventAddress
      /\ \A c \in DOMAIN evs : /\ c \in DOMAIN evs1
                               /\ evs1[c].details = evs[c].details
  BY DEF Later
<1> DEFINE owner == [id \in Ids |-> r.event_To_ID[id].admin]
           owner1 == [id \in Ids |-> r1.event_To_ID[id].admin]
           place == [id \in Ids |-> r.event_To_ID[id].eventAddress]
           place1 == [id \in Ids |-> r1.event_To_ID[id].eventAddress]
           terms == [c \in DOMAIN evs |-> evs[c].details]
           terms1 == [c \in DOMAIN evs1 |-> evs1[c].details]
           used1 == {id \in Ids : place1[id] # ZeroAddress}
<1>3. /\ owner1 \in [Ids -> Accounts \cup {ZeroAddress}]
      /\ place1 \in [Ids -> Addresses \cup {ZeroAddress}]
  BY <1>1
<1>4. /\ \A id \in Ids : owner[id] # ZeroAddress => owner1[id] = owner[id]
      /\ \A id \in Ids : place[id] # ZeroAddress => place1[id] = place[id]
  BY <1>2
<1>5. used1 \subseteq {id \in Ids \ {0} : owner1[id] # ZeroAddress}
  BY <1>1
<1>6. \A i, j \in used1 : place1[i] = place1[j] => i = j
  BY <1>1
<1>7. DOMAIN terms1 = {place1[id] : id \in used1}
  <2>1. ZeroAddress \notin Addresses
    BY FactoryOpsAssumption
  <2>2. DOMAIN terms1 = DOMAIN evs1
    OBVIOUS
  <2>3. ASSUME NEW c \in DOMAIN evs1
        PROVE  \E id \in used1 : c = place1[id]
    <3>1. PICK id \in Ids : r1.event_To_ID[id].eventAddress = c
      BY <1>1
    <3>2. place1[id] = c /\ c # ZeroAddress
      BY <1>1, <2>1, <3>1
    <3>3. QED
      BY <3>2
  <2>4. ASSUME NEW id \in used1
        PROVE  place1[id] \in DOMAIN evs1
    <3>1. id \in Ids /\ r1.event_To_ID[id].eventAddress # ZeroAddress
      OBVIOUS
    <3>2. r1.event_To_ID[id].eventAddress \in DOMAIN evs1
      BY <1>1, <3>1
    <3>3. QED
      BY <3>1, <3>2
  <2> HIDE DEF terms1, place1, used1, evs1
  <2>5. QED
    BY <2>2, <2>3, <2>4
<1>8. \A c \in DOMAIN terms : terms1[c] = terms[c]
  BY <1>2
<1>9. \A id \in used1 : /\ terms1[place1[id]].eventNftId = id
                        /\ terms1[place1[id]].eventAdmin = owner1[id]
  BY <1>1
<1>10. QED
  BY <1>3, <1>4, <1>5, <1>6, <1>7, <1>8, <1>9
  DEF Abstract!Transaction, Abstract!Free, Abstract!Used, DetailsOf

(* Before the first call nothing was promised.                              *)
LEMMA InitHistory == Init => HistoryOK
<1> SUFFICES ASSUME Init PROVE HistoryOK
  OBVIOUS
<1>1. stack = <<>>
  BY DEF Init, NoCalls
<1>2. Committed = State /\ DOMAIN stack = {}
  BY <1>1 DEF Committed
<1>3. QED
  BY <1>2, LaterSame DEF HistoryOK

(* The history is in order in every reachable state.                        *)
LEMMA HistoryInvariant == Spec => []HistoryOK
<1>1. IInv /\ HistoryOK /\ [Next]_vars => HistoryOK'
  BY StepHistory
<1>2. QED
  BY <1>1, InitHistory, PlatformInvariant, PTL DEF Spec

(* Every step is a transaction of Registry: it commits nothing, or a state  *)
(* that keeps what was promised.                                            *)
LEMMA StepRefines ==
  IInv /\ HistoryOK /\ CommittedOK' /\ [Next]_vars => Abstract!Transaction
BY StepHistory, CommitRefines

(* createID and createEvent, however they are interleaved with callbacks,   *)
(* deposits, withdrawals and reverts, give an id to one account for good    *)
(* and one event for good, whose terms never change.                        *)
THEOREM PlatformImplementsRegistry == Spec => ImplementsRegistry
<1>1. IInv /\ HistoryOK /\ CommittedOK' /\ [Next]_vars
        => [Abstract!Transaction]_(Abstract!vars)
  BY StepRefines
<1>2. QED
  BY <1>1, InitRefines, PlatformInvariant, HistoryInvariant, CommittedIsOK, PTL
  DEF Spec, ImplementsRegistry, Abstract!Spec

=============================================================================
