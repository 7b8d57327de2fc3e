------------------------ MODULE RuntimeStoreProofs ------------------------
(***************************************************************************)
(* Proof about RuntimeStore, for any number of clients, fields and faults: *)
(* what was marked and not cleared since is found.                         *)
(***************************************************************************)
EXTENDS RuntimeStore, TLAPS

ClientSteps == {"idle", "load", "set", "copy", "remove", "drop", "remove_copy"}
NamesOrNone == Fields \cup {"none"}
ClientStates == [pc : ClientSteps, field : NamesOrNone, value : Nat,
                 lost : BOOLEAN, again : BOOLEAN]
Marks(map) == \A f \in DOMAIN map : map[f] \in Nat

StoreTypes ==
    /\ copied \in BOOLEAN
    /\ client \in [Clients -> ClientStates]
    /\ since = [c \in Clients |-> since[c]]
    /\ Marks(hash) /\ Marks(copy)

ClearSteps == {"remove", "drop", "remove_copy"}

(* A field that is kept is not being cleared; while a client is about to    *)
(* delete the hash, all the hash has was written since its removal.         *)
ClientSound(c) ==
    /\ client[c].pc \in ClearSteps => client[c].field \notin kept
    /\ client[c].pc = "drop" => DOMAIN hash \subseteq since[c]
    /\ client[c].pc \in {"copy", "remove_copy"} => copied

(* It is in its copy where there are copies, else in the hash or exposed.   *)
KeptSound ==
    /\ copied => kept \subseteq DOMAIN copy
    /\ ~copied => kept \subseteq DOMAIN hash \cup exposed

StoreInv == StoreTypes /\ (\A c \in Clients : ClientSound(c)) /\ KeptSound

-----------------------------------------------------------------------------
(* The fields of a map after a write, a removal, and of the empty map.      *)
LEMMA MapDomains ==
    ASSUME NEW map, NEW f, NEW v
    PROVE  /\ DOMAIN Put(map, f, v) = DOMAIN map \cup {f}
           /\ DOMAIN Without(map, f) = DOMAIN map \ {f}
           /\ DOMAIN NoField = {}
  BY DEF Put, Without, NoField

(* Maps of marks stay maps of marks.                                        *)
LEMMA MapMarks ==
    ASSUME NEW map, Marks(map), NEW f, NEW v \in Nat
    PROVE  Marks(Put(map, f, v)) /\ Marks(Without(map, f)) /\ Marks(NoField)
  BY DEF Put, Without, NoField, Marks

(* A client that begins is in a state of its type.                          *)
LEMMA NewRecord ==
    ASSUME NEW P, NEW F, NEW p \in P, NEW f \in F
    PROVE  Begun(p, f) \in [pc : P, field : F, value : Nat, lost : BOOLEAN, again : BOOLEAN]
  BY DEF Begun

(* The same, for the actual types.                                          *)
LEMMA NewClient ==
    ASSUME NEW p \in ClientSteps, NEW f \in NamesOrNone
    PROVE  Begun(p, f) \in ClientStates /\ Begun(p, f).pc = p /\ Begun(p, f).field = f
<1>1. Begun(p, f) \in ClientStates
  BY NewRecord, Zenon DEF ClientStates
<1>2. Begun(p, f).pc = p /\ Begun(p, f).field = f
  BY DEF Begun
<1>3. QED
  BY <1>1, <1>2

(* The idle client has no field in hand.                                    *)
LEMMA IdleClient == Idle \in ClientStates /\ Idle.pc = "idle" /\ Idle.field = "none"
<1>1. "none" \in NamesOrNone /\ "idle" \in ClientSteps
  BY DEF NamesOrNone, ClientSteps
<1>2. QED
  BY <1>1, NewClient, Zenon DEF Idle

(* A change of a client's record changes nothing else of it.                *)
LEMMA RecordPc ==
    ASSUME NEW P, NEW F, NEW V, NEW L, NEW A, NEW x \in P,
           NEW r \in [pc : P, field : F, value : V, lost : L, again : A]
    PROVE  /\ [r EXCEPT !.pc = x] \in [pc : P, field : F, value : V, lost : L, again : A]
           /\ [r EXCEPT !.pc = x].pc = x
           /\ [r EXCEPT !.pc = x].field = r.field
  OBVIOUS

(* Changing the step and the repetition keeps the field.                    *)
LEMMA RecordPcAgain ==
    ASSUME NEW P, NEW F, NEW V, NEW L, NEW A, NEW x \in P, NEW y \in A,
           NEW r \in [pc : P, field : F, value : V, lost : L, again : A]
    PROVE  /\ [r EXCEPT !.pc = x, !.again = y] \in [pc : P, field : F, value : V, lost : L, again : A]
           /\ [r EXCEPT !.pc = x, !.again = y].pc = x
           /\ [r EXCEPT !.pc = x, !.again = y].field = r.field
  OBVIOUS

(* Changing the step and the loss keeps the field.                          *)
LEMMA RecordPcLost ==
    ASSUME NEW P, NEW F, NEW V, NEW L, NEW A, NEW x \in P, NEW y \in L,
           NEW r \in [pc : P, field : F, value : V, lost : L, again : A]
    PROVE  /\ [r EXCEPT !.pc = x, !.lost = y] \in [pc : P, field : F, value : V, lost : L, again : A]
           /\ [r EXCEPT !.pc = x, !.lost = y].pc = x
           /\ [r EXCEPT !.pc = x, !.lost = y].field = r.field
  OBVIOUS

(* Changing the step and the value keeps the field.                         *)
LEMMA RecordPcValue ==
    ASSUME NEW P, NEW F, NEW V, NEW L, NEW A, NEW x \in P, NEW y \in V,
           NEW r \in [pc : P, field : F, value : V, lost : L, again : A]
    PROVE  /\ [r EXCEPT !.pc = x, !.value = y] \in [pc : P, field : F, value : V, lost : L, again : A]
           /\ [r EXCEPT !.pc = x, !.value = y].pc = x
           /\ [r EXCEPT !.pc = x, !.value = y].field = r.field
  OBVIOUS

(* Changing the repetition keeps step and field.                            *)
LEMMA RecordAgain ==
    ASSUME NEW P, NEW F, NEW V, NEW L, NEW A, NEW y \in A,
           NEW r \in [pc : P, field : F, value : V, lost : L, again : A]
    PROVE  /\ [r EXCEPT !.again = y] \in [pc : P, field : F, value : V, lost : L, again : A]
           /\ [r EXCEPT !.again = y].pc = r.pc
           /\ [r EXCEPT !.again = y].field = r.field
  OBVIOUS

(* What a client's record becomes, as far as the invariant looks at it.     *)
Becomes(c, pc, field) ==
    /\ client' \in [Clients -> ClientStates]
    /\ client'[c].pc = pc /\ client'[c].field = field
    /\ \A d \in Clients : d # c => client'[d] = client[d]

(* Writing a whole new state into client[c] is a Becomes.                   *)
LEMMA Replaced ==
    ASSUME StoreTypes, NEW c \in Clients, NEW r \in ClientStates,
           client' = [client EXCEPT ![c] = r]
    PROVE  Becomes(c, r.pc, r.field)
  BY SMT DEF StoreTypes, Becomes

(* A client that only changes its step.                                     *)
LEMMA ClientPc ==
    ASSUME StoreTypes, NEW c \in Clients, NEW x \in ClientSteps,
           client' = [client EXCEPT ![c] = [client[c] EXCEPT !.pc = x]]
    PROVE  Becomes(c, x, client[c].field)
<1>1. client[c] \in ClientStates
  BY SMT DEF StoreTypes
<1>2. /\ [client[c] EXCEPT !.pc = x] \in ClientStates
      /\ [client[c] EXCEPT !.pc = x].pc = x
      /\ [client[c] EXCEPT !.pc = x].field = client[c].field
  BY <1>1, RecordPc, Zenon DEF ClientStates
<1>3. QED
  BY <1>2, Replaced, Zenon

(* A client that goes on, or has its call repeated.                         *)
LEMMA ClientPcAgain ==
    ASSUME StoreTypes, NEW c \in Clients, NEW x \in ClientSteps, NEW y \in BOOLEAN,
           client' = [client EXCEPT ![c] = [client[c] EXCEPT !.pc = x, !.again = y]]
    PROVE  Becomes(c, x, client[c].field)
<1>1. client[c] \in ClientStates
  BY SMT DEF StoreTypes
<1>2. /\ [client[c] EXCEPT !.pc = x, !.again = y] \in ClientStates
      /\ [client[c] EXCEPT !.pc = x, !.again = y].pc = x
      /\ [client[c] EXCEPT !.pc = x, !.again = y].field = client[c].field
  BY <1>1, RecordPcAgain, Zenon DEF ClientStates
<1>3. QED
  BY <1>2, Replaced, Zenon

(* A client that goes on after a call that was skipped.                     *)
LEMMA ClientPcLost ==
    ASSUME StoreTypes, NEW c \in Clients, NEW x \in ClientSteps, NEW y \in BOOLEAN,
           client' = [client EXCEPT ![c] = [client[c] EXCEPT !.pc = x, !.lost = y]]
    PROVE  Becomes(c, x, client[c].field)
<1>1. client[c] \in ClientStates
  BY SMT DEF StoreTypes
<1>2. /\ [client[c] EXCEPT !.pc = x, !.lost = y] \in ClientStates
      /\ [client[c] EXCEPT !.pc = x, !.lost = y].pc = x
      /\ [client[c] EXCEPT !.pc = x, !.lost = y].field = client[c].field
  BY <1>1, RecordPcLost, Zenon DEF ClientStates
<1>3. QED
  BY <1>2, Replaced, Zenon

(* A client that goes on with the value it has read.                        *)
LEMMA ClientPcValue ==
    ASSUME StoreTypes, NEW c \in Clients, NEW x \in ClientSteps, NEW y \in Nat,
           client' = [client EXCEPT ![c] = [client[c] EXCEPT !.pc = x, !.value = y]]
    PROVE  Becomes(c, x, client[c].field)
<1>1. client[c] \in ClientStates
  BY SMT DEF StoreTypes
<1>2. /\ [client[c] EXCEPT !.pc = x, !.value = y] \in ClientStates
      /\ [client[c] EXCEPT !.pc = x, !.value = y].pc = x
      /\ [client[c] EXCEPT !.pc = x, !.value = y].field = client[c].field
  BY <1>1, RecordPcValue, Zenon DEF ClientStates
<1>3. QED
  BY <1>2, Replaced, Zenon

(* A client whose reply was lost repeats its call.                          *)
LEMMA ClientAgain ==
    ASSUME StoreTypes, NEW c \in Clients, NEW y \in BOOLEAN,
           client' = [client EXCEPT ![c] = [client[c] EXCEPT !.again = y]]
    PROVE  Becomes(c, client[c].pc, client[c].field)
<1>1. client[c] \in ClientStates
  BY SMT DEF StoreTypes
<1>2. /\ [client[c] EXCEPT !.again = y] \in ClientStates
      /\ [client[c] EXCEPT !.again = y].pc = client[c].pc
      /\ [client[c] EXCEPT !.again = y].field = client[c].field
  BY <1>1, RecordAgain, Zenon DEF ClientStates
<1>3. QED
  BY <1>2, Replaced, Zenon

(* A step that only writes to the hash, and a step that keeps less, leave   *)
(* the other clients sound.                                                 *)
LEMMA OthersSound ==
    ASSUME StoreInv, NEW c \in Clients, NEW pc, NEW field, Becomes(c, pc, field),
           UNCHANGED copied,
           \/ /\ DOMAIN hash' \subseteq DOMAIN hash
              /\ \A d \in Clients \ {c} : since'[d] = since[d]
           \/ \E f : /\ DOMAIN hash' = DOMAIN hash \cup {f}
                     /\ since' = [d \in Clients |-> since[d] \cup {f}],
           \/ kept' \subseteq kept
           \/ kept' \subseteq kept \cup {client[c].field} /\ ~Clearing(client[c].field)
    PROVE  \A d \in Clients \ {c} : ClientSound(d)'
<1> SUFFICES ASSUME NEW d \in Clients \ {c} PROVE ClientSound(d)'
  OBVIOUS
<1>1. client'[d] = client[d] /\ ClientSound(d)
  BY DEF Becomes, StoreInv
<1>2. client[d].pc \in ClearSteps => client[d].field \notin kept'
  BY <1>1, SMT DEF ClientSound, Clearing, ClearSteps
<1>3. DOMAIN hash \subseteq since[d] => DOMAIN hash' \subseteq since'[d]
  <2>1. CASE \E f : /\ DOMAIN hash' = DOMAIN hash \cup {f}
                    /\ since' = [e \in Clients |-> since[e] \cup {f}]
    <3>1. PICK f : /\ DOMAIN hash' = DOMAIN hash \cup {f}
                   /\ since' = [e \in Clients |-> since[e] \cup {f}]
      BY <2>1, Zenon
    <3>2. since'[d] = since[d] \cup {f}
      BY <3>1, Zenon
    <3>3. QED
      BY <3>1, <3>2, Zenon
  <2>2. CASE /\ DOMAIN hash' \subseteq DOMAIN hash
             /\ \A e \in Clients \ {c} : since'[e] = since[e]
    BY <2>2, Zenon
  <2>3. QED
    BY <2>1, <2>2, Zenon
<1>4. QED
  BY <1>1, <1>2, <1>3, SMT DEF ClientSound

-----------------------------------------------------------------------------
(* The invariant at the start.                                              *)
LEMMA StoreInvInit == StoreInit => StoreInv
<1> SUFFICES ASSUME StoreInit PROVE StoreInv
  OBVIOUS
<1>1. /\ client = [c \in Clients |-> Idle] /\ since = [c \in Clients |-> {}]
      /\ hash = NoField /\ copy = NoField /\ kept = {}
  BY DEF StoreInit
<1>2. copied \in BOOLEAN
  BY StoreAssumption, SMT DEF StoreInit
<1>3. \A c \in Clients : ClientSound(c)
  BY <1>1, IdleClient, SMT DEF ClientSound, ClearSteps
<1>4. StoreTypes /\ KeptSound
  BY <1>1, <1>2, IdleClient, SMT DEF StoreTypes, KeptSound, Marks, NoField
<1>5. QED
  BY <1>3, <1>4 DEF StoreInv

(* What each action has to show.                                            *)
LEMMA StoreInvFrom ==
    ASSUME StoreInv, NEW c \in Clients, NEW x, NEW g, Becomes(c, x, g),
           UNCHANGED copied, Marks(hash'), Marks(copy'),
           since' = [d \in Clients |-> since'[d]],
           \A d \in Clients \ {c} : ClientSound(d)',
           x \in ClearSteps => g \notin kept',
           x = "drop" => DOMAIN hash' \subseteq since'[c],
           x \in {"copy", "remove_copy"} => copied,
           KeptSound'
    PROVE  StoreInv'
<1>1. client'[c].pc = x /\ client'[c].field = g
  BY Zenon DEF Becomes
<1>2. ClientSound(c)'
  BY <1>1, Zenon DEF ClientSound
<1>3. StoreTypes'
  <2>1. copied' \in BOOLEAN
    BY Zenon DEF StoreInv, StoreTypes
  <2>2. QED
    BY <2>1, Zenon DEF StoreTypes, Becomes, Marks
<1>4. QED
  BY <1>2, <1>3, Zenon DEF StoreInv

(* The facts about the client an action starts from.                        *)
LEMMA StoreFacts ==
    ASSUME StoreInv, NEW c \in Clients
    PROVE  /\ StoreTypes /\ KeptSound /\ ClientSound(c)
           /\ client[c].field \in NamesOrNone /\ client[c].value \in Nat
           /\ Marks(hash) /\ Marks(copy) /\ since = [d \in Clients |-> since[d]]
<1>1. StoreTypes /\ KeptSound /\ ClientSound(c)
  BY Zenon DEF StoreInv
<1>2. client[c].field \in NamesOrNone /\ client[c].value \in Nat
  BY <1>1, SMT DEF StoreTypes, ClientStates
<1>3. QED
  BY <1>1, <1>2, Zenon DEF StoreTypes

(* Nothing to clear is no clearing step.                                    *)
LEMMA NotClearing == \A x \in {"idle", "load", "set", "copy"} :
                        x \in ClientSteps /\ x \notin ClearSteps /\ x # "drop"
  BY SMT DEF ClearSteps, ClientSteps

(* Beginning to mark a field keeps the invariant.                           *)
LEMMA BeginMarkKeeps ==
    ASSUME StoreInv, NEW c \in Clients, NEW g \in Fields, BeginMark(c, g)
    PROVE  StoreInv'
<1>1. /\ client' = [client EXCEPT ![c] = Begun("load", g)]
      /\ UNCHANGED <<copied, hash, copy, since, kept, exposed>>
  BY DEF BeginMark
<1>2. g \in NamesOrNone /\ "load" \in ClientSteps
  BY DEF NamesOrNone, ClientSteps
<1>3. Becomes(c, "load", g)
  BY <1>1, <1>2, StoreFacts, NewClient, Replaced, Zenon
<1>4. \A d \in Clients \ {c} : ClientSound(d)'
  BY <1>1, <1>3, OthersSound
<1>5. KeptSound' /\ Marks(hash') /\ Marks(copy') /\ since' = [d \in Clients |-> since'[d]]
  BY <1>1, StoreFacts DEF KeptSound
<1>6. QED
  BY <1>1, <1>3, <1>4, <1>5, NotClearing, StoreInvFrom

(* So does beginning to clear one: what is cleared is not kept.             *)
LEMMA BeginClearKeeps ==
    ASSUME StoreInv, NEW c \in Clients, NEW g \in Fields, BeginClear(c, g)
    PROVE  StoreInv'
<1>1. /\ client' = [client EXCEPT ![c] = Begun("remove", g)]
      /\ kept' = kept \ {g} /\ exposed' = exposed \ {g}
      /\ UNCHANGED <<copied, hash, copy, since>>
  BY DEF BeginClear
<1>2. g \in NamesOrNone /\ "remove" \in ClientSteps
  BY DEF NamesOrNone, ClientSteps
<1>3. Becomes(c, "remove", g)
  BY <1>1, <1>2, StoreFacts, NewClient, Replaced, Zenon
<1>4. \A d \in Clients \ {c} : ClientSound(d)'
  BY <1>1, <1>3, OthersSound
<1>5. Marks(hash') /\ Marks(copy') /\ since' = [d \in Clients |-> since'[d]]
  BY <1>1, StoreFacts
<1>6. KeptSound'
  BY <1>1, StoreFacts, SMT DEF KeptSound
<1>7. g \notin kept'
  BY <1>1
<1>8. QED
  BY <1>1, <1>3, <1>4, <1>5, <1>6, <1>7, StoreInvFrom

(* So does reading, whatever was read.                                      *)
LEMMA LoadStateKeeps ==
    ASSUME StoreInv, NEW c \in Clients, LoadState(c)
    PROVE  StoreInv'
<1>1. PICK v \in {Found(client[c].field), 0} :
         client' = [client EXCEPT ![c] = [client[c] EXCEPT !.pc = "set", !.value = v + 1]]
  BY Zenon DEF LoadState
<1>2. UNCHANGED <<copied, hash, copy, since, kept, exposed>>
  BY DEF LoadState
<1>3. v + 1 \in Nat
  <2>1. Found(client[c].field) \in Nat
    BY StoreFacts, SMT DEF Found, Marks
  <2>2. QED
    BY <2>1
<1>4. Becomes(c, "set", client[c].field)
  BY <1>1, <1>3, StoreFacts, NotClearing, ClientPcValue, Zenon
<1>5. \A d \in Clients \ {c} : ClientSound(d)'
  BY <1>2, <1>4, OthersSound
<1>6. KeptSound' /\ Marks(hash') /\ Marks(copy') /\ since' = [d \in Clients |-> since'[d]]
  BY <1>2, StoreFacts DEF KeptSound
<1>7. QED
  BY <1>2, <1>4, <1>5, <1>6, NotClearing, StoreInvFrom

(* The end of a mark keeps a field only if it was written where it is       *)
(* looked for and nobody is clearing it.                                    *)
LEMMA MarkedKeeps ==
    ASSUME StoreInv, NEW c \in Clients, NEW lost \in BOOLEAN, Marked(c, lost),
           UNCHANGED copied, Marks(hash'), Marks(copy'),
           \/ UNCHANGED <<hash, since>>
           \/ /\ DOMAIN hash' = DOMAIN hash \cup {client[c].field}
              /\ since' = [d \in Clients |-> since[d] \cup {client[c].field}],
           DOMAIN copy \subseteq DOMAIN copy',
           ~lost => /\ copied => client[c].field \in DOMAIN copy'
                    /\ ~copied => client[c].field \in DOMAIN hash'
    PROVE  StoreInv'
<1> DEFINE f == client[c].field
<1>1. client' = [client EXCEPT ![c] = Idle]
  BY DEF Marked
<1>2. Becomes(c, "idle", "none")
  BY <1>1, IdleClient, StoreFacts, Replaced, Zenon
<1>3. CASE ~lost /\ ~Clearing(f)
  <2>1. /\ kept' = kept \cup {f}
        /\ exposed' = IF f \in DOMAIN hash' THEN exposed \ {f} ELSE exposed
    BY <1>3, SMT DEF Marked
  <2>2. \A d \in Clients \ {c} : ClientSound(d)'
    BY <1>2, <1>3, <2>1, OthersSound
  <2>3. KeptSound'
    BY <1>3, <2>1, StoreFacts, SMT DEF KeptSound
  <2>4. since' = [d \in Clients |-> since'[d]]
    BY StoreFacts
  <2>5. QED
    BY <1>2, <2>2, <2>3, <2>4, NotClearing, StoreInvFrom
<1>4. CASE lost \/ Clearing(f)
  <2>1. kept' = kept \ {f} /\ UNCHANGED exposed
    BY <1>4, SMT DEF Marked
  <2>2. \A d \in Clients \ {c} : ClientSound(d)'
    BY <1>2, <2>1, OthersSound
  <2>3. KeptSound'
    BY <2>1, StoreFacts, SMT DEF KeptSound
  <2>4. since' = [d \in Clients |-> since'[d]]
    BY StoreFacts
  <2>5. QED
    BY <1>2, <2>2, <2>3, <2>4, NotClearing, StoreInvFrom
<1>5. QED
  BY <1>3, <1>4

(* So does writing the field: only a write that was done counts as kept.    *)
LEMMA SetFieldKeeps ==
    ASSUME StoreInv, NEW c \in Clients, SetField(c)
    PROVE  StoreInv'
<1> DEFINE f == client[c].field
           grown == /\ DOMAIN hash' = DOMAIN hash \cup {f}
                    /\ since' = [d \in Clients |-> since[d] \cup {f}]
<1>1. UNCHANGED <<copied, copy>> /\ client[c].pc = "set"
  BY DEF SetField, Doing
<1>2. ASSUME hash' = Put(hash, f, client[c].value),
             since' = [d \in Clients |-> since[d] \cup {f}]
      PROVE  grown /\ Marks(hash')
  BY <1>2, StoreFacts, MapDomains, MapMarks, Zenon
<1>3. Marks(copy') /\ TRUE \in BOOLEAN /\ FALSE \in BOOLEAN
  BY <1>1, StoreFacts
(* The step in which the client goes on and nothing is kept yet.            *)
<1>4. ASSUME NEW x \in {"set", "copy"}, Becomes(c, x, f), x = "copy" => copied,
             grown \/ UNCHANGED <<hash, since>>, Marks(hash'),
             UNCHANGED <<kept, exposed>>
      PROVE  StoreInv'
  <2>1. \A d \in Clients \ {c} : ClientSound(d)'
    <3>1. CASE grown
      BY <1>1, <1>4, <3>1, OthersSound
    <3>2. CASE UNCHANGED <<hash, since>>
      BY <1>1, <1>4, <3>2, OthersSound
    <3>3. QED
      BY <1>4, <3>1, <3>2
  <2>2. KeptSound'
    BY <1>1, <1>4, StoreFacts, SMT DEF KeptSound
  <2>3. since' = [d \in Clients |-> since'[d]]
    BY <1>4, StoreFacts
  <2>4. QED
    BY <1>1, <1>3, <1>4, <2>1, <2>2, <2>3, NotClearing, StoreInvFrom
<1>5. CASE /\ hash' = Put(hash, f, client[c].value)
           /\ since' = [d \in Clients |-> since[d] \cup {f}]
           /\ copied
           /\ GoesTo(c, "copy") /\ UNCHANGED <<kept, exposed>>
  <2>1. Becomes(c, "copy", f)
    BY <1>3, <1>5, StoreFacts, NotClearing, ClientPcAgain, Zenon DEF GoesTo
  <2>2. QED
    BY <1>2, <1>4, <1>5, <2>1
<1>6. CASE /\ hash' = Put(hash, f, client[c].value)
           /\ since' = [d \in Clients |-> since[d] \cup {f}]
           /\ ~copied /\ Marked(c, FALSE)
  <2>1. grown /\ Marks(hash')
    BY <1>2, <1>6
  <2>2. f \in DOMAIN hash'
    BY <2>1
  <2>3. QED
    BY <1>1, <1>3, <1>6, <2>1, <2>2, MarkedKeeps
<1>7. CASE /\ UNCHANGED <<hash, since>> /\ copied
           /\ client' = [client EXCEPT ![c] = [client[c] EXCEPT !.pc = "copy", !.lost = TRUE]]
           /\ UNCHANGED <<kept, exposed>>
  <2>1. Becomes(c, "copy", f)
    BY <1>3, <1>7, StoreFacts, NotClearing, ClientPcLost, Zenon
  <2>2. Marks(hash')
    BY <1>7, StoreFacts
  <2>3. QED
    BY <1>4, <1>7, <2>1, <2>2
<1>8. CASE UNCHANGED <<hash, since>> /\ ~copied /\ Marked(c, TRUE)
  <2>1. Marks(hash')
    BY <1>8, StoreFacts
  <2>2. QED
    BY <1>1, <1>3, <1>8, <2>1, MarkedKeeps
<1>9. CASE /\ hash' = Put(hash, f, client[c].value)
           /\ since' = [d \in Clients |-> since[d] \cup {f}]
           /\ client' = [client EXCEPT ![c] = [client[c] EXCEPT !.again = TRUE]]
           /\ UNCHANGED <<kept, exposed>>
  <2>1. Becomes(c, "set", f)
    BY <1>1, <1>3, <1>9, StoreFacts, ClientAgain, Zenon
  <2>2. QED
    BY <1>2, <1>4, <1>9, <2>1
<1>10. QED
  BY <1>5, <1>6, <1>7, <1>8, <1>9, Zenon DEF SetField

(* So does writing the copy.                                                *)
LEMMA SetCopyKeeps ==
    ASSUME StoreInv, NEW c \in Clients, SetCopy(c)
    PROVE  StoreInv'
<1>1. /\ UNCHANGED <<copied, since, hash>> /\ client[c].pc = "copy"
      /\ copied /\ Marks(hash') /\ client[c].lost \in BOOLEAN
  <2>1. UNCHANGED <<copied, since, hash>> /\ client[c].pc = "copy"
    BY DEF SetCopy, Doing
  <2>2. copied
    BY <2>1, StoreFacts DEF ClientSound
  <2>3. client[c].lost \in BOOLEAN
    BY StoreFacts, SMT DEF StoreTypes, ClientStates
  <2>4. QED
    BY <2>1, <2>2, <2>3, StoreFacts
<1>2. CASE copy' = Put(copy, client[c].field, client[c].value) /\ Marked(c, client[c].lost)
  <2>1. Marks(copy') /\ DOMAIN copy' = DOMAIN copy \cup {client[c].field}
    BY <1>2, StoreFacts, MapDomains, MapMarks, Zenon
  <2>2. QED
    BY <1>1, <1>2, <2>1, MarkedKeeps
<1>3. CASE UNCHANGED copy /\ Marked(c, TRUE)
  <2>1. Marks(copy') /\ TRUE \in BOOLEAN
    BY <1>3, StoreFacts
  <2>2. QED
    BY <1>1, <1>3, <2>1, MarkedKeeps
<1>4. QED
  BY <1>2, <1>3, Zenon DEF SetCopy

(* What a client that clears goes on with.                                  *)
LEMMA LeavesTo ==
    ASSUME StoreInv, NEW c \in Clients, NEW x \in ClientSteps, Leaves(c, x)
    PROVE  \/ x = "idle" /\ Becomes(c, "idle", "none")
           \/ x # "idle" /\ Becomes(c, x, client[c].field)
<1>1. CASE x = "idle"
  BY <1>1, StoreFacts, IdleClient, Replaced, Zenon DEF Leaves
<1>2. CASE x # "idle"
  BY <1>2, StoreFacts, ClientPc, Zenon DEF Leaves
<1>3. QED
  BY <1>1, <1>2

(* What comes after the removal, with copies and without.                   *)
LEMMA AfterRemovalSteps ==
    ASSUME copied \in BOOLEAN
    PROVE  \/ copied /\ AfterRemoval = "remove_copy"
           \/ ~copied /\ AfterRemoval = "idle"
  BY Zenon DEF AfterRemoval

(* Removing a field keeps the invariant: nobody counts on a field that is   *)
(* being cleared.                                                           *)
LEMMA RemoveFieldKeeps ==
    ASSUME StoreInv, NEW c \in Clients, RemoveField(c)
    PROVE  StoreInv'
<1> DEFINE f == client[c].field
<1>1. /\ UNCHANGED <<copied, copy, kept, exposed>> /\ client[c].pc = "remove"
      /\ f \notin kept /\ copied \in BOOLEAN
  <2>1. UNCHANGED <<copied, copy, kept, exposed>> /\ client[c].pc = "remove"
    BY DEF RemoveField, Doing
  <2>2. f \notin kept
    BY <2>1, StoreFacts DEF ClientSound, ClearSteps
  <2>3. QED
    BY <2>1, <2>2, StoreFacts DEF StoreTypes
<1>2. PICK x \in {"drop", "remove_copy", "idle"} :
         /\ Leaves(c, x)
         /\ x = "remove_copy" => copied
         /\ x = "drop" => hash' = Without(hash, f) /\ DOMAIN hash' = {}
  BY <1>1, AfterRemovalSteps, Zenon DEF RemoveField, Emptied
<1>3. x \in ClientSteps
  BY SMT DEF ClientSteps
<1>4. \/ hash' = Without(hash, f) /\ since' = [since EXCEPT ![c] = {}]
      \/ UNCHANGED <<hash, since>>
  BY Zenon DEF RemoveField
<1>5. /\ DOMAIN hash' \subseteq DOMAIN hash
      /\ DOMAIN hash \subseteq DOMAIN hash' \cup {f}
      /\ Marks(hash') /\ Marks(copy')
  <2>1. CASE hash' = Without(hash, f)
    <3>1. Marks(hash')
      BY <2>1, StoreFacts, SMT DEF Without, Marks
    <3>2. DOMAIN hash' = DOMAIN hash \ {f}
      BY <2>1, MapDomains, Zenon
    <3>3. QED
      BY <1>1, <3>1, <3>2, StoreFacts
  <2>2. CASE UNCHANGED hash
    BY <1>1, <2>2, StoreFacts
  <2>3. QED
    BY <1>4, <2>1, <2>2
<1>6. /\ \A d \in Clients \ {c} : since'[d] = since[d]
      /\ since' = [d \in Clients |-> since'[d]]
  BY <1>4, StoreFacts, SMT
<1>7. KeptSound'
  BY <1>1, <1>5, StoreFacts, SMT DEF KeptSound
<1>8. PICK g : Becomes(c, x, g) /\ (x # "idle" => g = f)
  BY <1>2, <1>3, LeavesTo, Zenon
<1>9. \A d \in Clients \ {c} : ClientSound(d)'
  BY <1>1, <1>5, <1>6, <1>8, OthersSound
<1>10. x \in ClearSteps => g \notin kept'
  BY <1>1, <1>8, NotClearing
<1>11. QED
  BY <1>1, <1>2, <1>5, <1>6, <1>7, <1>8, <1>9, <1>10, StoreInvFrom

(* So does the DELETE: what it takes is exposed, or has its copy.           *)
LEMMA DropHashKeeps ==
    ASSUME StoreInv, NEW c \in Clients, DropHash(c)
    PROVE  StoreInv'
<1> DEFINE f == client[c].field
<1>1. /\ UNCHANGED <<copied, copy, since, kept>> /\ client[c].pc = "drop"
      /\ hash' = NoField
      /\ exposed' = exposed \cup (DOMAIN hash \cap since[c])
  BY DEF DropHash, Doing
<1>2. f \notin kept /\ DOMAIN hash \subseteq since[c]
  BY <1>1, StoreFacts DEF ClientSound, ClearSteps
<1>3. DOMAIN hash' = {} /\ Marks(hash') /\ Marks(copy')
  BY <1>1, StoreFacts, MapDomains DEF Marks
<1>4. KeptSound'
  BY <1>1, <1>2, <1>3, StoreFacts, SMT DEF KeptSound
<1>5. PICK x \in {"remove", "remove_copy", "idle"} : \E g :
         /\ Becomes(c, x, g)
         /\ x # "idle" => g = f
         /\ x = "remove_copy" => copied
  <2>1. copied \in BOOLEAN
    BY StoreFacts DEF StoreTypes
  <2>2. "remove" \in ClientSteps /\ "remove_copy" \in ClientSteps /\ "idle" \in ClientSteps
        /\ TRUE \in BOOLEAN
    BY DEF ClientSteps
  <2>3. CASE Leaves(c, AfterRemoval)
    BY <2>1, <2>2, <2>3, AfterRemovalSteps, LeavesTo, Zenon
  <2>4. CASE client' = [client EXCEPT ![c] = [client[c] EXCEPT !.pc = "remove", !.again = TRUE]]
    BY <2>2, <2>4, StoreFacts, ClientPcAgain, Zenon
  <2>5. QED
    BY <2>3, <2>4, Zenon DEF DropHash
<1>6. PICK g : /\ Becomes(c, x, g)
               /\ x # "idle" => g = f
               /\ x = "remove_copy" => copied
  BY <1>5, Zenon
<1>7. \A d \in Clients \ {c} : ClientSound(d)'
  BY <1>1, <1>3, <1>6, OthersSound
<1>8. x \in ClearSteps => g \notin kept'
  BY <1>1, <1>2, <1>6, NotClearing
<1>9. since' = [d \in Clients |-> since'[d]]
  BY <1>1, StoreFacts
<1>10. QED
  BY <1>1, <1>3, <1>4, <1>5, <1>6, <1>7, <1>8, <1>9, StoreInvFrom

(* So does removing the copy.                                               *)
LEMMA RemoveCopyKeeps ==
    ASSUME StoreInv, NEW c \in Clients, RemoveCopy(c)
    PROVE  StoreInv'
<1> DEFINE f == client[c].field
<1>1. /\ UNCHANGED <<copied, hash, since, kept, exposed>>
      /\ client[c].pc = "remove_copy"
      /\ copy' = Without(copy, f)
      /\ client' = [client EXCEPT ![c] = Idle]
  BY DEF RemoveCopy, Doing
<1>2. f \notin kept /\ copied
  BY <1>1, StoreFacts DEF ClientSound, ClearSteps
<1>3. /\ DOMAIN copy' = DOMAIN copy \ {f}
      /\ Marks(hash') /\ Marks(copy')
  <2>1. Marks(copy')
    BY <1>1, StoreFacts, SMT DEF Without, Marks
  <2>2. QED
    BY <1>1, <2>1, StoreFacts, MapDomains
<1>4. Becomes(c, "idle", "none")
  BY <1>1, IdleClient, StoreFacts, Replaced, Zenon
<1>5. KeptSound'
  BY <1>1, <1>2, <1>3, StoreFacts, SMT DEF KeptSound
<1>6. \A d \in Clients \ {c} : ClientSound(d)'
  BY <1>1, <1>4, OthersSound
<1>7. since' = [d \in Clients |-> since'[d]]
  BY <1>1, StoreFacts
<1>8. QED
  BY <1>1, <1>3, <1>4, <1>5, <1>6, <1>7, NotClearing, StoreInvFrom

(* So does the time to live of the hash.                                    *)
LEMMA HashExpiresKeeps ==
    ASSUME StoreInv, HashExpires
    PROVE  StoreInv'
<1>1. /\ copied /\ hash' = NoField
      /\ UNCHANGED <<copied, copy, client, since, kept, exposed>>
  BY DEF HashExpires
<1>2. DOMAIN hash' = {} /\ Marks(hash')
  BY <1>1, MapDomains DEF Marks
<1>3. StoreTypes' /\ KeptSound'
  BY <1>1, <1>2, Zenon DEF StoreInv, StoreTypes, KeptSound, Marks
<1>4. ASSUME NEW d \in Clients PROVE ClientSound(d)'
  BY <1>1, <1>2, SMT DEF StoreInv, ClientSound
<1>5. QED
  BY <1>3, <1>4, Zenon DEF StoreInv

-----------------------------------------------------------------------------
(* However marking and clearing interleave and whatever calls are skipped   *)
(* or repeated, what was marked and not cleared since is found; with no     *)
(* copies to fall back on, unless it was written between the removal of     *)
(* the last other field and the DELETE.                                     *)
THEOREM StoreFindsMarks == StoreSpec => []MarkedIsFound
<1>1. StoreInv /\ [StoreNext]_storeVars => StoreInv'
  <2> SUFFICES ASSUME StoreInv, [StoreNext]_storeVars PROVE StoreInv'
    OBVIOUS
  <2>1. CASE StoreNext
    BY <2>1, BeginMarkKeeps, BeginClearKeeps, LoadStateKeeps, SetFieldKeeps,
       SetCopyKeeps, RemoveFieldKeeps, DropHashKeeps, RemoveCopyKeeps,
       HashExpiresKeeps, Zenon DEF StoreNext
  <2>2. CASE UNCHANGED storeVars
    BY <2>2 DEF storeVars, StoreInv, StoreTypes, ClientSound, KeptSound, Marks
  <2>3. QED
    BY <2>1, <2>2
<1>2. StoreInv => MarkedIsFound
  BY SMT DEF StoreInv, StoreTypes, KeptSound, MarkedIsFound
<1>3. QED
  BY StoreInvInit, <1>1, <1>2, PTL DEF StoreSpec
=============================================================================
