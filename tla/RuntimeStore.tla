---------------------------- MODULE RuntimeStore ----------------------------
(***************************************************************************)
(* One Redis hash of redis_runtime_support with a field per account or per *)
(* worker, as its two users write it: auto_transfer_account_guard_service, *)
(* which marks and clears accounts, and monitor_center_service, which      *)
(* keeps a second copy of every worker's state under a key of its own.     *)
(* (auto_transfer_runtime_guard_service, which has no caller yet, does     *)
(* both.)                                                                  *)
(*                                                                         *)
(* One action is one call of Redis.  A call that raises is repeated once   *)
(* on a new connection, also if only its reply was lost; when that fails   *)
(* too, or Redis was away to begin with, the call is silently skipped.     *)
(* The module opens up what other modules take as one step.                *)
(***************************************************************************)
EXTENDS Integers, FiniteSets

CONSTANTS
    Clients,      \* threads and processes
    Fields,
    StoreScenes   \* whether there are copies, and how often things may happen

CallKinds == {"mark", "clear", "away", "again", "lapse"}

ASSUME StoreAssumption ==
    StoreScenes \subseteq [copies : BOOLEAN, calls : [CallKinds -> Nat]]

VARIABLES
    copied,    \* this scene's user keeps copies
    hash,      \* fields there are, with how often they were marked
    copy,      \* likewise, the keys of their own
    client,
    since,     \* history: per client, fields written since its removal
    kept,      \* history: fields last marked, not cleared
    exposed,   \* history: of these, written between a removal and its DELETE
    calls

storeVars == <<copied, hash, copy, client, since, kept, exposed, calls>>

Counts(k) == calls[k] > 0 /\ calls' = [calls EXCEPT ![k] = @ - 1]
Begun(pc, f) == [pc |-> pc, field |-> f, value |-> 0, lost |-> FALSE, again |-> FALSE]
Idle == Begun("idle", "none")
NoField == [f \in {} |-> 0]

Put(map, f, v) == [g \in DOMAIN map \cup {f} |-> IF g = f THEN v ELSE map[g]]
Without(map, f) == [g \in DOMAIN map \ {f} |-> map[g]]

StoreInit ==
    /\ \E s \in StoreScenes : copied = s.copies /\ calls = s.calls
    /\ hash = NoField /\ copy = NoField
    /\ client = [c \in Clients |-> Idle]
    /\ since = [c \in Clients |-> {}]
    /\ kept = {} /\ exposed = {}

Doing(c, pc) == client[c].pc = pc
GoesTo(c, pc) == client' = [client EXCEPT ![c] = [@ EXCEPT !.pc = pc, !.again = FALSE]]
Clearing(f) == \E c \in Clients : client[c].field = f
                                  /\ client[c].pc \in {"remove", "drop", "remove_copy"}

-----------------------------------------------------------------------------
(* Marking: read, change, write back (record_failure; register_worker,      *)
(* heartbeat, mark_success, mark_error, add_log).                           *)

BeginMark(c, f) ==
    /\ Doing(c, "idle") /\ Counts("mark")
    /\ client' = [client EXCEPT ![c] = Begun("load", f)]
    /\ UNCHANGED <<copied, hash, copy, since, kept, exposed>>

Found(f) == IF f \in DOMAIN hash THEN hash[f]
            ELSE IF copied /\ f \in DOMAIN copy THEN copy[f] ELSE 0

(* What is not found is built anew.                                         *)
LoadState(c) ==
    /\ Doing(c, "load")
    /\ \E v \in {Found(client[c].field), 0} :
          /\ IF v = Found(client[c].field) THEN UNCHANGED calls ELSE Counts("away")
          /\ client' = [client EXCEPT ![c] = [@ EXCEPT !.pc = "set", !.value = v + 1]]
    /\ UNCHANGED <<copied, hash, copy, since, kept, exposed>>

(* A mark is done: it counts as kept if none of its writes was skipped and  *)
(* nobody is clearing the field.                                            *)
Marked(c, lost) ==
    LET f == client[c].field
        holds == ~lost /\ ~Clearing(f)
    IN  /\ kept' = IF holds THEN kept \cup {f} ELSE kept \ {f}
        /\ exposed' = IF holds /\ f \in DOMAIN hash' THEN exposed \ {f} ELSE exposed
        /\ client' = [client EXCEPT ![c] = Idle]

SetField(c) ==
    LET f == client[c].field
    IN  /\ Doing(c, "set")
        /\ \/ /\ hash' = Put(hash, f, client[c].value)
              /\ since' = [d \in Clients |-> since[d] \cup {f}]
              /\ UNCHANGED calls
              /\ IF copied THEN GoesTo(c, "copy") /\ UNCHANGED <<kept, exposed>>
                 ELSE Marked(c, FALSE)
           \/ /\ UNCHANGED <<hash, since>> /\ Counts("away")
              /\ IF copied
                 THEN /\ client' = [client EXCEPT ![c] = [@ EXCEPT !.pc = "copy", !.lost = TRUE]]
                      /\ UNCHANGED <<kept, exposed>>
                 ELSE Marked(c, TRUE)
           \/ /\ ~client[c].again /\ Counts("again")
              /\ hash' = Put(hash, f, client[c].value)
              /\ since' = [d \in Clients |-> since[d] \cup {f}]
              /\ client' = [client EXCEPT ![c] = [@ EXCEPT !.again = TRUE]]
              /\ UNCHANGED <<kept, exposed>>
        /\ UNCHANGED <<copied, copy>>

SetCopy(c) ==
    /\ Doing(c, "copy")
    /\ \/ /\ copy' = Put(copy, client[c].field, client[c].value)
          /\ UNCHANGED <<hash, calls>>
          /\ Marked(c, client[c].lost)
       \/ /\ UNCHANGED <<copy, hash>> /\ Counts("away")
          /\ Marked(c, TRUE)
    /\ UNCHANGED <<copied, since>>

-----------------------------------------------------------------------------
(* Clearing: delete_hash_field, then delete of the copy.                    *)

BeginClear(c, f) ==
    /\ Doing(c, "idle") /\ Counts("clear")
    /\ client' = [client EXCEPT ![c] = Begun("remove", f)]
    /\ kept' = kept \ {f}
    /\ exposed' = exposed \ {f}
    /\ UNCHANGED <<copied, hash, copy, since>>

(* Mutant: one field left counts as none.                                   *)
NearlyEmptied(map) == Cardinality(DOMAIN map) <= 1

Emptied(map) == DOMAIN map = {}

AfterRemoval == IF copied THEN "remove_copy" ELSE "idle"
Leaves(c, pc) == client' = [client EXCEPT ![c] = IF pc = "idle" THEN Idle
                                                ELSE [@ EXCEPT !.pc = pc]]

(* HDEL and HLEN in one transaction, and with nothing left a DELETE.        *)
RemoveField(c) ==
    /\ Doing(c, "remove")
    /\ \/ /\ hash' = Without(hash, client[c].field)
          /\ since' = [since EXCEPT ![c] = {}]
          /\ Leaves(c, IF Emptied(hash') THEN "drop" ELSE AfterRemoval)
          /\ UNCHANGED calls
       \/ /\ UNCHANGED <<hash, since>> /\ Counts("away")
          /\ Leaves(c, AfterRemoval)
    /\ UNCHANGED <<copied, copy, kept, exposed>>

(* A DELETE whose reply is lost is repeated with the whole removal.         *)
DropHash(c) ==
    /\ Doing(c, "drop")
    /\ hash' = NoField
    /\ exposed' = exposed \cup (DOMAIN hash \cap since[c])
    /\ \/ Leaves(c, AfterRemoval) /\ UNCHANGED calls
       \/ /\ ~client[c].again /\ Counts("again")
          /\ client' = [client EXCEPT ![c] = [@ EXCEPT !.pc = "remove", !.again = TRUE]]
    /\ UNCHANGED <<copied, copy, since, kept>>

RemoveCopy(c) ==
    /\ Doing(c, "remove_copy")
    /\ copy' = Without(copy, client[c].field)
    /\ client' = [client EXCEPT ![c] = Idle]
    /\ UNCHANGED <<copied, hash, since, kept, exposed, calls>>

(* Every write of a field gives the whole hash its own time to live.        *)
HashExpires ==
    /\ copied /\ Counts("lapse")
    /\ hash' = NoField
    /\ UNCHANGED <<copied, copy, client, since, kept, exposed>>

StoreNext ==
    \/ \E c \in Clients :
          \/ \E f \in Fields : BeginMark(c, f) \/ BeginClear(c, f)
          \/ LoadState(c) \/ SetField(c) \/ SetCopy(c)
          \/ RemoveField(c) \/ DropHash(c) \/ RemoveCopy(c)
    \/ HashExpires

StoreSpec == StoreInit /\ [][StoreNext]_storeVars

-----------------------------------------------------------------------------
(* What was marked and not cleared since is found, whatever other fields    *)
(* are cleared meanwhile; except, where there are no copies, a field that   *)
(* was written between the removal of the last other one and the DELETE of  *)
(* the hash.  So a freeze may vanish with the release of another account;   *)
(* the state of a worker may not.                                           *)
MarkedIsFound ==
    \A f \in kept : f \in DOMAIN hash \cup DOMAIN copy
                    \/ (~copied /\ f \in exposed)
=============================================================================
