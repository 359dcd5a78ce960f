-------------------------------- MODULE KeyVault --------------------------------
(* The key vault (cmd/keyvault/main.go, internal/vault/store.go) behind the    *)
(* gateway's routes (routes/keys.ts): keys are created, rotated in a           *)
(* transaction and deactivated by requests that run side by side; a statement  *)
(* or its answer may fail. A secret goes by the request that brought it, a key *)
(* by the request that created it; encryption is left out.                     *)
(* The names of its specification speak of the vault, for                      *)
(* GatewayServices_proofs reads this module beside ReportService.              *)
EXTENDS Integers, Sequences

CONSTANTS Requests,   \* the requests that arrive
          OldKeys,    \* the keys created before
          Nobody      \* no request

ASSUME NobodyAssumption == Nobody \notin Requests \cup OldKeys /\ Requests \cap OldKeys = {}

VARIABLES
    key,     \* key[k]: the row of api_keys: its state and its secret
    lock,    \* lock[k]: the request whose transaction holds the row's lock
    rotated, \* rotated[k]: the rows of k in key_rotation_log, by the requests
    begun,   \* the rotations in the order of their BEGINs, which rotated_at tells
    req,     \* req[q]: what q asks for, where its handler is, the answer it got
    seen     \* history: seen[q]: the rows its key had in the log at q's BEGIN

vaultVars == <<key, lock, rotated, begun, req, seen>>

Ids == Requests \cup OldKeys
Keys == {k \in Ids : key[k].state # "none"}

VaultInit ==
    /\ key = [k \in Ids |-> [state |-> IF k \in OldKeys THEN "active" ELSE "none",
                             secret |-> k]]
    /\ lock = [k \in Ids |-> Nobody]
    /\ rotated = [k \in Ids |-> {}]
    /\ begun = << >> /\ seen = [q \in Requests |-> {}]
    /\ req = [q \in Requests |-> [op |-> "none", key |-> q, own |-> TRUE,
                                  pc |-> "new", answer |-> 0]]

At(q, op, pc) == req[q].op = op /\ req[q].pc = pc
GoOn(q, pc) == req' = [req EXCEPT ![q].pc = pc]
Reply(q, code) == req' = [req EXCEPT ![q] = [@ EXCEPT !.pc = "done", !.answer = code]]

(* A request arrives; own: the key is of the caller's organization, which the  *)
(* gateway sends along. (A refused one, 400 or 401, changes nothing.)          *)
Ask(q, op, k, own) ==
    /\ req[q].pc = "new"
    /\ req' = [req EXCEPT ![q] = [op |-> op, key |-> k, own |-> own, answer |-> 0,
                                 pc |-> IF op = "rotate" THEN "begin" ELSE "store"]]
    /\ UNCHANGED <<key, lock, rotated, begun, seen>>

(* The gateway's routes send a request on and its answer back.                 *)
AskCreate(q) == Ask(q, "create", q, TRUE)
AskRotate(q, k, own) == Ask(q, "rotate", k, own)
AskDelete(q, k, own) == Ask(q, "delete", k, own)

---------------------------------------------------------------------------------
(* Create: the INSERT, then the row is read for the answer.                    *)

StoreKey(q) == key' = [key EXCEPT ![q] = [state |-> "active", secret |-> q]]

InsertKey(q) == /\ At(q, "create", "store")
                /\ StoreKey(q)
                /\ GoOn(q, "read")
                /\ UNCHANGED <<lock, rotated, begun, seen>>

(* The INSERT fails, or only its answer is lost.                               *)
InsertFails(q) == /\ At(q, "create", "store")
                  /\ StoreKey(q) \/ UNCHANGED key
                  /\ Reply(q, 500)
                  /\ UNCHANGED <<lock, rotated, begun, seen>>

(* 201 with the row, or 500 though the key is stored.                          *)
ReadKey(q) == /\ At(q, "create", "read")
              /\ \E code \in {201, 500} : Reply(q, code)
              /\ UNCHANGED <<key, lock, rotated, begun, seen>>

---------------------------------------------------------------------------------
(* Rotate: BEGIN, UPDATE (which waits for the row), INSERT, COMMIT.            *)

(* The default of rotated_at, NOW(), is this instant, whatever the UPDATE      *)
(* waits for and whenever the INSERT is.                                       *)
BeginRotation(q) ==
    /\ At(q, "rotate", "begin")
    /\ begun' = Append(begun, q)
    /\ seen' = [seen EXCEPT ![q] = rotated[req[q].key]]
    /\ GoOn(q, "store")
    /\ UNCHANGED <<key, lock, rotated>>

(* Of another organization's key no row is updated, or locked, and the number  *)
(* of rows is not looked at.                                                   *)
UpdateSecret(q) ==
    /\ At(q, "rotate", "store")
    /\ lock[req[q].key] = Nobody \/ ~req[q].own
    /\ lock' = IF req[q].own THEN [lock EXCEPT ![req[q].key] = q] ELSE lock
    /\ GoOn(q, "log")
    /\ UNCHANGED <<key, rotated, begun, seen>>

(* Mutation of Unlock: the transaction is left open.                           *)
KeepLock(q) == UNCHANGED lock

(* The end of q's transaction, if it holds a lock.                             *)
Unlock(q) == lock' = [k \in Ids |-> IF lock[k] = q THEN Nobody ELSE lock[k]]

LogRotation(q) == /\ At(q, "rotate", "log")
                  /\ GoOn(q, "commit")
                  /\ UNCHANGED <<key, lock, rotated, begun, seen>>

(* Mutation of Rotated: the UPDATE writes the whole row, as it was at first.   *)
RotatedRow(q) ==
    /\ key' = IF req[q].own THEN [key EXCEPT ![req[q].key] = [state |-> "active", secret |-> q]]
              ELSE key
    /\ rotated' = [rotated EXCEPT ![req[q].key] = @ \cup {q}]

Rotated(q) ==
    /\ key' = IF req[q].own THEN [key EXCEPT ![req[q].key].secret = q] ELSE key
    /\ rotated' = [rotated EXCEPT ![req[q].key] = @ \cup {q}]

CommitRotation(q) == /\ At(q, "rotate", "commit")
                     /\ Rotated(q)
                     /\ Unlock(q)
                     /\ Reply(q, 200)
                     /\ UNCHANGED <<begun, seen>>

(* A statement or the COMMIT fails and the deferred Rollback undoes them; or   *)
(* only the COMMIT's answer is lost.                                           *)
RotationFails(q) == /\ req[q].op = "rotate" /\ req[q].pc \in {"begin", "store", "log", "commit"}
                    /\ \/ UNCHANGED <<key, rotated>>
                       \/ req[q].pc = "commit" /\ Rotated(q)
                    /\ Unlock(q)
                    /\ Reply(q, 500)
                    /\ UNCHANGED <<begun, seen>>

---------------------------------------------------------------------------------
(* Deactivate: one UPDATE, which waits for the row and is not checked either.  *)

Deactivated(q) == key' = IF req[q].own THEN [key EXCEPT ![req[q].key].state = "inactive"] ELSE key

(* Mutation of Deactivate: the UPDATE writes the whole row as it was read, its *)
(* old secret too.                                                             *)
DeactivateRow(q) ==
    /\ At(q, "delete", "store")
    /\ key' = [key EXCEPT ![req[q].key] = [state |-> "inactive", secret |-> req[q].key]]
    /\ Reply(q, 204)
    /\ UNCHANGED <<lock, rotated, begun, seen>>

Deactivate(q) == /\ At(q, "delete", "store")
                 /\ lock[req[q].key] = Nobody \/ ~req[q].own
                 /\ Deactivated(q)
                 /\ Reply(q, 204)
                 /\ UNCHANGED <<lock, rotated, begun, seen>>

DeactivateFails(q) == /\ At(q, "delete", "store")
                      /\ \/ UNCHANGED key
                         \/ lock[req[q].key] = Nobody /\ Deactivated(q)
                      /\ Reply(q, 500)
                      /\ UNCHANGED <<lock, rotated, begun, seen>>

---------------------------------------------------------------------------------
(* A handler that is under way: its next step.                                 *)
Handle(q) == \/ InsertKey(q) \/ ReadKey(q)
             \/ BeginRotation(q) \/ UpdateSecret(q) \/ LogRotation(q) \/ CommitRotation(q)
             \/ Deactivate(q)

VaultFault(q) == InsertFails(q) \/ RotationFails(q) \/ DeactivateFails(q)

VaultNext ==
    \E q \in Requests :
       \/ AskCreate(q)
       \/ \E k \in Keys, own \in BOOLEAN : AskRotate(q, k, own) \/ AskDelete(q, k, own)
       \/ Handle(q) \/ VaultFault(q)

(* Postgres answers or fails, and grants a row's lock to one of those waiting. *)
VaultSpec == VaultInit /\ [][VaultNext]_vaultVars /\ \A q \in Requests : SF_vaultVars(Handle(q))

---------------------------------------------------------------------------------
Key == [state : {"none", "active", "inactive"}, secret : Ids]
Request == [op : {"none", "create", "rotate", "delete"}, key : Ids, own : BOOLEAN,
            pc : {"new", "begin", "store", "read", "log", "commit", "done"},
            answer : {0, 200, 201, 204, 500}]

VaultOK ==
    /\ key \in [Ids -> Key]
    /\ lock \in [Ids -> Requests \cup {Nobody}]
    /\ rotated \in [Ids -> SUBSET Requests]
    /\ begun \in Seq(Requests) /\ seen \in [Requests -> SUBSET Requests]
    /\ req \in [Requests -> Request]

(* The rotations in k's log that changed k.                                    *)
OwnRotations(k) == {q \in rotated[k] : req[q].own}

(* A key's secret is the one it was created with or, once it was rotated, that *)
(* of a rotation in the log that no other followed: none in the log began      *)
(* after it had committed. No secret changes without its row in the log, and   *)
(* none comes back, whatever rotations and deactivations overlap or fail       *)
(* halfway (store.go:139-180). (Of rotations that overlap, the log does not    *)
(* tell which came last: NewestRowIsStored.)                                   *)
SecretMatchesLog ==
    \A k \in Keys :
        IF OwnRotations(k) = {} THEN key[k].secret = k
        ELSE \E q \in OwnRotations(k) : /\ key[k].secret = q
                                        /\ \A p \in OwnRotations(k) : q \notin seen[p]

(* What the index on (key_id, rotated_at DESC) suggests (0006_keys.sql:33):    *)
(* the row of the log with the latest rotated_at is the stored secret's.       *)
NewestRowIsStored ==
    \A k \in Keys, i \in DOMAIN begun :
        /\ begun[i] \in OwnRotations(k)
        /\ \A j \in DOMAIN begun : j > i => begun[j] \notin OwnRotations(k)
        => key[k].secret = begun[i]

(* An answer is kept: a key answered 201 exists, a rotation of an own key      *)
(* answered 200 is in the log, and a key answered 204 stays inactive, also     *)
(* when a rotation that began before commits after (main.go:42-161).           *)
AnswersHold ==
    \A q \in Requests : req[q].own =>
        LET k == req[q].key
        IN  /\ req[q].answer = 201 => key[q].state # "none"
            /\ req[q].answer = 200 => q \in rotated[k]
            /\ req[q].answer = 204 => key[k].state = "inactive"

(* Every request is answered: none waits for a row for ever (store.go:152).    *)
EveryRequestAnswered == \A q \in Requests : req[q].pc \in {"begin", "store"} ~> req[q].pc = "done"
=================================================================================
