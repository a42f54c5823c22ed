------------------------------- MODULE Vault -------------------------------
(***************************************************************************)
(* The vault of kitsune-vault: instances of the browser that share one     *)
(* database and one keyring, and the one-time handles an instance gives    *)
(* out for what it decrypts.                                               *)
(*                                                                         *)
(* A salt is named by the instance that drew it.  A key of the caller      *)
(* stands for its origin, category and label as well (SlotOf): what a row  *)
(* is stored under is its key, what it is looked up by is its slot under   *)
(* the pseudonym of this instance.  Values are numbered as they come, and  *)
(* so are row ids: rows are in the order of their values.                  *)
(*                                                                         *)
(* store and retrieve run under the mutex of the instance's connection,    *)
(* but the row and its audit entry are two statements without transaction, *)
(* and another instance has a connection of its own.                       *)
(***************************************************************************)
EXTENDS Naturals

CONSTANTS
  Instances, Nobody,
  Keys, SlotOf,     \* keys, and the slot a key names
  Tokens, NoToken,
  MaxStores         \* bound on what is stored

VaultAssumption ==
  /\ Nobody \notin Instances /\ NoToken \notin Tokens
  /\ Keys # {} /\ DOMAIN SlotOf = Keys /\ MaxStores \in Nat

VARIABLES
  keyring,   \* the two salts of the OS keychain
  place,     \* where an instance is
  salts,     \* the salts an instance works with
  raced,     \* two instances opened at once
  rows,      \* the table of entries
  last,      \* per key, the value stored last
  stores,    \* how many values were stored
  token,     \* the state of a token
  owner,     \* the instance in whose memory it lives
  asked,     \* the key it was asked for
  value,     \* the value it stands for
  busy,      \* the token a retrieve is about to return
  audited,   \* tokens with an entry in the audit table
  disclosed  \* how often the value of a token was handed over

store == <<rows, last, stores>>
opening == <<keyring, salts, raced>>
handles == <<token, owner, asked, value>>
vars == <<keyring, place, salts, raced, rows, last, stores, token, owner, asked, value,
          busy, audited, disclosed>>

SaltKinds == {"kdf", "secret"}
Salts == [SaltKinds -> Instances \cup {Nobody}]
Places == {"down", "kdf", "kdf-new", "secret", "secret-new", "open", "storing", "retrieving"}
(* A token is bound while its value is in the map and nobody knows it, and *)
(* handed out then.  A hollow one has no value when it is handed out.      *)
TokenStates == {"unissued", "bound", "handed", "spent", "lapsed", "hollow"}
Row == [key : Keys, value : Nat, salts : Salts]

Init ==
  /\ keyring = [k \in SaltKinds |-> Nobody]
  /\ place = [i \in Instances |-> "down"]
  /\ salts = [i \in Instances |-> [k \in SaltKinds |-> Nobody]]
  /\ raced = FALSE /\ rows = {} /\ last = [k \in Keys |-> 0] /\ stores = 0
  /\ token = [t \in Tokens |-> "unissued"]
  /\ owner = [t \in Tokens |-> Nobody]
  /\ asked = [t \in Tokens |-> CHOOSE k \in Keys : TRUE]
  /\ value = [t \in Tokens |-> 0]
  /\ busy = [i \in Instances |-> NoToken]
  /\ audited = {} /\ disclosed = [t \in Tokens |-> 0]

Go(i, p) == place' = [place EXCEPT ![i] = p]
Up(i) == place[i] \in {"open", "storing", "retrieving"}
Opens(i) == place[i] \in {"kdf", "kdf-new", "secret", "secret-new"}

(* The value leaves the map before anybody gave the handle in.             *)
WithoutValue(t) ==
  CASE token[t] = "handed" -> "lapsed"
    [] token[t] = "bound" -> "hollow"
    [] OTHER -> token[t]

(* ------------------------------- opening ------------------------------- *)

Start(i) ==
  /\ place[i] = "down" /\ Go(i, "kdf")
  /\ raced' = (raced \/ \E j \in Instances : Opens(j))
  /\ UNCHANGED <<keyring, salts, store, handles, busy, audited, disclosed>>

AfterSalt(kind) == IF kind = "kdf" THEN "secret" ELSE "open"
WithoutSalt(kind) == IF kind = "kdf" THEN "kdf-new" ELSE "secret-new"

(* The salt is read from the keychain, or there is none yet.               *)
ReadSalt(i, kind) ==
  /\ place[i] = kind
  /\ IF keyring[kind] = Nobody
     THEN Go(i, WithoutSalt(kind)) /\ UNCHANGED salts
     ELSE /\ salts' = [salts EXCEPT ![i][kind] = keyring[kind]]
          /\ Go(i, AfterSalt(kind))
  /\ UNCHANGED <<keyring, raced, store, handles, busy, audited, disclosed>>

(* A new salt is drawn and written, over whatever is there by now.         *)
WriteSalt(i, kind) ==
  /\ place[i] = WithoutSalt(kind)
  /\ keyring' = [keyring EXCEPT ![kind] = i]
  /\ salts' = [salts EXCEPT ![i][kind] = i]
  /\ Go(i, AfterSalt(kind))
  /\ UNCHANGED <<raced, store, handles, busy, audited, disclosed>>

(* Faulty: a keychain that does not answer is taken for an empty one.      *)
OpenFailsDraws(i) ==
  /\ Opens(i)
  /\ Go(i, IF place[i] \in SaltKinds THEN WithoutSalt(place[i]) ELSE "down")
  /\ UNCHANGED <<opening, store, handles, busy, audited, disclosed>>

(* The keychain or the database does not answer: no vault in this run.     *)
OpenFails(i) ==
  /\ Opens(i) /\ Go(i, "down")
  /\ UNCHANGED <<opening, store, handles, busy, audited, disclosed>>

(* The process ends: its memory, and every token in it, is gone.           *)
Crash(i) ==
  /\ Up(i) /\ Go(i, "down")
  /\ token' = [t \in Tokens |-> IF owner[t] = i THEN WithoutValue(t) ELSE token[t]]
  /\ busy' = [busy EXCEPT ![i] = NoToken]
  /\ UNCHANGED <<opening, store, owner, asked, value, audited, disclosed>>

(* ------------------------------- entries ------------------------------- *)

(* INSERT OR REPLACE: the row of this key, if any, makes way.              *)
Replaced(row) == {r \in rows : r.key # row.key} \cup {row}

Store(i, k) ==
  /\ place[i] = "open" /\ stores < MaxStores
  /\ rows' = Replaced([key |-> k, value |-> stores + 1, salts |-> salts[i]])
  /\ stores' = stores + 1 /\ last' = [last EXCEPT ![k] = stores + 1]
  /\ Go(i, "storing")
  /\ UNCHANGED <<opening, handles, busy, audited, disclosed>>

(* The audit entry is written or not; the row stays in either case.        *)
StoreReturns(i) ==
  /\ place[i] = "storing" /\ Go(i, "open")
  /\ UNCHANGED <<opening, store, handles, busy, audited, disclosed>>

(* Faulty: the origin is no part of the look-up.                           *)
MatchesAny(r, i, k) == r.salts.secret = salts[i].secret

(* Origin, category and label, the origin under this instance's pseudonym. *)
Matches(r, i, k) == SlotOf[r.key] = SlotOf[k] /\ r.salts.secret = salts[i].secret

Found(i, k) == {r \in rows : Matches(r, i, k)}

(* The first row that matches, the oldest, is decrypted and bound to a new *)
(* token; the later ones of the slot are never returned.  When there is    *)
(* none, or it was encrypted under another key, nothing changes.           *)
Retrieve(i, k, t) ==
  /\ place[i] = "open" /\ token[t] = "unissued"
  /\ \E r \in Found(i, k) :
       /\ \A q \in Found(i, k) : r.value <= q.value
       /\ r.salts.kdf = salts[i].kdf
       /\ value' = [value EXCEPT ![t] = r.value]
  /\ token' = [token EXCEPT ![t] = "bound"]
  /\ owner' = [owner EXCEPT ![t] = i] /\ asked' = [asked EXCEPT ![t] = k]
  /\ busy' = [busy EXCEPT ![i] = t]
  /\ Go(i, "retrieving")
  /\ UNCHANGED <<opening, store, audited, disclosed>>

(* Faulty: the handle is returned although the entry was not written.      *)
RetrieveReturnsAnyway(i) ==
  /\ place[i] = "retrieving" /\ Go(i, "open")
  /\ busy' = [busy EXCEPT ![i] = NoToken]
  /\ token' = [token EXCEPT ![busy[i]] = IF @ = "bound" THEN "handed" ELSE @]
  /\ audited' \in {audited, audited \cup {busy[i]}}
  /\ UNCHANGED <<opening, store, owner, asked, value, disclosed>>

(* With the audit entry the caller gets the handle; without, an error, and *)
(* the value stays in the map under an id nobody knows.                    *)
RetrieveReturns(i) ==
  /\ place[i] = "retrieving" /\ Go(i, "open")
  /\ busy' = [busy EXCEPT ![i] = NoToken]
  /\ \/ /\ audited' = audited \cup {busy[i]}
        /\ token' = [token EXCEPT ![busy[i]] = IF @ = "bound" THEN "handed" ELSE @]
     \/ UNCHANGED <<audited, token>>
  /\ UNCHANGED <<opening, store, owner, asked, value, disclosed>>

(* Access for a field, with an approval: the handle stands for no value.   *)
RequestAccess(i, t) ==
  /\ Up(i) /\ token[t] = "unissued"
  /\ token' = [token EXCEPT ![t] = "hollow"]
  /\ UNCHANGED <<opening, place, store, owner, asked, value, busy, audited, disclosed>>

(* Thirty seconds are over.                                                *)
Expire(t) ==
  /\ token[t] \in {"bound", "handed"}
  /\ token' = [token EXCEPT ![t] = WithoutValue(t)]
  /\ UNCHANGED <<opening, place, store, owner, asked, value, busy, audited, disclosed>>

(* Faulty: the value is read and left in the map.                          *)
ConsumeTokenKeeps(t) ==
  /\ token[t] = "handed"
  /\ disclosed' = [disclosed EXCEPT ![t] = @ + 1]
  /\ disclosed[t] < 2
  /\ UNCHANGED <<opening, place, store, handles, busy, audited>>

(* The handle is given in: the value leaves the map.  A handle that was    *)
(* given in before, has expired or is hollow finds nothing.                *)
ConsumeToken(t) ==
  /\ token[t] = "handed"
  /\ token' = [token EXCEPT ![t] = "spent"]
  /\ disclosed' = [disclosed EXCEPT ![t] = @ + 1]
  /\ UNCHANGED <<opening, place, store, owner, asked, value, busy, audited>>

VaultNext ==
  \/ \E i \in Instances :
       \/ Start(i) \/ OpenFails(i) \/ Crash(i) \/ StoreReturns(i) \/ RetrieveReturns(i)
       \/ \E kind \in SaltKinds : ReadSalt(i, kind) \/ WriteSalt(i, kind)
       \/ \E k \in Keys : Store(i, k) \/ \E t \in Tokens : Retrieve(i, k, t)
       \/ \E t \in Tokens : RequestAccess(i, t)
  \/ \E t \in Tokens : Expire(t) \/ ConsumeToken(t)

VaultSpec == Init /\ [][VaultNext]_vars

(* ------------------------------ properties ----------------------------- *)

VaultTypeOK ==
  /\ keyring \in Salts /\ raced \in BOOLEAN /\ place \in [Instances -> Places]
  /\ salts \in [Instances -> Salts]
  /\ rows \subseteq Row /\ last \in [Keys -> Nat] /\ stores \in Nat
  /\ token \in [Tokens -> TokenStates] /\ owner \in [Tokens -> Instances \cup {Nobody}]
  /\ asked \in [Tokens -> Keys] /\ value \in [Tokens -> Nat]
  /\ busy \in [Instances -> Tokens \cup {NoToken}]
  /\ audited \subseteq Tokens /\ disclosed \in [Tokens -> Nat]

(* No value leaves the vault without an entry in the audit table, although *)
(* the entry is written after the value was decrypted and bound, and the   *)
(* write may fail.                                                         *)
DisclosureAudited == \A t \in Tokens : disclosed[t] > 0 => t \in audited

(* Every instance that is up, after whatever starts, failures to open and  *)
(* crashes, has the salts under which every row is found and decrypted,    *)
(* whichever instance wrote it: as long as no two opened at once, which    *)
(* nothing prevents.                                                       *)
RowsReadable ==
  raced \/ \A i \in Instances, r \in rows :
             Up(i) => r \in Found(i, r.key) /\ r.salts.kdf = salts[i].kdf

(* What retrieve binds to a handle was stored for the slot that was asked  *)
(* for, of this origin, category and label, and not for another; and it is *)
(* not a value that was replaced under its own key.  A value stored later  *)
(* for the same slot under a key of its own is shadowed: of several rows   *)
(* the first is bound.                                                     *)
BindsItsSlot ==
  [][\A t \in Tokens :
       token[t] = "unissued" /\ token'[t] = "bound" =>
         \E k \in Keys : SlotOf[k] = SlotOf[asked'[t]] /\ value'[t] = last[k]]_vars

(* The handles are one-time tickets: what nobody knows or stands for       *)
(* nothing was never issued.                                               *)
TicketOf(t) ==
  CASE token[t] = "handed" -> "live"
    [] token[t] = "spent" -> "spent"
    [] token[t] = "lapsed" -> "lapsed"
    [] OTHER -> "unissued"

Promise == INSTANCE Tickets WITH ticket <- [t \in Tokens |-> TicketOf(t)], uses <- disclosed

HandlesAreTickets == Promise!TicketsSpec
=============================================================================
