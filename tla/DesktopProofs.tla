---------------------------- MODULE DesktopProofs ----------------------------
(***************************************************************************)
(* Proofs about the vault and the document profile, and the types of all   *)
(* parts, for any number of instances, keys, tokens, runs and files.       *)
(***************************************************************************)
EXTENDS ShownProofs

-----------------------------------------------------------------------------
(* The handles of the vault.                                               *)

(* Nothing is handed out, or was, before its audit entry.                  *)
HandleInv ==
  /\ token \in [Tokens -> V!TokenStates] /\ disclosed \in [Tokens -> Nat]
  /\ \A t \in Tokens : token[t] = "handed" \/ disclosed[t] > 0 => t \in audited

LEMMA HandleInit == Init => HandleInv
  BY DEF Init, V!Init, HandleInv, V!TokenStates

(* Steps that hand nothing out.                                            *)
LEMMA NotHanded ==
  ASSUME HandleInv,
         token' \in [Tokens -> V!TokenStates],
         \A t \in Tokens : token'[t] = "handed" => token[t] = "handed",
         UNCHANGED <<audited, disclosed>>
  PROVE  HandleInv'
  BY DEF HandleInv

LEMMA HandleStep ==
  ASSUME HandleInv, Next
  PROVE  HandleInv'
<1>1. CASE UNCHANGED <<token, audited, disclosed>>
  BY <1>1 DEF HandleInv
<1>2. ASSUME NEW i \in Instances, V!Crash(i)
      PROVE  HandleInv'
  <2>1. UNCHANGED <<audited, disclosed>>
    BY <1>2 DEF V!Crash
  <2>2. token' \in [Tokens -> V!TokenStates]
    BY <1>2 DEF V!Crash, V!WithoutValue, HandleInv, V!TokenStates
  <2>3. \A t \in Tokens : token'[t] = "handed" => token[t] = "handed"
    BY <1>2 DEF V!Crash, V!WithoutValue
  <2> QED
    BY <2>1, <2>2, <2>3, NotHanded
<1>3. ASSUME NEW i \in Instances, NEW k \in Keys, NEW t \in Tokens, V!Retrieve(i, k, t)
      PROVE  HandleInv'
  BY <1>3, NotHanded DEF V!Retrieve, HandleInv, V!TokenStates
<1>4. ASSUME NEW i \in Instances, V!RetrieveReturns(i)
      PROVE  HandleInv'
  BY <1>4 DEF V!RetrieveReturns, HandleInv, V!TokenStates
<1>5. ASSUME NEW i \in Instances, NEW t \in Tokens, V!RequestAccess(i, t)
      PROVE  HandleInv'
  BY <1>5, NotHanded DEF V!RequestAccess, HandleInv, V!TokenStates
<1>6. ASSUME NEW t \in Tokens, V!Expire(t)
      PROVE  HandleInv'
  BY <1>6, NotHanded DEF V!Expire, V!WithoutValue, HandleInv, V!TokenStates
<1>7. ASSUME NEW t \in Tokens, V!ConsumeToken(t)
      PROVE  HandleInv'
  BY <1>7 DEF V!ConsumeToken, HandleInv, V!TokenStates
<1>8. ASSUME NEW i \in Instances,
             \/ V!Start(i) \/ V!OpenFails(i) \/ V!StoreReturns(i)
             \/ \E kind \in V!SaltKinds : V!ReadSalt(i, kind) \/ V!WriteSalt(i, kind)
             \/ \E k \in Keys : V!Store(i, k)
      PROVE  UNCHANGED <<token, audited, disclosed>>
  BY <1>8 DEF V!Start, V!OpenFails, V!StoreReturns, V!ReadSalt, V!WriteSalt, V!Store, V!handles
<1> QED
  BY <1>1, <1>2, <1>3, <1>4, <1>5, <1>6, <1>7, <1>8 DEF Next, V!VaultNext, vaultVars

(* No value leaves the vault without an entry in the audit table, although *)
(* the entry is written last and may fail (backend.rs, retrieve).          *)
THEOREM DesktopDisclosureAudited == Spec => []DisclosureAudited
<1>1. HandleInv /\ UNCHANGED vars => HandleInv'
  BY DEF HandleInv, vars, vaultVars
<1>2. HandleInv => DisclosureAudited
  BY DEF HandleInv, DisclosureAudited, V!DisclosureAudited
<1> QED
  BY HandleInit, HandleStep, <1>1, <1>2, PTL DEF Spec

-----------------------------------------------------------------------------
(* The vault implements the tickets.                                       *)

LEMMA TicketSame ==
  ASSUME \A t \in Tokens : V!TicketOf(t)' = V!TicketOf(t), UNCHANGED disclosed
  PROVE  UNCHANGED V!Promise!tickets
  BY DEF V!Promise!tickets

LEMMA TicketStep ==
  ASSUME HandleInv, Next
  PROVE  V!Promise!TicketsNext \/ UNCHANGED V!Promise!tickets
<1>1. CASE UNCHANGED <<token, disclosed>>
  BY <1>1, TicketSame DEF V!TicketOf
<1>2. ASSUME NEW i \in Instances, V!Crash(i)
      PROVE  V!Promise!TicketsNext
  <2> DEFINE Gone == {t \in Tokens : owner[t] = i /\ token[t] = "handed"}
  <2>1. \A t \in Gone : V!TicketOf(t) = "live"
    BY DEF V!TicketOf
  <2>2. \A t \in Tokens :
          V!TicketOf(t)' = IF t \in Gone THEN "lapsed" ELSE V!TicketOf(t)
    BY <1>2 DEF V!Crash, V!WithoutValue, V!TicketOf
  <2>3. UNCHANGED disclosed
    BY <1>2 DEF V!Crash
  <2>4. V!Promise!Lapse(Gone)
    BY <2>1, <2>2, <2>3 DEF V!Promise!Lapse
  <2> QED
    BY <2>4 DEF V!Promise!TicketsNext
<1>3. ASSUME NEW i \in Instances, V!RetrieveReturns(i)
      PROVE  V!Promise!TicketsNext \/ UNCHANGED V!Promise!tickets
  <2>1. CASE busy[i] \in Tokens /\ token[busy[i]] = "bound" /\ token'[busy[i]] = "handed"
    <3>1. V!TicketOf(busy[i]) = "unissued"
      BY <2>1 DEF V!TicketOf
    <3>2. /\ token' = [token EXCEPT ![busy[i]] = "handed"]
          /\ UNCHANGED disclosed
      BY <1>3, <2>1 DEF V!RetrieveReturns, HandleInv
    <3>3. \A t \in Tokens :
            V!TicketOf(t)' = IF t = busy[i] THEN "live" ELSE V!TicketOf(t)
      BY <2>1, <3>2 DEF V!TicketOf, HandleInv
    <3>4. V!Promise!Issue(busy[i])
      BY <2>1, <3>1, <3>2, <3>3 DEF V!Promise!Issue, V!Promise!Becomes
    <3> QED
      BY <2>1, <3>4 DEF V!Promise!TicketsNext
  <2>2. CASE ~(busy[i] \in Tokens /\ token[busy[i]] = "bound" /\ token'[busy[i]] = "handed")
    <3>1. UNCHANGED <<token, disclosed>>
      BY <1>3, <2>2 DEF V!RetrieveReturns, HandleInv
    <3> QED
      BY <3>1, TicketSame DEF V!TicketOf
  <2> QED
    BY <2>1, <2>2
<1>4. ASSUME NEW i \in Instances, NEW t \in Tokens,
             V!RequestAccess(i, t) \/ \E k \in Keys : V!Retrieve(i, k, t)
      PROVE  UNCHANGED V!Promise!tickets
  <2>1. \A u \in Tokens : V!TicketOf(u)' = V!TicketOf(u)
    BY <1>4 DEF V!RequestAccess, V!Retrieve, V!TicketOf, HandleInv
  <2> QED
    BY <1>4, <2>1, TicketSame DEF V!RequestAccess, V!Retrieve
<1>5. ASSUME NEW t \in Tokens, V!Expire(t)
      PROVE  V!Promise!TicketsNext \/ UNCHANGED V!Promise!tickets
  <2>1. CASE token[t] = "handed"
    <3>1. V!TicketOf(t) = "live" /\ UNCHANGED disclosed
      BY <1>5, <2>1 DEF V!TicketOf, V!Expire
    <3>2. \A u \in Tokens :
            V!TicketOf(u)' = IF u \in {t} THEN "lapsed" ELSE V!TicketOf(u)
      BY <1>5, <2>1 DEF V!Expire, V!WithoutValue, V!TicketOf, HandleInv
    <3>3. V!Promise!Lapse({t})
      BY <3>1, <3>2 DEF V!Promise!Lapse
    <3> QED
      BY <3>3 DEF V!Promise!TicketsNext
  <2>2. CASE token[t] = "bound"
    <3>1. \A u \in Tokens : V!TicketOf(u)' = V!TicketOf(u)
      BY <1>5, <2>2 DEF V!Expire, V!WithoutValue, V!TicketOf, HandleInv
    <3> QED
      BY <1>5, <3>1, TicketSame DEF V!Expire
  <2> QED
    BY <1>5, <2>1, <2>2 DEF V!Expire
<1>6. ASSUME NEW t \in Tokens, V!ConsumeToken(t)
      PROVE  V!Promise!TicketsNext
  <2>1. V!TicketOf(t) = "live" /\ disclosed' = [disclosed EXCEPT ![t] = @ + 1]
    BY <1>6 DEF V!ConsumeToken, V!TicketOf
  <2>2. \A u \in Tokens : V!TicketOf(u)' = IF u = t THEN "spent" ELSE V!TicketOf(u)
    BY <1>6 DEF V!ConsumeToken, V!TicketOf, HandleInv
  <2>3. V!Promise!Spend(t)
    BY <2>1, <2>2 DEF V!Promise!Spend, V!Promise!Becomes
  <2> QED
    BY <2>3 DEF V!Promise!TicketsNext
<1>7. ASSUME NEW i \in Instances,
             \/ V!Start(i) \/ V!OpenFails(i) \/ V!StoreReturns(i)
             \/ \E kind \in V!SaltKinds : V!ReadSalt(i, kind) \/ V!WriteSalt(i, kind)
             \/ \E k \in Keys : V!Store(i, k)
      PROVE  UNCHANGED <<token, disclosed>>
  BY <1>7 DEF V!Start, V!OpenFails, V!StoreReturns, V!ReadSalt, V!WriteSalt, V!Store, V!handles
<1> QED
  BY <1>1, <1>2, <1>3, <1>4, <1>5, <1>6, <1>7 DEF Next, V!VaultNext, vaultVars

(* A handle of the vault is a one-time ticket: issued once, spent at most  *)
(* once while it is live, never live again (backend.rs).                   *)
THEOREM DesktopTickets == Spec => HandlesAreTickets
<1>1. Init => V!Promise!TicketsInit
  BY DEF Init, V!Init, V!TicketOf, V!Promise!TicketsInit
<1>2. UNCHANGED vars => UNCHANGED V!Promise!tickets
  BY TicketSame DEF vars, vaultVars, V!TicketOf
<1>3. HandleInv /\ UNCHANGED vars => HandleInv'
  BY DEF HandleInv, vars, vaultVars
<1> QED
  BY <1>1, <1>2, <1>3, HandleInit, HandleStep, TicketStep, PTL
     DEF Spec, HandlesAreTickets, V!HandlesAreTickets, V!Promise!TicketsSpec

-----------------------------------------------------------------------------
(* The rows of the vault.                                                  *)

(* The rows are the values stored last, and who is about to return a token *)
(* has one.                                                                *)
VaultInv ==
  /\ V!VaultTypeOK
  /\ \A i \in Instances : place[i] = "retrieving" => busy[i] \in Tokens
  /\ \A r \in rows : r.value = last[r.key]

LEMMA VaultInit == Init => VaultInv
<1> SUFFICES ASSUME Init PROVE VaultInv
  OBVIOUS
<1>1. (CHOOSE k \in Keys : TRUE) \in Keys
  BY DesktopAssumption DEF V!VaultAssumption
<1> QED
  BY <1>1 DEF Init, V!Init, VaultInv, V!VaultTypeOK, V!Salts, V!SaltKinds, V!Places, V!TokenStates

LEMMA VaultStep ==
  ASSUME VaultInv, Next
  PROVE  VaultInv'
<1> USE DEF VaultInv, V!VaultTypeOK, V!Go, V!Places
<1>1. CASE UNCHANGED vaultVars
  BY <1>1 DEF vaultVars
<1>2. ASSUME NEW i \in Instances, V!Start(i) \/ V!OpenFails(i) \/ V!StoreReturns(i)
      PROVE  VaultInv'
  BY <1>2 DEF V!Start, V!OpenFails, V!StoreReturns, V!opening, V!store, V!handles
<1>3. ASSUME NEW i \in Instances, NEW kind \in V!SaltKinds, V!ReadSalt(i, kind) \/ V!WriteSalt(i, kind)
      PROVE  VaultInv'
  <2>1. V!AfterSalt(kind) \in {"secret", "open"} /\ V!WithoutSalt(kind) \in {"kdf-new", "secret-new"}
    BY DEF V!AfterSalt, V!WithoutSalt
  <2>2. /\ keyring[kind] \in Instances \cup {Nobody}
        /\ \A x \in Instances \cup {Nobody}, s \in V!Salts : [s EXCEPT ![kind] = x] \in V!Salts
    BY DEF V!Salts
  <2>3. keyring' \in V!Salts
    BY <1>3, <2>2 DEF V!ReadSalt, V!WriteSalt
  <2>5. ASSUME NEW x \in Instances \cup {Nobody}, salts' = [salts EXCEPT ![i][kind] = x]
        PROVE  salts' \in [Instances -> V!Salts]
    <3>1. salts' = [salts EXCEPT ![i] = [salts[i] EXCEPT ![kind] = x]]
      BY <2>5
    <3>2. [salts[i] EXCEPT ![kind] = x] \in V!Salts
      BY <2>2
    <3> QED
      BY <3>1, <3>2
  <2>6. salts' \in [Instances -> V!Salts]
    BY <1>3, <2>2, <2>5 DEF V!ReadSalt, V!WriteSalt
  <2> QED
    BY <1>3, <2>1, <2>3, <2>6 DEF V!ReadSalt, V!WriteSalt, V!store, V!handles
<1>4. ASSUME NEW i \in Instances, V!Crash(i)
      PROVE  VaultInv'
  <2>1. token' \in [Tokens -> V!TokenStates]
    BY <1>4 DEF V!Crash, V!WithoutValue, V!TokenStates
  <2> QED
    BY <1>4, <2>1 DEF V!Crash, V!opening, V!store
<1>5. ASSUME NEW i \in Instances, NEW k \in Keys, V!Store(i, k)
      PROVE  VaultInv'
  <2> DEFINE new == [key |-> k, value |-> stores + 1, salts |-> salts[i]]
  <2>1. new \in V!Row
    BY DEF V!Row
  <2>2. rows' \subseteq V!Row /\ \A r \in rows' : r = new \/ (r \in rows /\ r.key # k)
    BY <1>5, <2>1 DEF V!Store, V!Replaced
  <2>3. \A r \in rows' : r.value = last'[r.key]
    BY <1>5, <2>2 DEF V!Store, V!Row
  <2>4. last' \in [Keys -> Nat] /\ stores' \in Nat
    BY <1>5 DEF V!Store
  <2> QED
    BY <1>5, <2>2, <2>3, <2>4 DEF V!Store, V!opening, V!handles
<1>6. ASSUME NEW i \in Instances, NEW k \in Keys, NEW t \in Tokens, V!Retrieve(i, k, t)
      PROVE  VaultInv'
  <2>1. value' \in [Tokens -> Nat]
    BY <1>6 DEF V!Retrieve, V!Found, V!Row
  <2> QED
    BY <1>6, <2>1 DEF V!Retrieve, V!opening, V!store, V!TokenStates
<1>7. ASSUME NEW i \in Instances, V!RetrieveReturns(i)
      PROVE  VaultInv'
  <2>1. busy[i] \in Tokens
    BY <1>7 DEF V!RetrieveReturns
  <2>2. token' \in [Tokens -> V!TokenStates] /\ audited' \subseteq Tokens
    BY <1>7, <2>1 DEF V!RetrieveReturns, V!TokenStates
  <2> QED
    BY <1>7, <2>2 DEF V!RetrieveReturns, V!opening, V!store
<1>8. ASSUME NEW t \in Tokens,
             \/ V!Expire(t) \/ V!ConsumeToken(t)
             \/ \E i \in Instances : V!RequestAccess(i, t)
      PROVE  VaultInv'
  <2>1. token' \in [Tokens -> V!TokenStates]
    BY <1>8 DEF V!Expire, V!ConsumeToken, V!RequestAccess, V!WithoutValue, V!TokenStates
  <2>2. disclosed' \in [Tokens -> Nat]
    BY <1>8 DEF V!Expire, V!ConsumeToken, V!RequestAccess
  <2> QED
    BY <1>8, <2>1, <2>2 DEF V!Expire, V!ConsumeToken, V!RequestAccess, V!opening, V!store, V!handles
<1> QED
  BY <1>1, <1>2, <1>3, <1>4, <1>5, <1>6, <1>7, <1>8 DEF Next, V!VaultNext

(* What retrieve binds to a handle was stored for the slot it was asked    *)
(* for and was not replaced under its key (backend.rs, retrieve; db.rs).   *)
THEOREM DesktopBindsItsSlot == Spec => BindsItsSlot
<1> DEFINE Bound == \A t \in Tokens :
                      token[t] = "unissued" /\ token'[t] = "bound" =>
                        \E k \in Keys : SlotOf[k] = SlotOf[asked'[t]] /\ value'[t] = last[k]
<1>1. VaultInv /\ UNCHANGED vars => VaultInv'
  BY DEF VaultInv, V!VaultTypeOK, vars, vaultVars
<1>2. ASSUME VaultInv, Next
      PROVE  Bound
  <2> SUFFICES ASSUME NEW t \in Tokens, token[t] = "unissued", token'[t] = "bound"
               PROVE  \E k \in Keys : SlotOf[k] = SlotOf[asked'[t]] /\ value'[t] = last[k]
    OBVIOUS
  <2> USE DEF VaultInv, V!VaultTypeOK
  <2>1. PICK i \in Instances, k \in Keys, u \in Tokens : V!Retrieve(i, k, u)
    <3>1. token'[t] # token[t]
      OBVIOUS
    <3>2. ASSUME NEW i \in Instances,
                 \/ V!Start(i) \/ V!OpenFails(i) \/ V!StoreReturns(i)
                 \/ \E kind \in V!SaltKinds : V!ReadSalt(i, kind) \/ V!WriteSalt(i, kind)
                 \/ \E k \in Keys : V!Store(i, k)
          PROVE  UNCHANGED token
      BY <3>2 DEF V!Start, V!OpenFails, V!StoreReturns, V!ReadSalt, V!WriteSalt, V!Store, V!handles
    <3>3. ASSUME NEW i \in Instances, V!Crash(i) PROVE token'[t] = token[t]
      BY <3>3 DEF V!Crash, V!WithoutValue
    <3>4. ASSUME NEW i \in Instances, V!RetrieveReturns(i) PROVE token'[t] = token[t]
      BY <1>2, <3>4 DEF V!RetrieveReturns
    <3>5. ASSUME NEW u \in Tokens,
                 \/ V!Expire(u) \/ V!ConsumeToken(u)
                 \/ \E i \in Instances : V!RequestAccess(i, u)
          PROVE  token'[t] = token[t]
      BY <1>2, <3>5 DEF V!Expire, V!ConsumeToken, V!RequestAccess, V!WithoutValue
    <3> QED
      BY <1>2, <3>1, <3>2, <3>3, <3>4, <3>5 DEF Next, V!VaultNext, vaultVars
  <2>2. u = t /\ asked'[t] = k
    BY <1>2, <2>1 DEF V!Retrieve
  <2>3. PICK r \in V!Found(i, k) : value' = [value EXCEPT ![u] = r.value]
    BY <2>1 DEF V!Retrieve
  <2>4. r \in rows /\ r.key \in Keys /\ SlotOf[r.key] = SlotOf[k] /\ r.value = last[r.key]
    BY <1>2, <2>3 DEF V!Found, V!Matches, V!Row
  <2> QED
    BY <1>2, <2>2, <2>3, <2>4
<1>3. VaultInv /\ [Next]_vars => [Bound]_V!vars
  <2>1. UNCHANGED vars => UNCHANGED V!vars
    BY DEF vars, vaultVars, V!vars
  <2> QED
    BY <1>2, <2>1
<1> QED
  BY VaultInit, VaultStep, <1>1, <1>3, PTL DEF Spec, BindsItsSlot, V!BindsItsSlot

-----------------------------------------------------------------------------
(* The salts of the vault.                                                 *)

(* Who opens is alone, so that a salt it found missing still is.  Who is   *)
(* up, and every row, has the salts of the keychain.                       *)
Alone == \A i, j \in Instances : V!Opens(i) /\ V!Opens(j) => i = j

Seen(i) ==
  /\ place[i] = "kdf-new" => keyring["kdf"] = Nobody
  /\ place[i] = "secret-new" => keyring["secret"] = Nobody
  /\ place[i] \in {"secret", "secret-new"} =>
       keyring["kdf"] # Nobody /\ salts[i]["kdf"] = keyring["kdf"]

Full == keyring["kdf"] # Nobody /\ keyring["secret"] # Nobody

SaltInv ==
  ~raced =>
    /\ Alone /\ \A i \in Instances : Seen(i)
    /\ \A i \in Instances : V!Up(i) => Full /\ salts[i] = keyring
    /\ \A r \in rows : Full /\ r.salts = keyring

LEMMA SaltInit == Init => SaltInv
  BY DEF Init, V!Init, SaltInv, Alone, Seen, V!Opens, V!Up

(* Steps of an instance that draw no salt and store nothing.               *)
LEMMA SaltKept ==
  ASSUME VaultInv, SaltInv, UNCHANGED <<keyring, salts, raced, rows>>,
         \A i \in Instances :
           /\ V!Opens(i)' => place'[i] = place[i]
           /\ V!Up(i)' => V!Up(i)
  PROVE  SaltInv'
  BY DEF SaltInv, Alone, Seen, Full, V!Opens, V!Up

LEMMA ReadSaltInv ==
  ASSUME VaultInv, SaltInv, NEW i \in Instances, NEW kind \in V!SaltKinds, V!ReadSalt(i, kind)
  PROVE  SaltInv'
<1> SUFFICES ASSUME ~raced PROVE SaltInv'
  BY DEF SaltInv, V!ReadSalt
<1> USE DEF VaultInv, V!VaultTypeOK, V!Go
<1>1. V!Opens(i) /\ UNCHANGED <<keyring, raced, rows>>
  BY DEF V!ReadSalt, V!Opens, V!SaltKinds, V!store
<1>2. \A j \in Instances : j # i => place'[j] = place[j] /\ salts'[j] = salts[j]
  BY DEF V!ReadSalt
<1>3. \A j \in Instances : j # i => ~V!Opens(j)
  BY <1>1 DEF SaltInv, Alone
<1>4. \A j \in Instances : j # i => Seen(j)' /\ ~V!Opens(j)' /\ (V!Up(j)' => Full' /\ salts'[j] = keyring')
  BY <1>1, <1>2, <1>3 DEF SaltInv, Seen, Full, V!Opens, V!Up
<1>5. CASE keyring[kind] = Nobody
  <2>1. place'[i] = V!WithoutSalt(kind) /\ salts'[i] = salts[i] /\ place[i] = kind
    BY <1>5 DEF V!ReadSalt
  <2>2. Seen(i)' /\ ~V!Up(i)'
    BY <1>1, <1>5, <2>1 DEF SaltInv, Seen, V!Up, V!WithoutSalt, V!SaltKinds
  <2> QED
    BY <1>1, <1>4, <2>2 DEF SaltInv, Alone, Full
<1>6. CASE keyring[kind] # Nobody
  <2>1. /\ place'[i] = V!AfterSalt(kind) /\ place[i] = kind
        /\ salts'[i] = [salts[i] EXCEPT ![kind] = keyring[kind]]
    <3>1. /\ place'[i] = V!AfterSalt(kind) /\ place[i] = kind
          /\ salts' = [salts EXCEPT ![i] = [salts[i] EXCEPT ![kind] = keyring[kind]]]
      BY <1>6 DEF V!ReadSalt
    <3> QED
      BY <3>1
  <2>2. salts[i] \in V!Salts /\ keyring \in V!Salts
    OBVIOUS
  <2>3. CASE kind = "kdf"
    <3>1. place'[i] = "secret" /\ salts'[i]["kdf"] = keyring["kdf"]
      BY <2>1, <2>2, <2>3 DEF V!AfterSalt, V!Salts, V!SaltKinds
    <3>2. Seen(i)' /\ ~V!Up(i)'
      BY <1>1, <1>6, <2>3, <3>1 DEF Seen, V!Up
    <3> QED
      BY <1>1, <1>4, <3>2 DEF SaltInv, Alone, Full
  <2>4. CASE kind = "secret"
    <3>1. place'[i] = "open" /\ salts'[i]["secret"] = keyring["secret"]
          /\ salts'[i]["kdf"] = salts[i]["kdf"]
      BY <2>1, <2>2, <2>4 DEF V!AfterSalt, V!Salts, V!SaltKinds
    <3>2. salts[i]["kdf"] = keyring["kdf"] /\ keyring["kdf"] # Nobody
      BY <2>1, <2>4 DEF SaltInv, Seen
    <3>3. salts'[i] \in V!Salts
      BY <2>1, <2>2 DEF V!Salts
    <3>4. salts'[i] = keyring
      BY <2>2, <3>1, <3>2, <3>3 DEF V!Salts, V!SaltKinds
    <3>5. Seen(i)' /\ Full
      BY <1>6, <2>4, <3>1, <3>2 DEF Seen, Full
    <3> QED
      BY <1>1, <1>4, <3>1, <3>4, <3>5 DEF SaltInv, Alone, Full, V!Opens
  <2> QED
    BY <2>3, <2>4 DEF V!SaltKinds
<1> QED
  BY <1>5, <1>6

LEMMA WriteSaltInv ==
  ASSUME VaultInv, SaltInv, NEW i \in Instances, NEW kind \in V!SaltKinds, V!WriteSalt(i, kind)
  PROVE  SaltInv'
<1> SUFFICES ASSUME ~raced PROVE SaltInv'
  BY DEF SaltInv, V!WriteSalt
<1> USE DEF VaultInv, V!VaultTypeOK, V!Go
<1>1. V!Opens(i) /\ place[i] = V!WithoutSalt(kind) /\ UNCHANGED <<raced, rows>>
  BY DEF V!WriteSalt, V!Opens, V!WithoutSalt, V!SaltKinds, V!store
<1>2. keyring[kind] = Nobody /\ i # Nobody
  BY <1>1, DesktopAssumption DEF SaltInv, Seen, V!WithoutSalt, V!SaltKinds, V!VaultAssumption
<1>3. rows = {} /\ \A j \in Instances : ~V!Up(j)
  BY <1>2 DEF SaltInv, Full, V!SaltKinds
<1>4. \A j \in Instances : j # i => place'[j] = place[j] /\ ~V!Opens(j)
  BY <1>1 DEF V!WriteSalt, SaltInv, Alone
<1>5. \A j \in Instances : j # i => ~V!Opens(j)' /\ ~V!Up(j)' /\ Seen(j)'
  BY <1>3, <1>4 DEF V!Opens, V!Up, Seen
<1>6. /\ place'[i] = V!AfterSalt(kind)
      /\ keyring' = [keyring EXCEPT ![kind] = i]
      /\ salts'[i] = [salts[i] EXCEPT ![kind] = i]
  <2>1. /\ place'[i] = V!AfterSalt(kind)
        /\ keyring' = [keyring EXCEPT ![kind] = i]
        /\ salts' = [salts EXCEPT ![i] = [salts[i] EXCEPT ![kind] = i]]
    BY DEF V!WriteSalt
  <2> QED
    BY <2>1
<1>7. salts[i] \in V!Salts /\ keyring \in V!Salts
  OBVIOUS
<1>8. salts'[i] \in V!Salts /\ keyring' \in V!Salts
  BY <1>6, <1>7 DEF V!Salts
<1>9. CASE kind = "kdf"
  <2>1. place'[i] = "secret" /\ salts'[i]["kdf"] = i /\ keyring'["kdf"] = i
    BY <1>6, <1>7, <1>9 DEF V!AfterSalt, V!Salts, V!SaltKinds
  <2>2. Seen(i)' /\ ~V!Up(i)'
    BY <1>2, <2>1 DEF Seen, V!Up
  <2> QED
    BY <1>1, <1>3, <1>5, <2>2 DEF SaltInv, Alone
<1>10. CASE kind = "secret"
  <2>1. salts[i]["kdf"] = keyring["kdf"] /\ keyring["kdf"] # Nobody
    BY <1>1, <1>10 DEF SaltInv, Seen, V!WithoutSalt
  <2>2. /\ place'[i] = "open" /\ salts'[i]["secret"] = i /\ keyring'["secret"] = i
        /\ salts'[i]["kdf"] = salts[i]["kdf"] /\ keyring'["kdf"] = keyring["kdf"]
    BY <1>6, <1>7, <1>10 DEF V!AfterSalt, V!Salts, V!SaltKinds
  <2>3. salts'[i] = keyring'
    BY <1>8, <2>1, <2>2 DEF V!Salts, V!SaltKinds
  <2>4. Seen(i)' /\ Full' /\ ~V!Opens(i)'
    BY <1>2, <2>1, <2>2 DEF Seen, Full, V!Opens
  <2> QED
    BY <1>1, <1>3, <1>5, <2>3, <2>4 DEF SaltInv, Alone
<1> QED
  BY <1>9, <1>10 DEF V!SaltKinds

LEMMA SaltStep ==
  ASSUME VaultInv, SaltInv, Next
  PROVE  SaltInv'
<1> USE DEF VaultInv, V!VaultTypeOK, V!Go, V!opening, V!store
<1>1. CASE UNCHANGED <<keyring, salts, raced, rows, place>>
  BY <1>1, SaltKept DEF V!Opens, V!Up
<1>2. ASSUME NEW i \in Instances, V!Start(i)
      PROVE  SaltInv'
  <2> SUFFICES ASSUME ~raced' PROVE SaltInv'
    BY DEF SaltInv
  <2>1. /\ ~raced /\ \A j \in Instances : ~V!Opens(j)
        /\ UNCHANGED <<keyring, salts, rows>> /\ place' = [place EXCEPT ![i] = "kdf"]
    BY <1>2 DEF V!Start
  <2>2. \A j \in Instances : j # i => ~V!Opens(j)' /\ (V!Up(j)' => V!Up(j)) /\ Seen(j)'
    BY <2>1 DEF V!Opens, V!Up, Seen
  <2>3. ~V!Up(i)' /\ Seen(i)'
    BY <2>1 DEF V!Up, Seen
  <2> QED
    BY <2>1, <2>2, <2>3 DEF SaltInv, Alone, Full
<1>3. ASSUME NEW i \in Instances,
             \/ V!OpenFails(i) \/ V!Crash(i) \/ V!StoreReturns(i) \/ V!RetrieveReturns(i)
             \/ \E k \in Keys, t \in Tokens : V!Retrieve(i, k, t)
      PROVE  SaltInv'
  <2>1. UNCHANGED <<keyring, salts, raced, rows>>
    BY <1>3 DEF V!OpenFails, V!Crash, V!StoreReturns, V!RetrieveReturns, V!Retrieve
  <2>2. PICK p \in {"down", "open", "retrieving"} :
          place' = [place EXCEPT ![i] = p] /\ (p # "down" => V!Up(i))
    BY <1>3 DEF V!OpenFails, V!Crash, V!StoreReturns, V!RetrieveReturns, V!Retrieve, V!Up
  <2>3. \A j \in Instances : (V!Opens(j)' => place'[j] = place[j]) /\ (V!Up(j)' => V!Up(j))
    BY <2>2 DEF V!Opens, V!Up
  <2> QED
    BY <2>1, <2>3, SaltKept
<1>4. ASSUME NEW i \in Instances, NEW k \in Keys, V!Store(i, k)
      PROVE  SaltInv'
  <2> SUFFICES ASSUME ~raced PROVE SaltInv'
    BY <1>4 DEF SaltInv, V!Store
  <2>1. /\ UNCHANGED <<keyring, salts, raced>> /\ place[i] = "open"
        /\ place' = [place EXCEPT ![i] = "storing"]
        /\ \A r \in rows' : r \in rows \/ r.salts = salts[i]
    BY <1>4 DEF V!Store, V!Replaced
  <2>2. Full /\ salts[i] = keyring
    BY <2>1 DEF SaltInv, V!Up
  <2>3. \A r \in rows' : Full' /\ r.salts = keyring'
    BY <2>1, <2>2 DEF SaltInv, Full
  <2>4. \A j \in Instances : (V!Opens(j)' => V!Opens(j)) /\ Seen(j)' /\ (V!Up(j)' => V!Up(j))
    BY <2>1 DEF V!Opens, V!Up, SaltInv, Seen
  <2> QED
    BY <2>1, <2>3, <2>4 DEF SaltInv, Alone, Full
<1>5. ASSUME NEW t \in Tokens,
             \/ V!Expire(t) \/ V!ConsumeToken(t)
             \/ \E i \in Instances : V!RequestAccess(i, t)
      PROVE  UNCHANGED <<keyring, salts, raced, rows, place>>
  BY <1>5 DEF V!Expire, V!ConsumeToken, V!RequestAccess
<1> QED
  BY <1>1, <1>2, <1>3, <1>4, <1>5, ReadSaltInv, WriteSaltInv DEF Next, V!VaultNext, vaultVars

(* What any instance stored, every instance that is up finds and can       *)
(* decrypt, over restarts and failures to open, as long as no two instances*)
(* opened at once (backend.rs, new_with_keyring and new).                  *)
THEOREM DesktopRowsReadable == Spec => []RowsReadable
<1>1. VaultInv /\ SaltInv /\ UNCHANGED vars => VaultInv' /\ SaltInv'
  BY DEF VaultInv, V!VaultTypeOK, SaltInv, Alone, Seen, Full, V!Opens, V!Up, vars, vaultVars
<1>2. ASSUME VaultInv, SaltInv PROVE RowsReadable
  <2> SUFFICES ASSUME ~raced, NEW i \in Instances, NEW r \in rows, V!Up(i)
               PROVE  r \in V!Found(i, r.key) /\ r.salts.kdf = salts[i].kdf
    BY DEF RowsReadable, V!RowsReadable
  <2>1. r.salts = salts[i]
    BY <1>2 DEF SaltInv
  <2> QED
    BY <2>1 DEF V!Found, V!Matches
<1> QED
  BY VaultInit, VaultStep, SaltInit, SaltStep, <1>1, <1>2, PTL DEF Spec

-----------------------------------------------------------------------------
(* The document profile.                                                   *)

ProfileTypes ==
  /\ thread \in [Reindexes -> P!Stages \cup P!Over]
  /\ handle \in [Reindexes -> Inodes \cup {NoFile}]
  /\ names \in [tmp : Inodes \cup {NoFile}, cache : Inodes \cup {NoFile}]
  /\ content \in [Inodes -> P!Contents]

(* One run at a time: the file it writes is the temporary one, which is    *)
(* not the cache, empty before it writes and its own after that.           *)
OneRun == \A r, s \in P!Active : r = s
TwoNames == names.tmp # NoFile => names.tmp # names.cache

WritesTemporary ==
  \A r \in Reindexes :
    /\ thread[r] \in {"writing", "renaming"} => handle[r] = names.tmp /\ names.tmp \in Inodes
    /\ thread[r] = "writing" => content[names.tmp] = "empty"
    /\ thread[r] = "renaming" => content[names.tmp] = r

CacheWhole == names.cache # NoFile => content[names.cache] \in Reindexes

ProfileInv ==
  /\ ProfileTypes
  /\ ~overlapped => OneRun /\ TwoNames /\ WritesTemporary /\ CacheWhole

LEMMA ProfileInit == Init => ProfileInv
<1> SUFFICES ASSUME Init PROVE ProfileInv
  OBVIOUS
<1> USE DEF Init, P!Init
<1> QED
  BY DEF ProfileInv, ProfileTypes, P!Stages, P!Over, P!Contents, P!Active, OneRun, TwoNames,
         WritesTemporary, CacheWhole

(* Steps of a live run that leave the disk alone and do not make it write. *)
LEMMA ProfilePlaces ==
  ASSUME ProfileInv, NEW r \in P!Active,
         NEW stage \in {"asking", "opening", "publishing"} \cup P!Over,
         thread' = [thread EXCEPT ![r] = stage],
         UNCHANGED <<handle, names, content, overlapped>>
  PROVE  ProfileInv'
<1>1. ProfileTypes'
  BY DEF ProfileInv, ProfileTypes, P!Stages, P!Over
<1>2. P!Active' \subseteq P!Active
  BY DEF ProfileInv, ProfileTypes, P!Active, P!Over
<1>3. ASSUME ~overlapped
      PROVE  OneRun' /\ TwoNames' /\ WritesTemporary' /\ CacheWhole'
  BY <1>2, <1>3
     DEF ProfileInv, ProfileTypes, OneRun, TwoNames, WritesTemporary, CacheWhole, P!Over
<1> QED
  BY <1>1, <1>3 DEF ProfileInv

LEMMA StartReindexInv ==
  ASSUME ProfileInv, NEW r \in Reindexes, P!StartReindex(r)
  PROVE  ProfileInv'
<1> USE DEF P!StartReindex, P!Go, P!disk
<1>1. ProfileTypes'
  BY DEF ProfileInv, ProfileTypes, P!Stages
<1>2. ASSUME ~overlapped'
      PROVE  OneRun' /\ TwoNames' /\ WritesTemporary' /\ CacheWhole'
  <2>1. ~overlapped /\ P!Active = {}
    BY <1>2
  <2>2. P!Active' = {r}
    BY <2>1 DEF ProfileInv, ProfileTypes, P!Active, P!Over
  <2> QED
    BY <2>1, <2>2
       DEF ProfileInv, ProfileTypes, OneRun, TwoNames, WritesTemporary, CacheWhole
<1> QED
  BY <1>1, <1>2 DEF ProfileInv

LEMMA OpenInv ==
  ASSUME ProfileInv, NEW r \in Reindexes, P!Open(r)
  PROVE  ProfileInv'
<1>1. r \in P!Active
  BY DEF P!Open, P!Active, P!Over
<1>2. CASE P!Go(r, "publishing") /\ UNCHANGED P!disk
  BY <1>1, <1>2, ProfilePlaces DEF P!Open, P!Go, P!disk
<1>3. ASSUME NEW i \in IF names.tmp = NoFile THEN P!Free ELSE {names.tmp},
             P!Go(r, "writing"),
             names' = [names EXCEPT !.tmp = i],
             content' = [content EXCEPT ![i] = "empty"],
             handle' = [handle EXCEPT ![r] = i]
      PROVE  ProfileInv'
  <2>1. i \in Inodes /\ i # NoFile
    BY <1>3, DesktopAssumption
       DEF ProfileInv, ProfileTypes, P!Free, P!ProfileIndexAssumption
  <2>2. names'.tmp = i /\ names'.cache = names.cache
    BY <1>3 DEF ProfileInv, ProfileTypes
  <2>3. ProfileTypes'
    BY <1>3, <2>1 DEF ProfileInv, ProfileTypes, P!Go, P!Stages, P!Contents
  <2>4. P!Active' = P!Active
    BY <1>1, <1>3 DEF ProfileInv, ProfileTypes, P!Go, P!Active, P!Over
  <2>5. ASSUME ~overlapped
        PROVE  OneRun' /\ TwoNames' /\ WritesTemporary' /\ CacheWhole'
    <3>1. i # names.cache
      BY <1>3, <2>5 DEF ProfileInv, TwoNames, P!Free
    <3>2. OneRun' /\ TwoNames' /\ CacheWhole'
      BY <1>3, <2>1, <2>2, <2>4, <2>5, <3>1
         DEF ProfileInv, ProfileTypes, OneRun, TwoNames, CacheWhole
    <3>3. \A s \in Reindexes : thread[s] \in {"writing", "renaming"} => s = r
      BY <1>1, <2>5 DEF ProfileInv, OneRun, P!Active, P!Over
    <3>4. WritesTemporary'
      BY <1>3, <2>1, <2>2, <3>3 DEF ProfileInv, ProfileTypes, WritesTemporary, P!Go
    <3> QED
      BY <3>2, <3>4
  <2> QED
    BY <2>3, <2>5 DEF ProfileInv, P!Open
<1> QED
  BY <1>2, <1>3 DEF P!Open

LEMMA WriteInv ==
  ASSUME ProfileInv, NEW r \in Reindexes, P!Write(r)
  PROVE  ProfileInv'
<1> USE DEF P!Write, P!Go
<1>1. r \in P!Active
  BY DEF P!Active, P!Over
<1>2. ProfileTypes'
  BY DEF ProfileInv, ProfileTypes, P!Stages, P!Contents
<1>3. P!Active' = P!Active
  BY <1>1 DEF ProfileInv, ProfileTypes, P!Active, P!Over
<1>4. ASSUME ~overlapped
      PROVE  OneRun' /\ TwoNames' /\ WritesTemporary' /\ CacheWhole'
  <2>1. \A s \in Reindexes : thread[s] \in {"writing", "renaming"} => s = r
    BY <1>1, <1>4 DEF ProfileInv, OneRun, P!Active, P!Over
  <2>2. /\ handle[r] = names.tmp /\ names.tmp \in Inodes /\ names.tmp # NoFile
        /\ content[names.tmp] = "empty"
        /\ names.tmp # names.cache
    BY <1>4, DesktopAssumption
       DEF ProfileInv, WritesTemporary, TwoNames, P!ProfileIndexAssumption
  <2>3. OneRun' /\ TwoNames' /\ CacheWhole'
    BY <1>3, <1>4, <2>2 DEF ProfileInv, ProfileTypes, OneRun, TwoNames, CacheWhole
  <2>4. WritesTemporary'
    BY <2>1, <2>2 DEF ProfileInv, ProfileTypes, WritesTemporary
  <2> QED
    BY <2>3, <2>4
<1> QED
  BY <1>2, <1>4 DEF ProfileInv

LEMMA RenameInv ==
  ASSUME ProfileInv, NEW r \in Reindexes, P!Rename(r)
  PROVE  ProfileInv'
<1> USE DEF P!Rename, P!Go
<1>1. r \in P!Active
  BY DEF P!Active, P!Over
<1>2. ProfileTypes'
  BY DEF ProfileInv, ProfileTypes, P!Stages
<1>3. P!Active' = P!Active
  BY <1>1 DEF ProfileInv, ProfileTypes, P!Active, P!Over
<1>4. ASSUME ~overlapped
      PROVE  OneRun' /\ TwoNames' /\ WritesTemporary' /\ CacheWhole'
  <2>1. \A s \in Reindexes : thread[s] \in {"writing", "renaming"} => s = r
    BY <1>1, <1>4 DEF ProfileInv, OneRun, P!Active, P!Over
  <2>2. names.tmp \in Inodes /\ names.tmp # NoFile /\ content[names.tmp] = r
    BY <1>4, DesktopAssumption DEF ProfileInv, WritesTemporary, P!ProfileIndexAssumption
  <2>3. names' = [tmp |-> NoFile, cache |-> names.tmp] /\ UNCHANGED content
    BY <2>2
  <2> QED
    BY <1>3, <1>4, <2>1, <2>2, <2>3
       DEF ProfileInv, ProfileTypes, OneRun, TwoNames, WritesTemporary, CacheWhole
<1> QED
  BY <1>2, <1>4 DEF ProfileInv

LEMMA ProfileStep ==
  ASSUME ProfileInv, Next
  PROVE  ProfileInv'
<1>1. CASE UNCHANGED <<thread, handle, names, content, overlapped>>
  BY <1>1
     DEF ProfileInv, ProfileTypes, P!Active, OneRun, TwoNames, WritesTemporary, CacheWhole
<1>2. CASE P!Restart
  <2>1. ProfileTypes' /\ P!Active' = {}
    BY <1>2 DEF P!Restart, P!disk, ProfileInv, ProfileTypes, P!Active, P!Over
  <2>2. \A r \in Reindexes : thread'[r] \notin {"writing", "renaming"}
    BY <2>1 DEF P!Active, P!Over
  <2> QED
    BY <1>2, <2>1, <2>2
       DEF P!Restart, P!disk, ProfileInv, OneRun, TwoNames, WritesTemporary, CacheWhole
<1>3. ASSUME NEW r \in Reindexes, P!ReadFolder(r) \/ P!AskModel(r) \/ P!Publish(r)
      PROVE  ProfileInv'
  <2>1. r \in P!Active
    BY <1>3 DEF P!ReadFolder, P!AskModel, P!Publish, P!Active, P!Over
  <2> QED
    BY <1>3, <2>1, ProfilePlaces
       DEF P!ReadFolder, P!AskModel, P!Publish, P!Go, P!disk, P!Over
<1> QED
  BY <1>1, <1>2, <1>3, StartReindexInv, OpenInv, WriteInv, RenameInv
     DEF Next, profileVars, P!ProfileIndexNext, P!ClickReindex, P!disk

(* The cached summary is the whole one of some run whenever the program    *)
(* may be killed, as long as no two runs overlap (profile.rs).             *)
THEOREM DesktopCacheIsWhole == Spec => []CacheIsWhole
<1>1. ProfileInv /\ UNCHANGED vars => ProfileInv'
  BY DEF vars, profileVars, ProfileInv, ProfileTypes, P!Active, OneRun, TwoNames,
         WritesTemporary, CacheWhole
<1>2. ProfileInv => CacheIsWhole
  BY DEF ProfileInv, CacheWhole, CacheIsWhole, P!CacheIsWhole
<1> QED
  BY ProfileInit, ProfileStep, <1>1, <1>2, PTL DEF Spec

-----------------------------------------------------------------------------
(* The types.                                                              *)

IndexerTypes ==
  /\ requested \in BOOLEAN /\ overlapped \in BOOLEAN
  /\ summary \in [Reindexes -> Reindexes \cup {NoRun}]
  /\ indexer \in Reindexes \cup {NoRun}

LEMMA IndexerStep ==
  ASSUME IndexerTypes, Next
  PROVE  IndexerTypes'
<1> USE DEF IndexerTypes
<1>1. CASE UNCHANGED profileVars
  BY <1>1 DEF profileVars
<1>2. ASSUME NEW r \in Reindexes, P!StartReindex(r)
      PROVE  IndexerTypes'
  <2>1. P!Cached \in Reindexes \cup {NoRun}
    BY DEF P!Cached
  <2> QED
    BY <1>2, <2>1 DEF P!StartReindex
<1>3. ASSUME NEW r \in Reindexes,
             \/ P!ReadFolder(r) \/ P!AskModel(r) \/ P!Open(r)
             \/ P!Write(r) \/ P!Rename(r) \/ P!Publish(r)
      PROVE  IndexerTypes'
  BY <1>3 DEF P!ReadFolder, P!AskModel, P!Open, P!Write, P!Rename, P!Publish
<1>4. CASE P!ClickReindex \/ P!Restart
  BY <1>4 DEF P!ClickReindex, P!Restart
<1> QED
  BY <1>1, <1>2, <1>3, <1>4 DEF Next, P!ProfileIndexNext

TypeInv == VaultInv /\ WindowTypes /\ K!SwarmCardsTypeOK /\ ProfileInv /\ IndexerTypes

(* Every part keeps its types; in the window one tab is marked as active,  *)
(* the one the id says, and no id is given twice (app.rs, the tabs).       *)
THEOREM DesktopTyped == Spec => []TypeOK
<1>1. Init => TypeInv
  <2>1. Init => IndexerTypes
    BY DEF Init, P!Init, IndexerTypes
  <2> QED
    BY <2>1, VaultInit, WindowTypesInit, CardTypesInit, ProfileInit DEF TypeInv
<1>2. TypeInv /\ Next => TypeInv'
  BY VaultStep, WindowTypesStep, CardTypesStep, ProfileStep, IndexerStep DEF TypeInv
<1>3. ASSUME TypeInv, UNCHANGED vars PROVE TypeInv'
  <2>1. UNCHANGED vaultVars => VaultInv'
    BY <1>3 DEF TypeInv, vaultVars, VaultInv, V!VaultTypeOK
  <2>2. UNCHANGED windowVars => WindowTypes'
    BY <1>3 DEF TypeInv, windowVars, WindowTypes, TableTypes, BarTypes, WebviewTypes, LogTypes
  <2>3. UNCHANGED cardVars => K!SwarmCardsTypeOK'
    BY <1>3 DEF TypeInv, cardVars, K!SwarmCardsTypeOK
  <2>4. UNCHANGED profileVars => ProfileInv' /\ IndexerTypes'
    BY <1>3 DEF TypeInv, profileVars, ProfileInv, ProfileTypes, P!Active, OneRun, TwoNames,
                WritesTemporary, CacheWhole, IndexerTypes
  <2> QED
    BY <1>3, <2>1, <2>2, <2>3, <2>4 DEF TypeInv, vars
<1>4. TypeInv => TypeOK
  BY WindowTyped
     DEF TypeInv, TypeOK, VaultInv, ProfileInv, ProfileTypes, IndexerTypes, P!ProfileIndexTypeOK
<1> QED
  BY <1>1, <1>2, <1>3, <1>4, PTL DEF Spec
=============================================================================
