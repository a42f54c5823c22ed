------------------------------ MODULE Desktop ------------------------------
(***************************************************************************)
(* What a browser on a desktop keeps: the vault, the window with its tabs  *)
(* and downloads, the board of its swarms, and the document profile.  They *)
(* share no state, so each is explored on its own, against every input the *)
(* others could give it; part says which one moves.                        *)
(***************************************************************************)
EXTENDS Naturals, Sequences

CONSTANTS
  Instances, Nobody, Keys, SlotOf, Tokens, NoToken, MaxStores,
  Urls, Home, NoUrl, MaxTabs, MaxDownloads, MaxOpened, MaxReports,
  Swarms, NoSwarm, Roles, Plans, Verdicts, MaxUpdates,
  Reindexes, NoRun, Inodes, NoFile,
  Parts  \* what to explore

VARIABLES
  part,
  keyring, place, salts, raced, rows, last, stores, token, owner, asked, value, busy, audited,
  disclosed,
  tabs, activeTab, nextTab, addressBar, edited, refused, cef, page, going, phase,
  overtaken, reports, downloads, transfers,
  plan, reported, ended, overlap, updates, shown, cards, answer,
  requested, thread, handle, names, content, summary, indexer, overlapped

vaultVars == <<keyring, place, salts, raced, rows, last, stores, token, owner, asked,
               value, busy, audited, disclosed>>
windowVars == <<tabs, activeTab, nextTab, addressBar, edited, refused, cef, page, going, phase,
                overtaken, reports, downloads, transfers>>
cardVars == <<plan, reported, ended, overlap, updates, shown, cards, answer>>
profileVars == <<requested, thread, handle, names, content, summary, indexer, overlapped>>
vars == <<part, vaultVars, windowVars, cardVars, profileVars>>

V == INSTANCE Vault
W == INSTANCE Window
K == INSTANCE SwarmCards
P == INSTANCE ProfileIndex

ASSUME DesktopAssumption ==
  /\ V!VaultAssumption /\ W!WindowAssumption
  /\ K!SwarmCardsAssumption /\ P!ProfileIndexAssumption

Init == part \in Parts /\ V!Init /\ W!Init /\ K!Init /\ P!Init

Next ==
  /\ UNCHANGED part
  /\ \/ part = "vault" /\ V!VaultNext /\ UNCHANGED <<windowVars, cardVars, profileVars>>
     \/ part = "window" /\ W!WindowNext /\ UNCHANGED <<vaultVars, cardVars, profileVars>>
     \/ part = "cards" /\ K!SwarmCardsNext /\ UNCHANGED <<vaultVars, windowVars, profileVars>>
     \/ part = "profile" /\ P!ProfileIndexNext /\ UNCHANGED <<vaultVars, windowVars, cardVars>>

Spec == Init /\ [][Next]_vars

(* ------------------------------ properties ----------------------------- *)

(* Every part keeps its types.                                             *)
TypeOK == V!VaultTypeOK /\ W!WindowTypeOK /\ K!SwarmCardsTypeOK /\ P!ProfileIndexTypeOK

(* No value leaves the vault without an entry in the audit table.          *)
DisclosureAudited == V!DisclosureAudited

(* Every instance can read what any of them stored, unless two opened at   *)
(* once.                                                                   *)
RowsReadable == V!RowsReadable

(* A handle is bound to a value of the slot it was asked for that was not  *)
(* replaced under its key.                                                 *)
BindsItsSlot == V!BindsItsSlot

(* The handles of the vault implement one-time tickets.                    *)
HandlesAreTickets == V!HandlesAreTickets

(* What the window says of its pages and downloads is so once the WebView  *)
(* has nothing under way and did not refuse the load asked for last, and   *)
(* what the board says of workers whose roles tell them apart is so.       *)
ShownIsTrue == W!WindowTellsTheTruth /\ K!CardsTellTheTruth

(* The cached profile is whole, unless two runs wrote it at once.          *)
CacheIsWhole == P!CacheIsWhole
=============================================================================
