------------------------------- MODULE Tokens -------------------------------
(***************************************************************************)
(* services/token-service: platform tokens, encrypted with the key the     *)
(* process was started with, and the log of every access.  Deleting and    *)
(* storing again makes a row with a new id; the log keeps the old ones.    *)
(***************************************************************************)
EXTENDS Requests

CONSTANTS Keys   \* encryption keys, by key id

VARIABLES tokens,   \* platform_tokens by merchant (one platform)
          ids,        \* how many ids were given out: the ids are 1 .. ids
          log,        \* token_access_logs: how many of [of, type, success]
          cipher,     \* the key of the running process
          handed      \* history: how often each token was handed out

tokenVars == <<tokens, ids, log, cipher, handed>>

\* of: the merchant; as: "plain", or "expiring" for a token with expires_at.
TokenRequests == {w \in Work : w.service = "token"}
Holders == {w.of : w \in TokenRequests}
MaxIds == MaxDeliver * Cardinality({w \in TokenRequests : w.kind = "put"})
Ids == 1 .. MaxIds
Access == Ids \X {"read", "write", "delete"} \X BOOLEAN

NoToken == [id |-> 0]
TokenRows == [id : Ids, key : Keys, expiring : BOOLEAN, accesses : Nat]

TokenTypeOK == /\ tokens \in [Holders -> TokenRows \cup {NoToken}]
               /\ ids \in 0 .. MaxIds
               /\ log \in [Access -> Nat]
               /\ cipher \in Keys
               /\ handed \in [Ids -> Nat]

TokenInit == /\ tokens = [m \in Holders |-> NoToken]
             /\ ids = 0
             /\ log = [a \in Access |-> 0]
             /\ cipher \in Keys
             /\ handed = [i \in Ids |-> 0]

Logs(id, type, success) == log' = [log EXCEPT ![<<id, type, success>>] = @ + 1]

-----------------------------------------------------------------------------
\* Mutant of Stored: an update starts over.
StoredAnew(row, w, id) == [id |-> IF row = NoToken THEN id ELSE row.id, key |-> cipher,
                           expiring |-> w.as = "expiring", accesses |-> 0]

\* upsert: the update keeps the id and the counter.
Stored(row, w, id) == [id |-> IF row = NoToken THEN id ELSE row.id, key |-> cipher,
                       expiring |-> w.as = "expiring",
                       accesses |-> IF row = NoToken THEN 0 ELSE row.accesses]

StoreToken(t) ==
  /\ At(t, "put")
  /\ IF ClientAuth(open[t])
       THEN /\ tokens' = [tokens EXCEPT ![Of(t)] = Stored(@, open[t], ids + 1)]
            /\ ids' = IF tokens[Of(t)] = NoToken THEN ids + 1 ELSE ids
            /\ Goes(t, "log write", tokens'[Of(t)].id)
       ELSE Ends(t) /\ UNCHANGED <<tokens, ids>>
  /\ UNCHANGED <<log, cipher, handed>>

LogWrite(t) == /\ At(t, "log write")
               /\ Logs(mem[t], "write", TRUE)
               /\ Ends(t)
               /\ UNCHANGED <<tokens, ids, cipher, handed>>

\* find_by_merchant_platform: no row, no tokens.
FindTokens(t) ==
  /\ At(t, "get")
  /\ IF InternalAuth(open[t]) /\ tokens[Of(t)] # NoToken
       THEN Goes(t, IF tokens[Of(t)].key = cipher THEN "track" ELSE "log failure", tokens[Of(t)])
       ELSE Ends(t)
  /\ UNCHANGED tokenVars

LogFailure(t) == /\ At(t, "log failure")
                 /\ Logs(mem[t].id, "read", FALSE)
                 /\ Ends(t)
                 /\ UNCHANGED <<tokens, ids, cipher, handed>>

\* update_access, by the id that was read: nothing if that row is gone.
UpdateAccess(t) ==
  /\ At(t, "track")
  /\ tokens' = [m \in Holders |-> IF tokens[m] # NoToken /\ tokens[m].id = mem[t].id
                                  THEN [tokens[m] EXCEPT !.accesses = @ + 1]
                                  ELSE tokens[m]]
  /\ Goes(t, "log read", mem[t])
  /\ UNCHANGED <<ids, log, cipher, handed>>

LogRead(t) == /\ At(t, "log read")
              /\ Logs(mem[t].id, "read", TRUE)
              /\ Goes(t, "hand out", mem[t])
              /\ UNCHANGED <<tokens, ids, cipher, handed>>

\* Mutant of HandOut: whatever there is now.
HandOutCurrent(t) == /\ At(t, "hand out")
                     /\ Ends(t)
                     /\ handed' = [i \in Ids |-> IF i = tokens[Of(t)].id THEN handed[i] + 1 ELSE handed[i]]
                     /\ UNCHANGED <<tokens, ids, log, cipher>>

\* expires_at comes with a time zone and utcnow() without: comparing the two
\* raises, after the access was counted and logged.
HandOut(t) == /\ At(t, "hand out")
              /\ Ends(t)
              /\ handed' = IF mem[t].expiring THEN handed ELSE [handed EXCEPT ![mem[t].id] = @ + 1]
              /\ UNCHANGED <<tokens, ids, log, cipher>>

DeleteToken(t) ==
  /\ At(t, "delete")
  /\ IF ClientAuth(open[t]) /\ tokens[Of(t)] # NoToken
       THEN /\ tokens' = [tokens EXCEPT ![Of(t)] = NoToken]
            /\ Goes(t, "log delete", tokens[Of(t)].id)
       ELSE Ends(t) /\ UNCHANGED tokens
  /\ UNCHANGED <<ids, log, cipher, handed>>

LogDelete(t) == /\ At(t, "log delete")
                /\ Logs(mem[t], "delete", TRUE)
                /\ Ends(t)
                /\ UNCHANGED <<tokens, ids, cipher, handed>>

TokenStep(t) == \/ StoreToken(t) \/ LogWrite(t)
                \/ FindTokens(t) \/ LogFailure(t) \/ UpdateAccess(t) \/ LogRead(t) \/ HandOut(t)
                \/ DeleteToken(t) \/ LogDelete(t)

\* The service comes back with another key.
RotateKey == /\ \A t \in Tasks : open[t] = None
             /\ cipher' \in Keys \ {cipher}
             /\ UNCHANGED <<reqVars, tokens, ids, log, handed>>

-----------------------------------------------------------------------------
\* The audit trail covers what it is for, whatever overlaps or dies: a token
\* is handed out only for a read the log shows, and the counter of a row that
\* is still there has counted every read the log shows.
AuditTrail ==
  /\ \A i \in Ids : handed[i] <= log[<<i, "read", TRUE>>]
  /\ \A m \in Holders : tokens[m] # NoToken =>
       log[<<tokens[m].id, "read", TRUE>>] <= tokens[m].accesses
=============================================================================
