-------------------------- MODULE PayPalConnections --------------------------
(***************************************************************************)
(* A creator's PayPal connections: the secret in a vault, the webhook at    *)
(* PayPal and the record that ties them are changed in turn, under a lock   *)
(* of the creator that a stalled process loses; every save compares the     *)
(* record's revision and the lock (packages/integrations/src/               *)
(* paypal-connections.ts, adapters/local/src/commerce.ts).                  *)
(***************************************************************************)
EXTENDS Naturals, FiniteSets

CONSTANTS Connections,  \* numbers, one for each app of the creator
          Callers,      \* processes that change them
          NoOne,
          Orders,       \* checkouts
          MaxCommands,  \* connects, disconnects and payments verified
          MaxLapses,    \* locks that run out
          MaxFaults     \* crashes and failures of PayPal

VARIABLES connections, \* the records
          vault,       \* references whose secret can be read
          hooks,       \* PayPal: the webhook of a connection, or 0
          issued,      \* references and webhooks made so far
          lock,
          calls,       \* caller -> what it does, with its copy of the record
          orders,      \* order -> 0, or the connection it is open on
          settled,     \* orders confirmed or failed
          commands, lapses, faults

payPalVars == <<connections, vault, hooks, issued, lock, calls, orders, settled, commands, lapses, faults>>

None == 0
NoConnection == [revision |-> 0, state |-> "none", accepts |-> FALSE, credential |-> None, pending |-> None,
                 retired |-> {}, webhook |-> None, paid |-> FALSE, draining |-> FALSE]
NoCall == [pc |-> "idle", id |-> None, c |-> NoConnection, secret |-> None]

PayPalInit ==
  /\ connections = [i \in Connections |-> NoConnection] /\ vault = {} /\ hooks = [i \in Connections |-> None]
  /\ issued = 0 /\ lock = NoOne /\ calls = [h \in Callers |-> NoCall]
  /\ orders = [o \in Orders |-> None] /\ settled = {} /\ commands = 0 /\ lapses = 0 /\ faults = 0

OpenOrders(i) == {o \in Orders \ settled : orders[o] = i}
Referenced == UNION {{c.credential, c.pending} \cup c.retired : c \in {connections[i] : i \in Connections}}

-----------------------------------------------------------------------------
(* The lock, and a save under it.                                           *)

Starts(h, i, pc) ==
  /\ calls[h] = NoCall /\ lock = NoOne /\ lock' = h /\ commands < MaxCommands /\ commands' = commands + 1
  /\ calls' = [calls EXCEPT ![h] = [NoCall EXCEPT !.pc = pc, !.id = i, !.c = connections[i]]]
Ends(h) == calls' = [calls EXCEPT ![h] = NoCall] /\ lock' = IF lock = h THEN NoOne ELSE lock
Goes(h, pc) == calls' = [calls EXCEPT ![h].pc = pc] /\ UNCHANGED lock
Fence_Revision(h) == TRUE
Fence(h) == lock = h
Fits(h) == Fence(h) /\ connections[calls[h].id].revision = calls[h].c.revision
Kept(c) == [c EXCEPT !.revision = @ + 1]
\* A save that fits, after which the caller goes on with what it saved.
Saves(h, c, pc) ==
  /\ connections' = [connections EXCEPT ![calls[h].id] = Kept(c)]
  /\ calls' = [calls EXCEPT ![h].c = Kept(c), ![h].pc = pc] /\ UNCHANGED lock
LoseLock ==
  /\ lock # NoOne /\ lapses < MaxLapses /\ lapses' = lapses + 1 /\ lock' = NoOne
  /\ UNCHANGED <<connections, vault, hooks, issued, calls, orders, settled, commands, faults>>
Fault == faults < MaxFaults /\ faults' = faults + 1
Crash(h) ==
  /\ calls[h] # NoCall /\ Fault /\ calls' = [calls EXCEPT ![h] = NoCall]
  /\ UNCHANGED <<connections, vault, hooks, issued, lock, orders, settled, commands, lapses>>

-----------------------------------------------------------------------------
(* connect.                                                                 *)

\* A new app starts beside the others, or archives the one it replaces.
Archived(j) == [connections EXCEPT ![j] = Kept([@ EXCEPT !.draining = TRUE, !.accepts = FALSE])]
Connect(h, i) ==
  /\ ~connections[i].draining /\ Starts(h, i, "connecting")
  /\ \/ UNCHANGED connections
     \/ /\ connections[i].revision = 0
        /\ \E j \in Connections \ {i} : connections[j].revision > 0 /\ ~connections[j].draining /\ connections' = Archived(j)
  /\ UNCHANGED <<vault, hooks, issued, orders, settled, lapses, faults>>
WriteSecret(h) ==
  /\ calls[h].pc = "connecting" /\ issued' = issued + 1 /\ vault' = vault \cup {issued'}
  /\ calls' = [calls EXCEPT ![h].pc = "written", ![h].secret = issued'] /\ UNCHANGED lock
  /\ UNCHANGED <<connections, hooks, orders, settled, commands, lapses, faults>>
Started(h) ==
  [calls[h].c EXCEPT !.retired = @ \cup ({calls[h].c.pending} \ {None}), !.pending = calls[h].secret,
                     !.state = "validating", !.accepts = FALSE]
SaveStarted(h) ==
  /\ calls[h].pc = "written"
  /\ IF Fits(h) THEN Saves(h, Started(h), "started") /\ UNCHANGED vault
     ELSE Ends(h) /\ vault' = vault \ {calls[h].secret} /\ UNCHANGED connections
  /\ UNCHANGED <<hooks, issued, orders, settled, commands, lapses, faults>>
\* The webhook is found by its address, or made: the answer may be lost, or PayPal refuse.
Register(h) ==
  LET i == calls[h].id
  IN /\ calls[h].pc = "started"
     /\ \/ /\ hooks[i] = None /\ issued' = issued + 1 /\ hooks' = [hooks EXCEPT ![i] = issued']
           /\ \/ calls' = [calls EXCEPT ![h].pc = "registered", ![h].c.webhook = issued'] /\ UNCHANGED faults
              \/ Fault /\ calls' = [calls EXCEPT ![h].pc = "failed"]
        \/ /\ hooks[i] # None /\ calls' = [calls EXCEPT ![h].pc = "registered", ![h].c.webhook = hooks[i]]
           /\ UNCHANGED <<hooks, issued, faults>>
        \/ Fault /\ calls' = [calls EXCEPT ![h].pc = "failed"] /\ UNCHANGED <<hooks, issued>>
     /\ UNCHANGED <<connections, vault, lock, orders, settled, commands, lapses>>
Configured(h) ==
  [calls[h].c EXCEPT !.retired = @ \cup ({calls[h].c.credential} \ {None}), !.credential = calls[h].secret, !.pending = None,
                     !.state = IF calls[h].c.paid THEN "verified" ELSE "configured", !.accepts = TRUE]
SaveConfigured(h) ==
  /\ calls[h].pc = "registered"
  /\ IF Fits(h) THEN Saves(h, Configured(h), "cleaning") ELSE Goes(h, "failed") /\ UNCHANGED connections
  /\ UNCHANGED <<vault, hooks, issued, orders, settled, commands, lapses, faults>>
\* The failure is noted in what is stored by then, not in the caller's copy.
Stored(h) == connections[calls[h].id]
ConnectFailed(h) ==
  /\ calls[h].pc = "failed" /\ Ends(h)
  /\ IF Fence(h) THEN connections' = [connections EXCEPT ![calls[h].id] =
                        Kept([Stored(h) EXCEPT !.state = "action_required", !.accepts = FALSE])]
     ELSE UNCHANGED connections
  /\ UNCHANGED <<vault, hooks, issued, orders, settled, commands, lapses, faults>>

-----------------------------------------------------------------------------
(* disconnect, and the worker that ends a drained connection.               *)

Disconnect(h, i) ==
  /\ connections[i].revision > 0 /\ connections[i].state # "disconnected" /\ Starts(h, i, "counting")
  /\ UNCHANGED <<connections, vault, hooks, issued, orders, settled, lapses, faults>>
Stopped_Accepting(h) == [calls[h].c EXCEPT !.state = "action_required"]
Stopped(h) == [calls[h].c EXCEPT !.accepts = FALSE, !.state = "action_required"]
CountUnconfirmedOrders(h) ==
  LET i == calls[h].id
  IN /\ calls[h].pc = "counting"
     /\ IF OpenOrders(i) = {} /\ Fence(h) THEN Goes(h, "counted") ELSE Ends(h)
     /\ UNCHANGED <<connections, vault, hooks, issued, orders, settled, commands, lapses, faults>>
SaveStopped(h) ==
  /\ calls[h].pc = "counted"
  /\ IF Fits(h) THEN Saves(h, Stopped(h), "stopped") ELSE Ends(h) /\ UNCHANGED connections
  /\ UNCHANGED <<vault, hooks, issued, orders, settled, commands, lapses, faults>>
\* Without a readable secret, or when PayPal fails, the command ends and may be repeated.
Secret(h) == IF calls[h].c.credential = None THEN calls[h].c.pending ELSE calls[h].c.credential
RemoveWebhook(h) ==
  /\ calls[h].pc = "stopped"
  /\ \/ /\ Secret(h) \in vault \cup {None} /\ Goes(h, "removed") /\ UNCHANGED faults
        /\ hooks' = IF Secret(h) = None THEN hooks ELSE [hooks EXCEPT ![calls[h].id] = None]
     \/ Secret(h) \notin vault \cup {None} /\ Ends(h) /\ UNCHANGED <<hooks, faults>>
     \/ Fault /\ Ends(h) /\ UNCHANGED hooks
  /\ UNCHANGED <<connections, vault, issued, orders, settled, commands, lapses>>
Disconnected(h) ==
  [calls[h].c EXCEPT !.retired = @ \cup ({calls[h].c.credential, calls[h].c.pending} \ {None}),
                     !.credential = None, !.pending = None, !.webhook = None, !.state = "disconnected"]
SaveDisconnected(h) ==
  /\ calls[h].pc = "removed"
  /\ IF Fits(h) THEN Saves(h, Disconnected(h), "cleaning") ELSE Ends(h) /\ UNCHANGED connections
  /\ UNCHANGED <<vault, hooks, issued, orders, settled, commands, lapses, faults>>

-----------------------------------------------------------------------------
(* Retired secrets are revoked, then forgotten.                             *)

RetryCleanup(h, i) ==
  /\ connections[i].retired # {} /\ Starts(h, i, "cleaning")
  /\ UNCHANGED <<connections, vault, hooks, issued, orders, settled, lapses, faults>>
Retires_Early(h) == calls[h].c.retired \cup {calls[h].c.credential}
Retires(h) == calls[h].c.retired
Cleanup(h) ==
  /\ calls[h].pc = "cleaning"
  /\ IF calls[h].c.retired = {} THEN Ends(h) /\ UNCHANGED vault
     ELSE \E reference \in Retires(h) :
            vault' = vault \ {reference} /\ calls' = [calls EXCEPT ![h].pc = "revoked", ![h].secret = reference] /\ UNCHANGED lock
  /\ UNCHANGED <<connections, hooks, issued, orders, settled, commands, lapses, faults>>
SaveCleanup(h) ==
  /\ calls[h].pc = "revoked"
  /\ IF Fits(h) THEN Saves(h, [calls[h].c EXCEPT !.retired = @ \ {calls[h].secret}], "cleaning")
     ELSE Ends(h) /\ UNCHANGED connections
  /\ UNCHANGED <<vault, hooks, issued, orders, settled, commands, lapses, faults>>
\* The vault's sweep of what is an hour old and referenced by no record: nothing of a
\* caller that still holds its lock.
PruneCredentials ==
  LET old == (vault \ Referenced) \ {calls[h].secret : h \in {h \in Callers : lock = h}}
  IN /\ old # {} /\ vault' = vault \ old
     /\ UNCHANGED <<connections, hooks, issued, lock, calls, orders, settled, commands, lapses, faults>>

-----------------------------------------------------------------------------
(* Payments: a checkout, its end, and the first payment verified.           *)

MarkVerified(h, i) ==
  /\ connections[i].revision > 0 /\ Starts(h, i, "verifying")
  /\ UNCHANGED <<connections, vault, hooks, issued, orders, settled, lapses, faults>>
SaveVerified(h) ==
  LET c == calls[h].c
  IN /\ calls[h].pc = "verifying" /\ Ends(h)
     /\ IF Fits(h) /\ c.state # "disconnected"
        THEN connections' = [connections EXCEPT ![calls[h].id] =
               Kept([c EXCEPT !.state = IF c.state = "action_required" THEN @ ELSE "verified", !.paid = TRUE])]
        ELSE UNCHANGED connections
     /\ UNCHANGED <<vault, hooks, issued, orders, settled, commands, lapses, faults>>
Offers(i) == connections[i].accepts /\ ~connections[i].draining /\ connections[i].state \in {"configured", "verified"}
Checkout(h, i) ==
  /\ Offers(i) /\ \E o \in Orders : orders[o] = None
  /\ Starts(h, i, "ordering")
  /\ UNCHANGED <<connections, vault, hooks, issued, orders, settled, lapses, faults>>
Inserts_Anyway(h) == TRUE
Inserts(h) == Fence(h)
InsertOrder(h) ==
  /\ calls[h].pc = "ordering" /\ Ends(h)
  /\ IF Inserts(h) THEN \E o \in Orders : orders[o] = None /\ orders' = [orders EXCEPT ![o] = calls[h].id] ELSE UNCHANGED orders
  /\ UNCHANGED <<connections, vault, hooks, issued, settled, commands, lapses, faults>>
SettleOrder(o) ==
  /\ orders[o] # None /\ o \notin settled /\ settled' = settled \cup {o}
  /\ UNCHANGED <<connections, vault, hooks, issued, lock, calls, orders, commands, lapses, faults>>

PayPalNext ==
  \/ \E h \in Callers :
       \/ \E i \in Connections : Connect(h, i) \/ Disconnect(h, i) \/ RetryCleanup(h, i) \/ MarkVerified(h, i) \/ Checkout(h, i)
       \/ WriteSecret(h) \/ SaveStarted(h) \/ Register(h) \/ SaveConfigured(h) \/ ConnectFailed(h)
       \/ CountUnconfirmedOrders(h) \/ SaveStopped(h) \/ RemoveWebhook(h) \/ SaveDisconnected(h)
       \/ Cleanup(h) \/ SaveCleanup(h) \/ SaveVerified(h) \/ InsertOrder(h) \/ Crash(h)
  \/ \E o \in Orders : SettleOrder(o)
  \/ PruneCredentials \/ LoseLock
PayPalSpec == PayPalInit /\ [][PayPalNext]_payPalVars

-----------------------------------------------------------------------------
PayPalTypeOK ==
  /\ vault \subseteq 1..issued /\ lock \in Callers \cup {NoOne} /\ settled \subseteq Orders
  /\ \A i \in Connections :
       /\ connections[i].state \in {"none", "validating", "configured", "verified", "action_required", "disconnected"}
       /\ hooks[i] \in 0..issued /\ connections[i].retired \subseteq 1..issued

\* The secret a connection works with can be read, whatever command failed, crashed or lost
\* the lock on the way to replace it (connect, cleanup).
CredentialReadable ==
  \A i \in Connections : {connections[i].credential, connections[i].pending} \subseteq vault \cup {None}

\* A connection that accepts checkouts is told of payments: PayPal has its webhook.  Only a
\* command that stalls past its lock can still change the webhook afterwards.
AcceptsWithWebhook ==
  \A i \in Connections : connections[i].accepts =>
    /\ connections[i].credential # None /\ ~connections[i].draining
    /\ lapses = 0 => connections[i].webhook = hooks[i] /\ hooks[i] # None

\* A connection is disconnected with every order on it confirmed: none is opened on it while
\* it is being disconnected (checkout, countUnconfirmedOrders, withLock).
DisconnectedIsSettled ==
  \A i \in Connections : connections[i].state = "disconnected" => OpenOrders(i) = {} /\ ~connections[i].accepts
===============================================================================
