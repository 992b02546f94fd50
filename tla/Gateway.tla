------------------------------- MODULE Gateway -------------------------------
(***************************************************************************)
(* GatewayServer: the clients of the manager, what they subscribe to, and  *)
(* the broadcasts to them.                                                 *)
(*                                                                         *)
(* Every broadcast is a task of the event loop.  It copies the clients     *)
(* when it first runs, sends to one after the other and may be suspended   *)
(* in each send, while connections open, close and change their            *)
(* subscriptions.  A send writes the message first and waits for a slow    *)
(* peer afterwards.  A task that waits goes on when its peer reads, or     *)
(* when the keepalive gives the peer up, in an order that is left open.    *)
(* Client ids count upwards, so a set of them in ascending order is the    *)
(* dict in the order of insertion.                                         *)
(***************************************************************************)
EXTENDS Integers, Sequences, FiniteSets, FiniteSetsExt

CONSTANTS
    Symbols,
    Supported,    \* settings.symbols
    MaxClients,   \* bound: connections in all
    Limits,       \* bounds that go together: clients, brokers, signals, ...
    NoSymbol,     \* a broadcast without a symbol filter
    NoClient

Clients == 1..MaxClients

ASSUME GatewayAssumption ==
    /\ MaxClients \in Nat /\ Supported \subseteq Symbols
    /\ NoSymbol \notin Symbols /\ NoClient \notin Clients

VARIABLES
    counter,            \* _counter: client ids given
    registered,         \* _clients
    open,               \* the connections that are open
    symbols,            \* client.symbols
    tasks,              \* the broadcasts, in the order of their creation
    inbox,              \* what was written to each client: broadcasts by number
    signals_delivered,  \* _signals_delivered
    limit,              \* the bounds of this behaviour
    phase               \* of the manager: up, closing, stopped

gatewayVars ==
    <<counter, registered, open, symbols, tasks, inbox, signals_delivered,
      limit, phase>>

clientVars == <<counter, registered, open, symbols, limit>>

Broadcast(payload, symbol) ==
    [payload |-> payload, symbol |-> symbol, stage |-> "new",
     todo |-> {}, at |-> NoClient, dead |-> {}]

GatewayInit ==
    /\ counter = 0 /\ registered = {} /\ open = {}
    /\ symbols = [c \in Clients |-> {}]
    /\ tasks = <<>>
    /\ inbox = [c \in Clients |-> {}]
    /\ signals_delivered = 0
    /\ limit \in Limits
    /\ phase = "up"

-----------------------------------------------------------------------------
(***************************************************************************)
(* Connections                                                             *)
(***************************************************************************)

\* _handle up to its message loop.
Connect ==
    /\ phase = "up" /\ counter < limit.clients
    /\ counter' = counter + 1
    /\ registered' = registered \cup {counter'}
    /\ open' = open \cup {counter'}
    /\ UNCHANGED <<symbols, tasks, inbox, signals_delivered, limit, phase>>

\* _on_message: the client names symbols to add.
Subscribe(c, named) ==
    /\ c \in registered \cap open
    /\ symbols' = [symbols EXCEPT ![c] = @ \cup (named \cap Supported)]
    /\ UNCHANGED <<counter, registered, open, tasks, inbox, signals_delivered, limit, phase>>

Unsubscribe(c, named) ==
    /\ c \in registered \cap open
    /\ symbols' = [symbols EXCEPT ![c] = @ \ named]
    /\ UNCHANGED <<counter, registered, open, tasks, inbox, signals_delivered, limit, phase>>

\* The peer closes or is lost; at a shutdown the server closes.
Disconnect(c) ==
    /\ c \in open
    /\ open' = open \ {c}
    /\ UNCHANGED <<counter, registered, symbols, tasks, inbox, signals_delivered, limit, phase>>

\* Mutant: the end of a connection leaves the client on the list.
HandlerEndsKeeps(c) ==
    /\ c \in registered \ open
    /\ UNCHANGED gatewayVars

\* _handle after its message loop: the connection is gone.
HandlerEnds(c) ==
    /\ c \in registered \ open
    /\ registered' = registered \ {c}
    /\ UNCHANGED <<counter, open, symbols, tasks, inbox, signals_delivered, limit, phase>>

\* A message the handler cannot take ends it, and the connection with it.
HandlerFails(c) ==
    /\ c \in registered \cap open
    /\ registered' = registered \ {c}
    /\ open' = open \ {c}
    /\ UNCHANGED <<counter, symbols, tasks, inbox, signals_delivered, limit, phase>>

-----------------------------------------------------------------------------
(***************************************************************************)
(* Broadcasts                                                              *)
(***************************************************************************)

\* The clients a task still has to come to; it copies them when it starts.
Copy(t) == IF t.stage = "new" THEN registered ELSE t.todo

\* The client whose connection was lost while the task waited for it.
Lost(t) == {t.at} \ (open \cup {NoClient})

\* Mutant: a failed send ends the task, not only its turn.
TargetsUntilFailure(t) ==
    {c \in Copy(t) : Lost(t) = {} /\ (t.symbol = NoSymbol \/ t.symbol \in symbols[c])}

\* Those it sends to: they have subscribed to the symbol, or it has none.
Targets(t) == {c \in Copy(t) : t.symbol = NoSymbol \/ t.symbol \in symbols[c]}

\* Mutant: a client that does not want the message counts as dead.
DeadOrUninterested(t) == t.dead \cup Lost(t) \cup (Copy(t) \ (Targets(t) \cap open))

\* Those whose send has failed, as far as the given client; all, if none.
Dead(t) == t.dead \cup Lost(t) \cup (Targets(t) \ open)

(***************************************************************************)
(* _broadcast_async and _broadcast_event_async, from one suspension to the *)
(* next: the send the task waited in ends, it passes over the clients that *)
(* have not subscribed and those whose connection is closed, and writes to *)
(* the next.  When there is none it removes the dead and is done.  Tasks   *)
(* start in the order of their creation.                                   *)
(***************************************************************************)
Run(i) ==
    LET t == tasks[i]
        live == Targets(t) \cap open
        c == Min(live)
    IN  /\ t.stage # "done"
        /\ t.stage = "new" => \A j \in 1..(i - 1) : tasks[j].stage # "new"
        /\ signals_delivered' =
             IF t.at # NoClient /\ Lost(t) = {} /\ t.symbol # NoSymbol
             THEN signals_delivered + 1 ELSE signals_delivered
        /\ IF live = {}
           THEN /\ registered' = registered \ Dead(t)
                /\ tasks' = [tasks EXCEPT ![i] =
                      [t EXCEPT !.stage = "done", !.todo = {}, !.at = NoClient, !.dead = {}]]
                /\ UNCHANGED inbox
           ELSE /\ tasks' = [tasks EXCEPT ![i] =
                      [t EXCEPT !.stage = "sending", !.at = c,
                                !.todo = {d \in Copy(t) : d > c},
                                !.dead = {d \in Dead(t) : d < c}]]
                /\ inbox' = [inbox EXCEPT ![c] = @ \cup {i}]
                /\ UNCHANGED registered
        /\ UNCHANGED <<counter, open, symbols, limit, phase>>

-----------------------------------------------------------------------------
(***************************************************************************)
(* Shutdown: stop closes the server and every connection; when the last    *)
(* handler has ended, run returns and the loop cancels what is left.       *)
(***************************************************************************)
ServerClosed ==
    /\ phase = "closing" /\ registered = {} /\ open = {}
    /\ phase' = "stopped"
    /\ tasks' = [i \in DOMAIN tasks |->
                    [tasks[i] EXCEPT !.stage = "done", !.todo = {},
                                     !.at = NoClient, !.dead = {}]]
    /\ UNCHANGED <<counter, registered, open, symbols, inbox, signals_delivered, limit>>
==============================================================================
