----------------------------- MODULE Connector -----------------------------
(***************************************************************************)
(* Connector.cc and TcpClient.cc as the client uses them: one TcpClient    *)
(* for the chat server and one for the file server, both on the main loop. *)
(* A connector opens a non-blocking socket, waits for it to become         *)
(* writable, and hands it to its TcpClient, which makes it the one         *)
(* connection_.  Everything here runs on the main thread, so that one      *)
(* callback or one functor of the loop is one action.                      *)
(*                                                                         *)
(* A failed attempt calls retry, which asks the loop for a timer.  The     *)
(* loop's timerQueue_ is never created (the constructor of EventLoop.cc    *)
(* does not), so the call goes through a null pointer and ends the         *)
(* process.                                                                *)
(***************************************************************************)
EXTENDS Naturals

CONSTANT Servers   \* the servers of client.cc, "ftp" and "chat"

VARIABLES
    conState,     \* Connector::state_ of each server
    channel_,     \* Connector::channel_: "null", "writing" or "disabled"
    connection_,  \* TcpClient::connection_: "null" or "up"
    started,      \* servers for which main has called connect
    running       \* the client process

conVars == <<conState, channel_, connection_, started, running>>

ConInit ==
    /\ conState = [s \in Servers |-> "kDisconnected"]
    /\ channel_ = [s \in Servers |-> "null"]
    /\ connection_ = [s \in Servers |-> "null"]
    /\ started = {}
    /\ running = TRUE

\* Both clients are up and nothing of the connecting is left.
ConRest ==
    /\ conState = [s \in Servers |-> "kConnected"]
    /\ channel_ = [s \in Servers |-> "null"]
    /\ connection_ = [s \in Servers |-> "up"]
    /\ started = Servers
    /\ running = TRUE

\* The socket is closed and a timer asked for: runAfter on a null timerQueue_.
retry(s) ==
    /\ conState' = [conState EXCEPT ![s] = "kDisconnected"]
    /\ running' = FALSE
    /\ UNCHANGED connection_

\* Mutant: the channel goes on reporting that the socket is writable.
removeAndResetChannelNot(s) == UNCHANGED channel_

\* resetChannel is queued.
removeAndResetChannel(s) == channel_' = [channel_ EXCEPT ![s] = "disabled"]

connecting(s) ==
    /\ conState' = [conState EXCEPT ![s] = "kConnecting"]
    /\ channel_' = [channel_ EXCEPT ![s] = "writing"]
    /\ UNCHANGED <<connection_, running>>

\* The errors that are neither progress nor a refusal: the socket is closed,
\* the state stays, and nobody is told.
giveUp(s) == UNCHANGED <<conState, channel_, connection_, running>>

\* main starts the file server's client first; startInLoop runs at once.
connect(s) ==
    /\ running
    /\ s \notin started
    /\ s = "chat" => "ftp" \in started
    /\ started' = started \cup {s}
    /\ \/ connecting(s)
       \/ retry(s) /\ UNCHANGED channel_
       \/ giveUp(s)

newConnection(s) == connection_' = [connection_ EXCEPT ![s] = "up"]

\* The socket is writable: connected, or an error or a connection to itself.
handleWrite(s) ==
    /\ running /\ started = Servers
    /\ channel_[s] = "writing"
    /\ removeAndResetChannel(s)
    /\ \/ /\ conState' = [conState EXCEPT ![s] = "kConnected"]
          /\ newConnection(s)
          /\ UNCHANGED running
       \/ retry(s)
    /\ UNCHANGED started

handleError(s) ==
    /\ running /\ started = Servers
    /\ channel_[s] = "writing"
    /\ removeAndResetChannel(s)
    /\ retry(s)
    /\ UNCHANGED started

resetChannel(s) ==
    /\ running
    /\ channel_[s] = "disabled"
    /\ channel_' = [channel_ EXCEPT ![s] = "null"]
    /\ UNCHANGED <<conState, connection_, started, running>>

\* The server has closed the connection.  retry_ is never set, so the client
\* stays without one.
removeConnection(s) ==
    /\ running
    /\ connection_[s] = "up"
    /\ connection_' = [connection_ EXCEPT ![s] = "null"]
    /\ UNCHANGED <<conState, channel_, started, running>>

ConNext ==
    \E s \in Servers :
        \/ connect(s) \/ handleWrite(s) \/ handleError(s)
        \/ resetChannel(s) \/ removeConnection(s)

============================================================================
