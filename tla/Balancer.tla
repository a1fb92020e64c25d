------------------------------ MODULE Balancer ------------------------------
(***************************************************************************)
(* One connection through the balancer of balancerd/src/lib.rs, accepted  *)
(* on one of the two listeners BalancerService::serve starts: on pgwire,  *)
(* PgwireBalancer::handle_connection's startup loop, run, the resolver and *)
(* stream, which relays bytes to environmentd; on HTTP, the HttpBalancer. *)
(*                                                                         *)
(* Connections are served by independent tasks that share only the        *)
(* immutable resolver and TLS configuration, so one connection is the     *)
(* whole state.  The client and environmentd are the environment: the     *)
(* client may send any startup message in any order, hang up, or answer    *)
(* the password request with anything.  Messages are abstracted to their   *)
(* kind; what the balancer writes to the client is kept in `toClient`.     *)
(***************************************************************************)
EXTENDS Naturals, Sequences

CONSTANT MaxMessages    \* bound on the startup messages the client sends

VARIABLES
    port,       \* the listener that accepted the connection: "pgwire" or "http"
    tls,        \* PgwireBalancer.tls: "none", or the mode of its TlsConfig
    resolver,   \* PgwireBalancer.resolver: "Static" or "Frontegg"
    enc,        \* the connection: "plain" (Conn::Unencrypted) or "tls" (Conn::Ssl)
    phase,      \* "startup", "password", "connect", "relay" or "closed"
    password,   \* ResolvedAddr.password: whether the resolver returned one
    toClient,   \* what the balancer wrote to the client, in order
    toEnvd,     \* what stream wrote to environmentd before relaying
    sent        \* startup messages the client has sent

vars == <<port, tls, resolver, enc, phase, password, toClient, toEnvd, sent>>

\* A message to the client, tagged with the stream it travelled on; an
\* ErrorResponse::fatal carries its SQLSTATE.
Msg(kind) == [kind |-> kind, code |-> "none", enc |-> enc]
Fatal(code) == [kind |-> "ErrorResponse", code |-> code, enc |-> enc]

(* Conn::ensure_tls_compatibility (mz_pgwire_common, outside this tree):   *)
(* with TLS required, an unencrypted connection is refused.                *)
TlsIncompatible == tls = "Require" /\ enc = "plain"

(* The checks at the top of run (lib.rs:244-265), in order: the first      *)
(* that fails names the fatal error run sends before returning.            *)
StartupRejection_no_tls_check(version3, hasUser) ==
    CASE ~version3 -> "SQLSERVER_REJECTED_ESTABLISHMENT_OF_SQLCONNECTION"
      [] ~hasUser  -> "SQLSERVER_REJECTED_ESTABLISHMENT_OF_SQLCONNECTION"
      [] OTHER     -> "none"
StartupRejection(version3, hasUser) ==
    CASE ~version3       -> "SQLSERVER_REJECTED_ESTABLISHMENT_OF_SQLCONNECTION"
      [] ~hasUser        -> "SQLSERVER_REJECTED_ESTABLISHMENT_OF_SQLCONNECTION"
      [] TlsIncompatible -> "INVALID_AUTHORIZATION_SPECIFICATION"
      [] OTHER           -> "none"

(* stream's first write to environmentd: the startup message, then the     *)
(* password if the resolver returned one (lib.rs:303-313).                 *)
EnvdPreamble_always_password(pw) == <<"Startup", "Password">>
EnvdPreamble(pw) == IF pw THEN <<"Startup", "Password">> ELSE <<"Startup">>

Sent(kind) == {i \in DOMAIN toClient : toClient[i].kind = kind}

ClientSends == /\ sent < MaxMessages
               /\ sent' = sent + 1

Close(msgs) == /\ toClient' = toClient \o msgs
               /\ phase' = "closed"

(* BalancerService::serve: the pgwire TLS configuration is None without   *)
(* a certificate and TlsMode::Require with one; both servers share the    *)
(* one resolver of the BalancerConfig.                                     *)
Init ==
    /\ port \in {"pgwire", "http"}
    /\ tls \in {"none", "Require"}
    /\ resolver \in {"Static", "Frontegg"}
    /\ enc = "plain"
    /\ phase = "startup"
    /\ password = FALSE
    /\ toClient = <<>>
    /\ toEnvd = <<>>
    /\ sent = 0

-----------------------------------------------------------------------------
(* decode_startup returns None (the client hung up, a graceful end) or a   *)
(* CancelRequest, which the balancer ignores: the connection ends.         *)
HangUpOrCancel ==
    /\ port = "pgwire"
    /\ phase = "startup"
    /\ ClientSends
    /\ Close(<<>>)
    /\ UNCHANGED <<port, tls, resolver, enc, password, toEnvd>>

(* SslRequest: on an unencrypted connection with TLS configured the       *)
(* balancer accepts ('S') and the handshake follows; a failed handshake   *)
(* ends the connection.  Otherwise it rejects ('N') and loops.            *)
SslRequest ==
    /\ port = "pgwire"
    /\ phase = "startup"
    /\ ClientSends
    /\ IF enc = "plain" /\ tls /= "none"
       THEN /\ toClient' = Append(toClient, Msg("AcceptSsl"))
            /\ \/ enc' = "tls" /\ UNCHANGED phase
               \/ phase' = "closed" /\ UNCHANGED enc
       ELSE /\ toClient' = Append(toClient, Msg("RejectEncryption"))
            /\ UNCHANGED <<enc, phase>>
    /\ UNCHANGED <<port, tls, resolver, password, toEnvd>>

(* GssEncRequest is always rejected ('N') and the loop goes on.            *)
GssEncRequest ==
    /\ port = "pgwire"
    /\ phase = "startup"
    /\ ClientSends
    /\ toClient' = Append(toClient, Msg("RejectEncryption"))
    /\ UNCHANGED <<port, tls, resolver, enc, phase, password, toEnvd>>

(* Startup: run's checks, then Resolver::resolve.  The static resolver    *)
(* returns its address with no password; the Frontegg resolver sends      *)
(* AuthenticationCleartextPassword and awaits the answer (lib.rs:425-431). *)
Startup ==
    /\ port = "pgwire"
    /\ phase = "startup"
    /\ ClientSends
    /\ \E version3, hasUser \in BOOLEAN :
         LET rejection == StartupRejection(version3, hasUser) IN
         IF rejection /= "none"
         THEN Close(<<Fatal(rejection)>>)
         ELSE IF resolver = "Frontegg"
         THEN /\ toClient' = Append(toClient, Msg("AuthenticationCleartextPassword"))
              /\ phase' = "password"
         ELSE /\ phase' = "connect"
              /\ UNCHANGED toClient
    /\ UNCHANGED <<port, tls, resolver, enc, password, toEnvd>>

(* The rest of the Frontegg resolver: anything but a Password message, a   *)
(* rejected token, or a failed DNS lookup of the tenant's address is an   *)
(* error that run reports as INVALID_PASSWORD (lib.rs:267-275); otherwise *)
(* the address comes with the password.                                    *)
Resolve ==
    /\ phase = "password"
    /\ ClientSends
    /\ \/ Close(<<Fatal("INVALID_PASSWORD")>>) /\ UNCHANGED password
       \/ phase' = "connect" /\ password' = TRUE /\ UNCHANGED toClient
    /\ UNCHANGED <<port, tls, resolver, enc, toEnvd>>

(* stream connects to environmentd and writes the preamble; a failed      *)
(* connect or write is reported by run as INVALID_PASSWORD.                *)
Connect ==
    /\ phase = "connect"
    /\ \/ Close(<<Fatal("INVALID_PASSWORD")>>) /\ UNCHANGED toEnvd
       \/ toEnvd' = EnvdPreamble(password) /\ phase' = "relay" /\ UNCHANGED toClient
    /\ UNCHANGED <<port, tls, resolver, enc, password, sent>>

(* copy_bidirectional: bytes from environmentd reach the client.  The     *)
(* relayed session is one chunk: what it says is environmentd's business. *)
Relay ==
    /\ phase = "relay"
    /\ Sent("Relayed") = {}
    /\ toClient' = Append(toClient, Msg("Relayed"))
    /\ UNCHANGED <<port, tls, resolver, enc, phase, password, toEnvd, sent>>

(* The relay ends: both sides closed (Ok), or an I/O error on either side, *)
(* which run reports to the client as a fatal INVALID_PASSWORD            *)
(* (lib.rs:276-283), whether or not bytes have been relayed already.      *)
RelayEnds ==
    /\ phase = "relay"
    /\ \/ Close(<<>>)
       \/ Close(<<Fatal("INVALID_PASSWORD")>>)
    /\ UNCHANGED <<port, tls, resolver, enc, password, toEnvd, sent>>

(* HttpBalancer::handle_connection returns at once: the connection is      *)
(* dropped without a byte read or written.                                 *)
HttpConnection ==
    /\ port = "http"
    /\ phase = "startup"
    /\ Close(<<>>)
    /\ UNCHANGED <<port, tls, resolver, enc, password, toEnvd, sent>>

Next ==
    \/ HttpConnection
    \/ HangUpOrCancel
    \/ SslRequest
    \/ GssEncRequest
    \/ Startup
    \/ Resolve
    \/ Connect
    \/ Relay
    \/ RelayEnds

Spec == Init /\ [][Next]_vars

-----------------------------------------------------------------------------
TypeOK ==
    /\ port \in {"pgwire", "http"}
    /\ tls \in {"none", "Require"}
    /\ resolver \in {"Static", "Frontegg"}
    /\ enc \in {"plain", "tls"}
    /\ phase \in {"startup", "password", "connect", "relay", "closed"}
    /\ password \in BOOLEAN
    /\ toEnvd \in {<<>>, <<"Startup">>, <<"Startup", "Password">>}
    /\ sent \in 0..MaxMessages

\* With TLS required, the balancer asks for a cleartext password, and hands
\* a password to environmentd, only over a connection the client upgraded
\* with SslRequest: the ensure_tls_compatibility check in run comes before
\* the resolver (lib.rs:263-265 before 267).
NoCleartextPasswordWithoutTls ==
    tls = "Require" =>
        /\ \A i \in Sent("AuthenticationCleartextPassword") : toClient[i].enc = "tls"
        /\ (toEnvd /= <<>> \/ phase = "password") => enc = "tls"

\* environmentd is handed exactly what the client proved: behind Frontegg
\* every relayed session began with the client's password, asked for
\* before any byte was relayed; behind the static resolver no password is
\* invented (lib.rs:303-313 with resolve's ResolvedAddr).
RelayOnlyAuthenticated ==
    \A i \in Sent("Relayed") :
        IF resolver = "Frontegg"
        THEN /\ toEnvd = <<"Startup", "Password">>
             /\ \E j \in Sent("AuthenticationCleartextPassword") : j < i
        ELSE toEnvd = <<"Startup">>

\* Once relaying has begun the balancer is a transparent pipe ("blindly
\* shuffle bytes back and forth until closed", lib.rs:315): it writes no
\* message of its own after a relayed byte.
NoBalancerMessageAfterRelay ==
    \A i, j \in DOMAIN toClient :
        (i < j /\ toClient[i].kind = "Relayed") => toClient[j].kind = "Relayed"
=============================================================================
