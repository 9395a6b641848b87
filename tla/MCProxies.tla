------------------------------ MODULE MCProxies ------------------------------
(***************************************************************************)
(* One run for the two small proxy models, which share nothing: a          *)
(* behaviour is one of the parent of proxy_old (Supervisor) or of a        *)
(* connection of the splice proxy (SpliceTunnel), and leaves the other's   *)
(* variables at their initial values.                                      *)
(***************************************************************************)
EXTENDS Supervisor, Sequences

CONSTANTS SpliceSize, PipeSlots, MaxBytes

ASSUME TunnelConstants == SpliceSize \in Nat

VARIABLES
    which,
    pc, open, fromClient, fromServer, buf, pipe, lasts, toServer, toClient,
    cSent, sSent, cClosed, sClosed, short, why

Tunnel == INSTANCE SpliceTunnel

tunnel_vars == <<pc, open, fromClient, fromServer, buf, pipe, lasts, toServer,
                 toClient, cSent, sSent, cClosed, sClosed, short, why>>
proxies_vars == <<which, vars, tunnel_vars>>

ProxiesInit == which \in {"parent", "tunnel"} /\ Init /\ Tunnel!Init

\* The process that runs, and what stays as it is.
InParent == which = "parent" /\ UNCHANGED <<which, tunnel_vars>>
InTunnel == which = "tunnel" /\ UNCHANGED <<which, vars>>

ProxiesNext == (InParent /\ Next) \/ (InTunnel /\ Tunnel!Next)

\* The parent keeps running; queued work is done and a running thread goes on.
\* Nothing is assumed of workers, signals and clients, nor of when servers send.
ProxiesSpec ==
    /\ ProxiesInit /\ [][ProxiesNext]_proxies_vars
    /\ WF_proxies_vars(InParent /\ ParentStep)
    /\ WF_proxies_vars(InTunnel /\ Tunnel!Step)

-----------------------------------------------------------------------------
(* Properties of the tunnel *)

\* sproxy_core.c and sproxy_splice.c: while the tunnel runs nothing is lost,
\* duplicated or reordered in either direction.  The end of the client's stream
\* comes after its bytes; the end of the server's does so unless a short splice
\* left bytes in the pipe, which are then lost.
TunnelBytesIntact == Tunnel!BytesIntact /\ Tunnel!CloseComesLast

\* sproxy_core.c: a tunnel that is over has given back what it held, but for the
\* server's socket after a failed connect and for the client of a refused item.
EverythingReleased == Tunnel!EverythingReleased

\* sproxy_core.c: if the server pauses, what the client sent reaches it or the
\* tunnel ends, also while the other direction is stuck on a full pipe.
RequestForwarded == <>[][~Tunnel!ServerSends]_tunnel_vars => Tunnel!Forwarded

==============================================================================
