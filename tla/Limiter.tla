-------------------------------- MODULE Limiter --------------------------------
(***************************************************************************)
(* ratelimit.Limiter: which counter a request is charged to when it comes  *)
(* to the server through proxies, and which requests are refused.          *)
(*                                                                         *)
(* One request travels at a time and one window of httprate is observed:   *)
(* requests meet in the counters only, which httprate keeps under a lock.  *)
(***************************************************************************)
EXTENDS Naturals, Sequences, FiniteSetsExt

CONSTANTS Clients,     \* addresses outside every trusted network
          Proxies,     \* addresses of proxies
          Accounts,    \* what the function of WithKeyFunc returns
          Ports,       \* ports a client connects from
          Garbage,     \* a header value that is no address
          Empty,       \* no header, no key
          Limits,      \* values of requestLimit
          MaxHops      \* bound of the proxies a request crosses

Hosts == Clients \cup Proxies
Keys == ({"ip:"} \X Hosts) \cup ({"key:"} \X Accounts)

\* A trusted proxy appends the address it is called from to X-Forwarded-For, or
\* writes the client's into X-Real-IP and drops the other header.
Customs == {"X-Forwarded-For", "X-Real-IP"}

ASSUME LimiterAssumption ==
    /\ Clients \cap Proxies = {}
    /\ Empty \notin Hosts \cup Accounts /\ Garbage \notin Hosts \cup {Empty}
    /\ Limits \subseteq Nat /\ MaxHops \in Nat

VARIABLES limit,    \* requestLimit, or Empty before New
          trusted,  \* trustedNets, as the addresses in them
          custom,   \* what the proxies of the deployment write
          packet,   \* the request on its way, or Empty
          charged,  \* httprate: key -> requests counted in the window
          served, refused  \* history: who was served how often, who was refused

limiterVars == <<limit, trusted, custom, packet, charged, served, refused>>

LimiterInit ==
    /\ limit = Empty /\ trusted = {} /\ custom = "X-Forwarded-For"
    /\ packet = Empty
    /\ charged = [k \in Keys |-> 0]
    /\ served = [k \in Keys |-> 0] /\ refused = {}

\* New: the limit and the list of trusted proxies of the configuration.
New ==
    /\ limit = Empty
    /\ limit' \in Limits /\ trusted' \in {{}, Proxies} /\ custom' \in Customs
    /\ UNCHANGED <<packet, charged, served, refused>>

--------------------------------------------------------------------------------
(* The way of a request. *)

\* A client sends a request, with the headers of whatever lies behind it.
Send ==
    /\ limit # Empty /\ packet = Empty
    /\ \E c \in Clients, port \in Ports, account \in Accounts \cup {Empty},
          real \in Hosts \cup {Garbage, Empty}, n \in 0..1 :
          \E forwarded \in [1..n -> Hosts \cup {Garbage}] :
             packet' = [client |-> c, account |-> account,
                        peer |-> [host |-> c, port |-> port],
                        forwarded |-> forwarded, real |-> real, hops |-> 0]
    /\ UNCHANGED <<limit, trusted, custom, charged, served, refused>>

Forward ==
    /\ packet # Empty /\ packet.hops < MaxHops
    /\ \E p \in trusted, port \in Ports :
          packet' = [packet EXCEPT
              !.peer = [host |-> p, port |-> port],
              !.hops = @ + 1,
              !.forwarded = IF custom = "X-Real-IP" THEN <<>>
                            ELSE Append(@, packet.peer.host),
              !.real = IF custom = "X-Real-IP" /\ packet.hops = 0
                       THEN packet.peer.host ELSE @]
    /\ UNCHANGED <<limit, trusted, custom, charged, served, refused>>

--------------------------------------------------------------------------------
(* Limiter.ClientIP. *)

\* The address without its port.
HostOnly(addr) == addr.host

\* realclientip's RightmostTrustedRange: the last hop outside the trusted
\* networks, unless it is no address.
RightmostUntrusted(forwarded) ==
    LET outside == {i \in DOMAIN forwarded : forwarded[i] \notin trusted} IN
    IF outside = {} THEN Empty ELSE forwarded[Max(outside)]

\* NewChainStrategy: X-Forwarded-For, then X-Real-IP.
Resolved(p) ==
    IF RightmostUntrusted(p.forwarded) \in Hosts THEN RightmostUntrusted(p.forwarded)
    ELSE IF p.real \in Hosts THEN p.real ELSE Empty

\* Mutant: every peer is trusted.
PeerTrustedAny(host) == host \in Hosts
PeerTrusted(host) == host \in trusted

ClientIP(p) ==
    LET peer == HostOnly(p.peer) IN
    IF trusted # {} /\ PeerTrusted(peer) /\ Resolved(p) # Empty
    THEN Resolved(p) ELSE peer

\* Mutant: without the prefixes.
KeyBare(p) == <<"ip:", IF p.account # Empty THEN p.account ELSE ClientIP(p)>>
\* The function given to httprate.WithKeyFuncs.
Key(p) == IF p.account # Empty THEN <<"key:", p.account>> ELSE <<"ip:", ClientIP(p)>>

--------------------------------------------------------------------------------
(* Limiter.Middleware. *)

\* Who sent the request, as WithKeyFunc and the type Limiter describe it.
Sender(p) == IF p.account # Empty THEN <<"key:", p.account>> ELSE <<"ip:", p.client>>

Serve ==
    /\ packet # Empty
    /\ \/ limit = 0 /\ UNCHANGED <<charged, served>>
       \/ /\ limit > 0 /\ charged[Key(packet)] < limit
          /\ charged' = [charged EXCEPT ![Key(packet)] = @ + 1]
          /\ served' = [served EXCEPT ![Sender(packet)] = @ + 1]
    /\ packet' = Empty
    /\ UNCHANGED <<limit, trusted, custom, refused>>

\* The limit handler answers.
Refuse ==
    /\ packet # Empty
    /\ limit > 0 /\ charged[Key(packet)] >= limit
    /\ refused' = refused \cup {Sender(packet)}
    /\ packet' = Empty
    /\ UNCHANGED <<limit, trusted, custom, charged, served>>

LimiterNext == New \/ Send \/ Forward \/ Serve \/ Refuse

LimiterSpec == LimiterInit /\ [][LimiterNext]_limiterVars

--------------------------------------------------------------------------------
(* Properties. *)

\* A client is only refused for requests of its own: whatever the others send,
\* with whatever headers and through whatever trusted proxies, nothing is charged
\* to its counter, and a key of WithKeyFunc never meets an address.
RefusedForOwn == \A s \in refused : served[s] >= limit

\* No client is served more than requestLimit times in a window, however it
\* varies its ports, its headers and its way through the proxies.
LimitHeld == limit # Empty /\ limit > 0 => \A s \in Keys : served[s] <= limit

================================================================================
