-------------------------------- MODULE Delivery -------------------------------
(***************************************************************************)
(* post_webhook (src/alerts.c): one delivery of an alert, over HTTP or     *)
(* through BearSSL, by the thread of the collect loop.  The resolver, the  *)
(* network and the endpoint do as they like: they refuse, reset, say       *)
(* nothing, or answer a byte at a time.  The socket's timeouts bound a     *)
(* call, and one deadline all of them.                                     *)
(*                                                                         *)
(* The clock counts seconds, and moves only while a call is under way.     *)
(* Of the reply, there is what its first bytes say.                        *)
(***************************************************************************)
EXTENDS Integers

CONSTANTS
    DELIVERY_SECONDS,
    CallSeconds,  \* SO_SNDTIMEO, SO_RCVTIMEO and connect_any's select
    MaxResolve,   \* bound: seconds getaddrinfo takes
    MaxAddrs      \* bound: addresses it returns

ASSUME DeliveryAssumption ==
    /\ DELIVERY_SECONDS \in Nat \ {0}
    /\ CallSeconds \in Nat \ {0}
    /\ MaxResolve \in Nat /\ MaxAddrs \in Nat

VARIABLES
    now,         \* mono_seconds()
    until,       \* when the call under way is over at the latest
    dpc,         \* where post_webhook is
    phase,       \* what it reads or writes for
    scheme,      \* "http", "https", or "insecure" for insecure_skip_verify
    deadline,
    addrs,       \* addresses not tried yet
    held,        \* what has to be released: "anchors", "addrinfo", "socket"
    head,        \* what the reply says so far
    tls_failed,
    delivered,   \* what it returned, or -1
    reported,    \* lines printed for this delivery
    resolved,    \* ghost: when the addresses were there
    cut          \* ghost: 1 when TLS failed past the deadline

clock == <<now, until>>
tls == <<tls_failed, cut>>
dvars == <<dpc, phase, scheme, deadline, addrs, held, head, tls, delivered,
           reported, resolved>>

PostInit ==
    /\ now = 0 /\ until = 0
    /\ dpc = "off" /\ phase = "close" /\ scheme = "http"
    /\ deadline = 0 /\ addrs = 0 /\ held = {} /\ head = "none"
    /\ tls_failed = 0 /\ delivered = -1 /\ reported = 0 /\ resolved = 0
    /\ cut = 0

Waiting == dpc \in {"resolve", "connecting", "call"}

(* Time passes in a call, as long as it may last. *)
PostTick ==
    /\ Waiting /\ now < until
    /\ now' = now + 1
    /\ UNCHANGED <<until, dvars>>

Blocks(seconds) == until' = now + seconds /\ UNCHANGED now

in_time == now < deadline

(* post_webhook returns, and its locals are gone; tls_failed stays to tell *)
(* how it ended.                                                           *)
Return(ok, lines) ==
    /\ dpc' = "off" /\ phase' = "close" /\ scheme' = "http"
    /\ deadline' = 0 /\ addrs' = 0 /\ head' = "none"
    /\ delivered' = ok /\ reported' = reported + lines
    /\ resolved' = 0 /\ until' = 0 /\ UNCHANGED now

(* The URL cannot be used, the request does not fit, or there are no       *)
(* anchors: load_anchors has freed what it had.                            *)
Refuse ==
    /\ dpc = "off" /\ dpc' = "off"
    /\ delivered' = 0 /\ reported' = 1 /\ tls_failed' = 0 /\ cut' = 0
    /\ UNCHANGED <<clock, phase, scheme, deadline, addrs, held, head, resolved>>

(* Everything up to getaddrinfo. *)
Post ==
    /\ dpc = "off" /\ dpc' = "resolve"
    /\ scheme' \in {"http", "https", "insecure"}
    /\ held' = IF scheme' = "https" THEN {"anchors"} ELSE {}
    /\ deadline' = now + DELIVERY_SECONDS
    /\ Blocks(MaxResolve)
    /\ head' = "none" /\ tls_failed' = 0 /\ cut' = 0 /\ reported' = 0
    /\ UNCHANGED <<phase, addrs, delivered, resolved>>

ResolveFail ==
    /\ dpc = "resolve"
    /\ held' = held \ {"anchors"}
    /\ Return(0, 1)
    /\ UNCHANGED tls

Resolve ==
    /\ dpc = "resolve" /\ dpc' = "connect"
    /\ addrs' \in 1..MaxAddrs
    /\ held' = held \cup {"addrinfo"}
    /\ resolved' = now
    /\ UNCHANGED <<clock, phase, scheme, deadline, head, tls, delivered, reported>>

(* connect_any: the next address, or none where socket() fails.  The       *)
(* connect does not block; select waits for it.                            *)
Attempt ==
    /\ dpc = "connect" /\ addrs > 0 /\ in_time
    /\ addrs' = addrs - 1
    /\ \/ dpc' = "connecting" /\ held' = held \cup {"socket"} /\ Blocks(CallSeconds)
       \/ UNCHANGED <<dpc, held, clock>>
    /\ UNCHANGED <<phase, scheme, deadline, head, tls, delivered, reported, resolved>>

ConnectFail ==
    /\ dpc = "connecting" /\ dpc' = "connect"
    /\ held' = held \ {"socket"}
    /\ UNCHANGED <<clock, phase, scheme, deadline, addrs, head, tls, delivered,
                   reported, resolved>>

Connect ==
    /\ dpc = "connecting" /\ dpc' = "io"
    /\ phase' = IF scheme = "http" THEN "write" ELSE "tls"
    /\ held' = held \ {"addrinfo"}
    /\ UNCHANGED <<clock, scheme, deadline, addrs, head, tls, delivered, reported,
                   resolved>>

(* Mutant: the anchors are not freed where no address connects. *)
GiveUp_Leaks ==
    /\ dpc = "connect" /\ (addrs = 0 \/ ~in_time)
    /\ held' = held \ {"addrinfo"}
    /\ Return(0, 1)
    /\ UNCHANGED tls

GiveUp ==
    /\ dpc = "connect" /\ (addrs = 0 \/ ~in_time)
    /\ held' = held \ {"addrinfo", "anchors"}
    /\ Return(0, 1)
    /\ UNCHANGED tls

(* Mutant: only the socket's own timeouts are there. *)
Io_Untested ==
    /\ dpc = "io" /\ dpc' = "call"
    /\ Blocks(CallSeconds)
    /\ UNCHANGED <<phase, scheme, deadline, addrs, held, head, tls, delivered,
                   reported, resolved>>

(* write_all, post_webhook's read loop, and tls_sock_read and _write which *)
(* BearSSL calls: each send or read only in time.                          *)
Io ==
    /\ dpc = "io" /\ in_time /\ dpc' = "call"
    /\ Blocks(CallSeconds)
    /\ UNCHANGED <<phase, scheme, deadline, addrs, held, head, tls, delivered,
                   reported, resolved>>

(* keep_head: the first bytes, be they enough for a status line or not. *)
Heads == IF head \in {"2xx", "other"} THEN {head} ELSE {"part", "2xx", "other"}

(* The call moved some bytes, and the phase is not over.  In "receive",    *)
(* they may be TLS's own.                                                  *)
Some ==
    /\ dpc = "call" /\ dpc' = "io"
    /\ head' \in IF phase = "read" THEN Heads
                 ELSE IF phase = "receive" THEN Heads \cup {head} ELSE {head}
    /\ UNCHANGED <<clock, phase, scheme, deadline, addrs, held, tls, delivered,
                   reported, resolved>>

(* What follows: "tls" is the handshake and the request, "receive" the     *)
(* reply, "bye" the close_notify and its flush.                            *)
After ==
    [write |-> "read", read |-> "close", tls |-> "receive", receive |-> "bye", bye |-> "close"]

(* The phase is over: all was sent, the peer closed, or the call failed or *)
(* timed out, which only the phase "tls" tells apart.                      *)
Over ==
    /\ dpc = "call" \/ (dpc = "io" /\ ~in_time /\ phase # "tls")
    /\ dpc' = IF After[phase] = "close" THEN "close" ELSE "io"
    /\ phase' = After[phase]
    /\ UNCHANGED <<clock, scheme, deadline, addrs, held, head, tls, delivered,
                   reported, resolved>>

(* Mutant: what the handshake or the request failed with is not printed. *)
TlsFail_Silent ==
    /\ phase = "tls"
    /\ dpc = "call" \/ (dpc = "io" /\ ~in_time)
    /\ dpc' = "close" /\ phase' = "close"
    /\ tls_failed' = 1
    /\ cut' = IF in_time THEN 0 ELSE 1
    /\ UNCHANGED <<clock, scheme, deadline, addrs, held, head, delivered, reported, resolved>>

(* br_sslio_write_all or br_sslio_flush failed. *)
TlsFail ==
    /\ phase = "tls"
    /\ dpc = "call" \/ (dpc = "io" /\ ~in_time)
    /\ dpc' = "close" /\ phase' = "close"
    /\ tls_failed' = 1
    /\ cut' = IF in_time THEN 0 ELSE 1
    /\ reported' = IF in_time THEN reported + 1 ELSE reported
    /\ UNCHANGED <<clock, scheme, deadline, addrs, held, head, delivered, resolved>>

reply_ok == IF head = "2xx" THEN 1 ELSE 0

(* Mutant: the failure of TLS is reported again. *)
Close_Twice ==
    /\ dpc = "close"
    /\ held' = held \ {"socket", "anchors"}
    /\ Return(reply_ok, IF reply_ok = 1 THEN 0 ELSE 1)
    /\ UNCHANGED tls

(* The line is about the time, the status, or that there is none. *)
Close ==
    /\ dpc = "close"
    /\ held' = held \ {"socket", "anchors"}
    /\ Return(reply_ok, IF reply_ok = 1 \/ tls_failed = 1 THEN 0 ELSE 1)
    /\ UNCHANGED tls

(* What post_webhook does once it is called. *)
PostStep ==
    \/ ResolveFail \/ Resolve \/ Attempt \/ ConnectFail \/ Connect \/ GiveUp
    \/ Io \/ Some \/ Over \/ TlsFail \/ Close

PostNext == PostTick \/ Refuse \/ Post \/ PostStep

PostSpec == PostInit /\ [][PostNext]_<<clock, dvars>>
--------------------------------------------------------------------------------
(* Properties *)

(* "A call under way may still run its 5 s past it" (DELIVERY_SECONDS),    *)
(* and no more than that, through any number of addresses, writes and      *)
(* reads: a slow endpoint does not hold the loop.  Where the resolver is   *)
(* slower than all of it, nothing is tried once it is back.                *)
EndsInTime ==
    dpc \notin {"off", "resolve"} => now <= resolved \/ now < deadline + CallSeconds

(* "Loaded for each delivery and freed after" (load_anchors): between two  *)
(* deliveries nothing is held of the last, however it ended.               *)
Released == dpc = "off" => held = {}

(* "Any failure returns 0 and is reported in a single line"                *)
(* (post_webhook): a delivery that failed has printed one line, on         *)
(* whichever path, and one that succeeded none.  The code makes one        *)
(* exception: a TLS exchange that fails past the deadline prints nothing,  *)
(* and only past the deadline.                                             *)
SingleLine ==
    dpc = "off" =>
      /\ delivered = 1 => reported = 0
      /\ delivered = 0 => reported = 1 - cut

(* The words themselves, and the README's: "A delivery that takes over     *)
(* 10 s, DNS and connect included, is given up and reported."  The code    *)
(* does not keep to it where TLS fails past the deadline.                  *)
EachReported == dpc = "off" /\ delivered = 0 => reported = 1
================================================================================
