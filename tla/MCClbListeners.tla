--------------------------- MODULE MCClbListeners ---------------------------
(* Small instances of ClbListeners for TLC. *)
EXTENDS ClbListeners, TLC

CONSTANTS A, B, v1, c1, c2

None == [c \in Classes |-> Unset]
With(c) == [None EXCEPT ![c] = v1]
Plain == [fwd |-> 0, cert |-> NoCert, opt |-> None]
Opt(c) == [Plain EXCEPT !.opt = With(c)]
Tls(c) == [Plain EXCEPT !.cert = c]
Redirect(p) == [Plain EXCEPT !.fwd = p]

\* A goes from tcp to a redirect with its https listener, renews the
\* certificate, drops the redirect, then the https listener, then everything;
\* the user may take port 80 meanwhile and B works on another port,
\* of which it changes the protocol, then gives it up for port 80.
MCPlans ==
    (A :> << (<<80, "tcp">> :> Opt("layer4")),
             (<<80, "http">> :> Redirect(443)) @@ (<<443, "https">> :> Tls(c1)),
             (<<80, "http">> :> Opt("layer7")) @@ (<<443, "https">> :> Tls(c2)),
             (<<80, "http">> :> Plain),
             <<>> >>)
    @@ (B :> << (<<90, "udp">> :> Opt("any")), (<<90, "tcp">> :> Plain),
             (<<80, "tcp">> :> Plain) >>)

MCConsole == {<<80, "tcp">>}
=============================================================================
