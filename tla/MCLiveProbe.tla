---------------------------- MODULE MCLiveProbe ----------------------------
(* Instances of LiveProbe for TLC: a host www that moves between two       *)
(* addresses, its HTTPS and HTTP ports, and the client's, a revoked, a     *)
(* narrowed, a re-signed and the pack's DEMO SCOPE.                         *)
EXTENDS LiveProbe

CONSTANTS t1, t2, www, ip1, ip2, d1, d2, demo, H, P

Signed(stamp) == [client |-> "ours", stamp |-> stamp, days |-> {1, 2}, revoked |-> FALSE,
                  ports |-> {H, P}, hosts |-> {www, ip1, ip2}]
Client == [Signed(d1) EXCEPT !.days = {1}]
FiveTexts == {Client, [Client EXCEPT !.revoked = TRUE],
              [Client EXCEPT !.ports = {H}, !.hosts = {www, ip1}],
              Signed(d2), [Signed(demo) EXCEPT !.client = "demo"]}
Ask(target, ports) == [target |-> target, ports |-> ports]
Bound(what, e, r) ==
  [scope |-> Client, consent |-> d1, today |-> 1, dns |-> [n \in {www} |-> ip1],
   asks |-> what, edits |-> e, runs |-> r]
Bounds == {Bound({Ask(www, <<H>>)}, 2, 1), Bound({Ask(www, <<H>>), Ask(ip2, <<P, H>>)}, 1, 2)}
=============================================================================
