---------------------------- MODULE MCLoaderRun ----------------------------
(***************************************************************************)
(* Small instances of the loader with its two ledgers.                     *)
(*   Home: a host that keeps its address and one that roams.               *)
(*   Roam: two hosts with agents that take over each other's address.      *)
(*   Card: one host seen through two network cards.                        *)
(***************************************************************************)
EXTENDS LoaderRun, TLC

CONSTANTS x, y, m, ip1, ip2, ip3, nmap, wazuh, telnet

None == [k \in Key |-> {}]
OneNet == [v \in Val |-> "lan"]
NoLabels == [v \in Val |-> v]

HomeIds == <<[None EXCEPT !["agent"] = {x}, !["ip"] = {ip1}],
             [None EXCEPT !["agent"] = {y}, !["ip"] = {ip2}],
             [None EXCEPT !["agent"] = {y}, !["ip"] = {ip3}],
             [None EXCEPT !["ip"] = {ip1}],
             [None EXCEPT !["ip"] = {ip2}]>>
HomeScans == {{4}, {1, 4}, {1, 2}, {4, 5}, {2, 4, 5}, {3, 4, 5}, {1, 3, 5}}

RoamIds == <<[None EXCEPT !["agent"] = {x}, !["ip"] = {ip1}],
             [None EXCEPT !["agent"] = {x}, !["ip"] = {ip2}],
             [None EXCEPT !["agent"] = {y}, !["ip"] = {ip1}],
             [None EXCEPT !["ip"] = {ip1}],
             [None EXCEPT !["ip"] = {ip2}]>>
RoamScans == {{4}, {1, 5}, {2, 4, 5}}

CardIds == <<[None EXCEPT !["agent"] = {x}, !["ip"] = {ip1}],
             [None EXCEPT !["agent"] = {x}, !["mac"] = {m}],
             [None EXCEPT !["mac"] = {m}, !["ip"] = {ip2}],
             [None EXCEPT !["ip"] = {ip1}],
             [None EXCEPT !["ip"] = {ip2}]>>
CardScans == {{3}, {1, 4}, {1, 2, 4}}

BySensor == <<wazuh, wazuh, wazuh, nmap, nmap>>
Later == <<0, 0, 0, 1, 1>>
Telnets == <<{}, {}, {}, {telnet}, {telnet}>>
=============================================================================
