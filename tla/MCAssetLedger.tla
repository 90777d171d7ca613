--------------------------- MODULE MCAssetLedger ---------------------------
(***************************************************************************)
(* Small instances of the asset ledger.                                    *)
(*   Lan: two hosts with agents and two addresses of one network that move *)
(*        between them, seen by an agent and by a scanner that knows only  *)
(*        the address.                                                     *)
(*   Agent: every record carries an agent id, on a host whose address,     *)
(*        MAC or FQDN changes.                                             *)
(*   Name: hosts known by short name, by FQDN and by address.              *)
(*   Nic: one host with three network cards (x, y and m are their MACs),   *)
(*        seen one card at a time and then whole; later records are older. *)
(***************************************************************************)
EXTENDS AssetLedger, TLC

CONSTANTS x, y, m, web, webCorp, webLab, ip1, ip2, nmap, wazuh

None == [k \in Key |-> {}]
AllNets == [v \in Val |-> "lan"]
AllLabels == [v \in Val |-> web]

LanIds == <<[None EXCEPT !["agent"] = {x}, !["ip"] = {ip1}],
            [None EXCEPT !["agent"] = {x}, !["ip"] = {ip2}],
            [None EXCEPT !["agent"] = {y}, !["ip"] = {ip1}],
            [None EXCEPT !["ip"] = {ip1}],
            [None EXCEPT !["ip"] = {ip2}, !["mac"] = {m}]>>
LanSource == <<wazuh, wazuh, wazuh, nmap, nmap>>
LanAge == <<0, 0, 0, 1, 1>>

NameIds == <<[None EXCEPT !["hostname"] = {web}, !["ip"] = {ip1}],
             [None EXCEPT !["fqdn"] = {webCorp}],
             [None EXCEPT !["fqdn"] = {webLab}],
             [None EXCEPT !["agent"] = {x}, !["fqdn"] = {webCorp}, !["ip"] = {ip1}],
             [None EXCEPT !["agent"] = {y}, !["hostname"] = {web}]>>
NameSource == <<nmap, nmap, nmap, wazuh, wazuh>>
NameAge == <<1, 1, 1, 0, 0>>

NicIds == <<[None EXCEPT !["mac"] = {x}], [None EXCEPT !["mac"] = {y}],
            [None EXCEPT !["mac"] = {m}], [None EXCEPT !["mac"] = {x, y, m}]>>
NicSource == <<wazuh, nmap, nmap, nmap>>
NicAge == <<2, 1, 0, 2>>

TwoOrders == [what: {"merge", "replaces"}, uid: {2}, to: {1}]
=============================================================================
