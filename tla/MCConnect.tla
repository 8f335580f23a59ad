----------------------------- MODULE MCConnect -----------------------------
(* Instances of SSHTransport for TLC. *)
EXTENDS SSHTransport
CONSTANTS r1, r2

Block(product, host, port, token, timeout, ssh, sshHost, sshPort, pem) ==
  [product |-> product, host |-> host, port |-> port,
   username |-> ~token, token |-> token, insecure |-> "null", timeout |-> timeout,
   ssh |-> ssh, sshHost |-> sshHost, sshPort |-> sshPort,
   keyFile |-> FALSE, keyPEM |-> pem]

Hosts == {<<"node">>, <<"node", "22">>, <<"node", "8006">>, <<"node", "x">>, <<"", "22">>,
          <<"fe80", "", "1">>, <<"[fe80", "", "1]">>}

\* Every product, credential, address and timeout without an SSH transport, and
\* transports that differ in address and identity.
SmallBlocks ==
  {[Block(p, h, port, t, 0, FALSE, <<"">>, Unset, FALSE) EXCEPT !.username = u] :
     p \in {"null", "other"} \cup Products, h \in Hosts, port \in {"2222", Unset}, t, u \in BOOLEAN}
  \cup {Block("pve", <<"node">>, Unset, TRUE, n, FALSE, <<"">>, Unset, FALSE) : n \in Int64}
  \cup {Block("pbs", <<"node">>, Unset, TRUE, 3, TRUE, h, Unset, FALSE) : h \in Hosts \ {<<"node">>}}
  \cup {[Block("pmg", <<"node">>, Unset, FALSE, 0, TRUE, <<"node", "22">>, "2222", TRUE)
            EXCEPT !.keyFile = f, !.insecure = "false"] : f \in BOOLEAN}
SmallNumerals == {"22", "2222", "8006", "8007", "8443", "1"}
=============================================================================
