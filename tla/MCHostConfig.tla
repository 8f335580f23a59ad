---------------------------- MODULE MCHostConfig ----------------------------
(* Instances of HostConfig for TLC. *)
EXTENDS HostConfig
Some == {"dns_servers", "dns_search_domain", "snmpv3", "ssh_allow_groups"}
Others == {"dns_search_domain", "syslog_server", "snmpv3", "ssh_allow_groups"}
Transport == {"ssh_allow_users", "ssh_allow_groups"}
=============================================================================
