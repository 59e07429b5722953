--------------------------- MODULE MCLiveValidation ---------------------------
(***************************************************************************)
(* Live validation for TLC: every control of every service on its own, the *)
(* pairs whose verdicts depend on each other, and a finding no pack knows. *)
(***************************************************************************)
EXTENDS LiveValidation

Entry(protocol, from, to, cidr) ==
  [protocol |-> protocol, from |-> from, to |-> to, cidr |-> cidr]

MCInbound ==
  { Entry("tcp", 20, 3389, "0.0.0.0/0"), Entry("tcp", 0, 65535, "::/0"),
    Entry("udp", 0, 65535, "0.0.0.0/0"), Entry("-1", -1, -1, "wide") }

MCOutbound == { Entry("-1", -1, -1, "wide") }

On(service, rules) == [service |-> service, rules |-> rules]

Alone == UNION {{On(s, {r}) : r \in DOMAIN Controls[s]} : s \in Services}

Together ==
  { On("group", {"all_ports", "tcp_port_22"}), On("group", {"all_ports", "high_risk_tcp_ports"}),
    On("s3", {"s3_bucket_object_versioning", "s3_bucket_no_mfa_delete"}),
    On("vault", {"keyvault_logging_enabled", "keyvault_recoverable"}),
    On("site", {"app_ensure_using_http20", "app_http_logs_enabled"}),
    On("storage", {"storage_blob_versioning_is_enabled", "not_registered"}) }

MCCases == Alone \cup Together
==============================================================================
