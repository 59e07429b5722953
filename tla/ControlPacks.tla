----------------------------- MODULE ControlPacks -----------------------------
(***************************************************************************)
(* The deterministic controls of src/elcapitan/control_packs and the        *)
(* documents src/elcapitan/cloud.py reads for them.                         *)
(*                                                                         *)
(* A resource is a function from aspects to values.  Every evaluator has   *)
(* the same shape: the control is in scope when some aspects have certain  *)
(* values, it is satisfied when some aspects are safe, and it raises on a  *)
(* value it does not understand or could not be read.  A control is        *)
(* therefore a record of the two functions, and an evaluation the verdict  *)
(* below.  Values are the classes the evaluators tell apart; a null and a  *)
(* missing property are "absent".                                          *)
(***************************************************************************)
EXTENDS Integers, Sequences, FiniteSets

CONSTANTS
  Inbound,   \* the permission entries a group may have, [protocol, from, to, cidr]
  Outbound

\* In scope, safe, and whether an unreadable value raises.
Control(scope, safe) == [scope |-> scope, safe |-> safe, strict |-> TRUE]
Safe(safe) == Control(<<>>, safe)
Lenient(safe) == [Safe(safe) EXCEPT !.strict = FALSE]

Toggle == {"true", "false", "absent"}

\* Function f, and g where f says nothing.
Joined(f, g) ==
  [x \in DOMAIN f \cup DOMAIN g |-> IF x \in DOMAIN f THEN f[x] ELSE g[x]]
------------------------------------------------------------------------------
(***************************************************************************)
(* AWS                                                                     *)
(***************************************************************************)
\* One document per operation, read in the order of the aspect names.  "absent" is an
\* empty answer where the operation gives one, and the error code that says there is no
\* such configuration where it gives that; any other shape reaches the evaluators.
S3Documents ==
  << [acl |-> {"any"}],
     [encryption |-> {"absent", "AES256", "aws:kms", "unknown"}],
     [lifecycle |-> {"absent", "enabled", "disabled", "unknown"}],
     [logging |-> {"absent", "enabled", "unknown"}],
     [notification |-> {"absent", "enabled", "unknown"}],
     [object_lock |-> {"absent", "Enabled", "unknown"}],
     [policy |-> {"any"}], [public_access_block |-> {"any"}],
     [replication |-> {"any"}], [tagging |-> {"any"}],
     [versioning |-> {"absent", "Enabled", "Suspended", "unknown"},
      mfa_delete |-> {"absent", "Enabled", "Disabled", "unknown"}] >>

S3Controls ==
  [ s3_bucket_object_versioning |-> Safe([versioning |-> {"Enabled"}]),
    s3_bucket_kms_encryption |-> Safe([encryption |-> {"aws:kms"}]),
    s3_bucket_server_access_logging_enabled |-> Safe([logging |-> {"enabled"}]),
    s3_bucket_event_notifications_enabled |-> Safe([notification |-> {"enabled"}]),
    s3_bucket_lifecycle_enabled |-> Safe([lifecycle |-> {"enabled"}]),
    s3_bucket_object_lock |-> Safe([object_lock |-> {"Enabled"}]),
    s3_bucket_no_mfa_delete |->
      Control([versioning |-> {"absent", "Enabled", "Suspended"}],
              [mfa_delete |-> {"Enabled"}]) ]

\* One exact answer; what it may not leave out fails the read, the rest is "absent".
RdsDocuments ==
  << [engine |-> {"postgres", "aurora", "oracle"}, retention |-> {"zero", "some"},
      replica |-> {"true", "false"}, copy_tags |-> Toggle, monitoring |-> {"set", "absent"},
      iam |-> Toggle, vpc |-> {"set", "absent"}, exports |-> {"none", "some"},
      minor_upgrade |-> {"true", "false"}, encrypted |-> {"true", "false"}] >>

RdsControls ==
  [ rds_instance_backup_enabled |->
      Control([replica |-> {"false"}], [retention |-> {"some"}]),
    rds_instance_copy_tags_to_snapshots |->
      Control([engine |-> {"postgres", "oracle"}], [copy_tags |-> {"true"}]),
    rds_instance_enhanced_monitoring_enabled |-> Safe([monitoring |-> {"set"}]),
    rds_instance_iam_authentication_enabled |->
      Control([engine |-> {"postgres", "aurora"}], [iam |-> {"true"}]),
    rds_instance_inside_vpc |-> Safe([vpc |-> {"set"}]),
    rds_instance_integration_cloudwatch_logs |-> Safe([exports |-> {"some"}]),
    rds_instance_minor_version_upgrade_enabled |-> Safe([minor_upgrade |-> {"true"}]),
    rds_instance_storage_encrypted |-> Safe([encrypted |-> {"true"}]) ]

VolumeDocuments == << [encrypted |-> {"true", "false"}], [snapshot |-> {"set", "absent"}] >>

VolumeControls ==
  [ ec2_ebs_volume_encryption |-> Safe([encrypted |-> {"true"}]),
    ec2_ebs_volume_snapshots_exists |-> Safe([snapshot |-> {"set"}]) ]

\* The group with its permissions, then whether any interface uses it.
GroupDocuments ==
  << [name |-> {"default", "launch-wizard-1", "other"}, ingress |-> SUBSET Inbound,
      egress |-> SUBSET Outbound, entries |-> {"fifty", "more"}],
     [in_use |-> {"true", "false"}] >>

Wildcard(p) == p.cidr \in {"0.0.0.0/0", "::/0"}

OpensAllPorts(p) ==
  Wildcard(p) /\ (p.protocol = "-1" \/ (p.from = 0 /\ p.to = 65535))

\* Mutant: a range of ports counts only where it starts.
ExposesFirst(p, ports) == Wildcard(p) /\ p.protocol = "tcp" /\ p.from \in ports

Exposes(p, ports) ==
  /\ Wildcard(p) /\ p.protocol = "tcp"
  /\ \E port \in ports : port \in p.from..p.to

WithoutAllPorts ==
  {s \in SUBSET Inbound : \A p \in s : ~OpensAllPorts(p)}

\* A single port is not reported when everything is, which has its own control.
PortControl(ports) ==
  Control([in_use |-> {"true"}, ingress |-> WithoutAllPorts],
          [ingress |-> {s \in SUBSET Inbound : \A p \in s : ~Exposes(p, ports)}])

PortsOf ==
  [ high_risk_tcp_ports |-> {25, 110, 135, 143, 445, 3000, 4333, 5000, 5500, 8080, 8088},
    tcp_port_22 |-> {22}, tcp_port_3389 |-> {3389},
    tcp_port_cassandra_7199_9160_8888 |-> {7199, 9160, 8888},
    tcp_port_elasticsearch_kibana_9200_9300_5601 |-> {9200, 9300, 5601},
    tcp_port_ftp_20_21 |-> {20, 21}, tcp_port_kafka_9092 |-> {9092},
    tcp_port_memcached_11211 |-> {11211}, tcp_port_mongodb_27017_27018 |-> {27017, 27018},
    tcp_port_mysql_3306 |-> {3306}, tcp_port_oracle_1521_2483 |-> {1521, 2483},
    tcp_port_postgres_5432 |-> {5432}, tcp_port_redis_6379 |-> {6379},
    tcp_port_sql_server_1433_1434 |-> {1433, 1434}, tcp_port_telnet_23 |-> {23} ]

\* A globally routable IPv4 range broader than a /24, and not all of it.
NoWideRange(entries) == {s \in SUBSET entries : \A p \in s : p.cidr # "wide"}

RuleControls ==
  [ all_ports |-> Control([in_use |-> {"true"}], [ingress |-> WithoutAllPorts]),
    wide_open_public_ipv4 |->
      Control([in_use |-> {"true"}],
              [ingress |-> NoWideRange(Inbound), egress |-> NoWideRange(Outbound)]),
    default_restrict_traffic |->
      Control([in_use |-> {"true"}, name |-> {"default"}],
              [ingress |-> {{}}, egress |-> {{}}]),
    from_launch_wizard |-> Safe([name |-> {"default", "other"}]),
    with_many_ingress_egress_rules |-> Safe([entries |-> {"fifty"}]) ]

GroupControls == Joined(RuleControls, [r \in DOMAIN PortsOf |-> PortControl(PortsOf[r])])
------------------------------------------------------------------------------
(***************************************************************************)
(* Azure                                                                   *)
(***************************************************************************)
\* Of the account document; what an evaluator insists on may be there in another shape.
AccountDocument ==
  [ public_network_access |-> {"Disabled", "Enabled", "absent"},
    allow_blob_public_access |-> Toggle, default_action |-> {"Allow", "Deny", "unknown"},
    bypass |-> {"AzureServices", "None", "unknown"},
    endpoints |-> {"none", "some", "unknown"}, shared_key |-> Toggle, oauth |-> Toggle,
    key_source |-> {"Microsoft.Keyvault", "Microsoft.Storage", "unknown"},
    infrastructure |-> Toggle, sku |-> {"geo", "local", "unknown"},
    key_expiration |-> {"absent", "in_90_days", "later", "unknown"} ]

\* The algorithms of the file service: AES-256-GCM alone, others too, or no list at all.
FileDocument == [smb_encryption |-> {"only_gcm", "others", "none"}]

StorageDocuments ==
  << AccountDocument, [blob_versioning |-> Toggle, container_delete |-> Toggle],
     FileDocument >>

AccountControls ==
  [ storage_account_public_network_access_disabled |->
      Lenient([public_network_access |-> {"Disabled"}]),
    storage_blob_public_access_level_is_disabled |->
      Lenient([allow_blob_public_access |-> {"false"}]),
    storage_blob_versioning_is_enabled |-> Lenient([blob_versioning |-> {"true"}]),
    storage_ensure_encryption_with_customer_managed_keys |->
      Safe([key_source |-> {"Microsoft.Keyvault"}]),
    storage_geo_redundant_enabled |-> Safe([sku |-> {"geo"}]),
    storage_infrastructure_encryption_is_enabled |-> Safe([infrastructure |-> {"true"}]) ]

StorageAccessControls ==
  [ storage_default_network_access_rule_is_denied |-> Safe([default_action |-> {"Deny"}]),
    storage_ensure_private_endpoints_in_storage_accounts |-> Safe([endpoints |-> {"some"}]),
    storage_account_key_access_disabled |-> Safe([shared_key |-> {"false"}]),
    storage_default_to_entra_authorization_enabled |-> Safe([oauth |-> {"true"}]),
    storage_ensure_soft_delete_is_enabled |-> Safe([container_delete |-> {"true"}]),
    storage_ensure_azure_services_are_trusted_to_access_is_enabled |->
      Safe([bypass |-> {"AzureServices"}]),
    storage_key_rotation_90_days |-> Safe([key_expiration |-> {"in_90_days"}]),
    storage_smb_channel_encryption_with_secure_algorithm |->
      Safe([smb_encryption |-> {"only_gcm"}]) ]

\* The protector, then one database after another.
SqlDocuments ==
  << [protector |-> {"AzureKeyVault", "ServiceManaged"}],
     [tde_1 |-> {"Enabled", "Disabled"}], [tde_2 |-> {"Enabled", "Disabled"}] >>

SqlControls ==
  [ sqlserver_tde_encrypted_with_cmk |->
      Safe([protector |-> {"AzureKeyVault"}, tde_1 |-> {"Enabled"}, tde_2 |-> {"Enabled"}]) ]

RegistryDocuments ==
  << [admin_user |-> Toggle, acr_access |-> {"Enabled", "Disabled", "absent"},
      acr_endpoints |-> {"none", "some"}] >>

RegistryControls ==
  [ containerregistry_admin_user_disabled |-> Safe([admin_user |-> {"false"}]),
    containerregistry_not_publicly_accessible |-> Safe([acr_access |-> {"Disabled"}]),
    containerregistry_uses_private_link |-> Safe([acr_endpoints |-> {"some"}]) ]

OpenAIDocuments ==
  << [kind |-> {"AIServices", "OpenAI"}, openai_access |-> {"Enabled", "Disabled"}] >>

OpenAIControls ==
  [ azureopenai_account_public_network_access_disabled |->
      Control([kind |-> {"AIServices", "OpenAI"}], [openai_access |-> {"Disabled"}]) ]

CosmosDocuments ==
  << [failover |-> Toggle, backup |-> {"Continuous", "Periodic", "absent"},
      tls |-> {"Tls", "Tls11", "Tls12", "Tls13", "absent"},
      cosmos_access |-> {"Disabled", "Enabled", "SecuredByPerimeter", "absent"}] >>

CosmosControls ==
  [ cosmosdb_account_automatic_failover_enabled |-> Safe([failover |-> {"true"}]),
    cosmosdb_account_backup_policy_continuous |-> Safe([backup |-> {"Continuous"}]),
    cosmosdb_account_minimum_tls_version |-> Safe([tls |-> {"Tls12", "Tls13"}]),
    cosmosdb_account_public_network_access_disabled |->
      Safe([cosmos_access |-> {"Disabled", "SecuredByPerimeter"}]) ]

\* The log entries of all diagnostic settings: the audit category is on, the audit and the
\* all-logs group of one setting are, or at most one of the two.
AuditLogs == {"none", "one_group", "both_groups", "category"}

VaultDocuments ==
  << [rbac |-> Toggle, soft_delete |-> Toggle, purge_protection |-> Toggle,
      vault_endpoints |-> {"none", "some"}],
     [audit_log |-> AuditLogs] >>

VaultControls ==
  [ keyvault_logging_enabled |-> Safe([audit_log |-> {"both_groups", "category"}]),
    keyvault_private_endpoints |-> Safe([vault_endpoints |-> {"some"}]),
    keyvault_rbac_enabled |-> Safe([rbac |-> {"true"}]),
    keyvault_recoverable |->
      Safe([soft_delete |-> {"true"}, purge_protection |-> {"true"}]) ]

SubnetDocuments ==
  << [subnet |-> {"GatewaySubnet", "other"}, nsg |-> {"set", "absent"}] >>

SubnetControls ==
  [ network_subnet_nsg_associated |-> Control([subnet |-> {"other"}], [nsg |-> {"set"}]) ]

\* The site, its web configuration, its authentication and its diagnostic settings.
SiteDocuments ==
  << [app_kind |-> {"app", "functionapp", "api"}, client_cert |-> Toggle,
      cert_mode |-> {"Required", "Optional", "absent"},
      site_access |-> {"Disabled", "Enabled", "absent"}, vnet |-> {"set", "absent"}],
     [http20 |-> Toggle, ftps |-> {"Disabled", "AllAllowed", "absent"}],
     [auth |-> Toggle], [http_logs |-> {"enabled", "none"}] >>

WebApp(safe) == Control([app_kind |-> {"app"}], safe)
FunctionApp(safe) == Control([app_kind |-> {"functionapp"}], safe)

SiteControls ==
  [ app_client_certificates_on |->
      WebApp([client_cert |-> {"true"}, cert_mode |-> {"Required"}]),
    app_ensure_auth_is_set_up |-> WebApp([auth |-> {"true"}]),
    app_ensure_using_http20 |-> WebApp([http20 |-> {"true"}]),
    app_http_logs_enabled |-> WebApp([http_logs |-> {"enabled"}]),
    app_function_ftps_deployment_disabled |-> FunctionApp([ftps |-> {"Disabled"}]),
    app_function_not_publicly_accessible |-> FunctionApp([site_access |-> {"Disabled"}]),
    app_function_vnet_integration_enabled |-> FunctionApp([vnet |-> {"set"}]) ]
------------------------------------------------------------------------------
(***************************************************************************)
(* The registry and the evaluation of one control                          *)
(***************************************************************************)
Documents ==
  [ s3 |-> S3Documents, rds |-> RdsDocuments, volume |-> VolumeDocuments,
    group |-> GroupDocuments, storage |-> StorageDocuments, sql |-> SqlDocuments,
    registry |-> RegistryDocuments, openai |-> OpenAIDocuments, cosmos |-> CosmosDocuments,
    vault |-> VaultDocuments, subnet |-> SubnetDocuments, site |-> SiteDocuments ]

Controls ==
  [ s3 |-> S3Controls, rds |-> RdsControls, volume |-> VolumeControls,
    group |-> GroupControls, storage |-> Joined(AccountControls, StorageAccessControls),
    sql |-> SqlControls, registry |-> RegistryControls, openai |-> OpenAIControls,
    cosmos |-> CosmosControls, vault |-> VaultControls, subnet |-> SubnetControls,
    site |-> SiteControls ]

Services == DOMAIN Documents

\* The documents whose failure leaves the others: the file service of a storage account
\* and the diagnostic settings of a vault.
Independent == {<<"storage", 3>>, <<"vault", 2>>}

\* What a missing property counts as where the reader fills it in.
FilledIn ==
  [ copy_tags |-> "false", iam |-> "false", admin_user |-> "false", acr_access |-> "Enabled" ]

Recorded(a, x) == IF a \in DOMAIN FilledIn /\ x = "absent" THEN FilledIn[a] ELSE x

Reads(c) == DOMAIN c.scope \cup DOMAIN c.safe

Unreadable(a, x) == a \notin {"ingress", "egress"} /\ x \in {"unknown", "unavailable"}

Applies(c, config) == \A a \in DOMAIN c.scope : config[a] \in c.scope[a]
Satisfied(c, config) == \A a \in DOMAIN c.safe : config[a] \in c.safe[a]

\* evaluate_finding over what was captured of a resource.
Verdict(service, rule, config) ==
  IF rule \notin DOMAIN Controls[service] THEN "unsupported"
  ELSE LET c == Controls[service][rule] IN
    IF c.strict /\ \E a \in Reads(c) : Unreadable(a, config[a]) THEN "unavailable"
    ELSE IF Applies(c, config) /\ ~Satisfied(c, config) THEN "confirmed"
    ELSE "not_confirmed"
==============================================================================
