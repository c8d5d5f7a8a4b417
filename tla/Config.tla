------------------------------ MODULE Config ------------------------------
(***************************************************************************)
(* From a YAML file to a wired DomainWatcher: where the file is looked for,*)
(* what load_config and the schema refuse, what compose_from_config makes  *)
(* of the rest.  Only operators: Lifecycle puts them to work.              *)
(*                                                                         *)
(* A file is a record.  `yaml` says what the parser makes of its text; the *)
(* entries of its lists are records with the fields the code reads; texts  *)
(* are strings that stand for a class: "" is the empty string, a cron is   *)
(* one of a few.  A leaf is a text or a ${VAR:-default} reference.         *)
(***************************************************************************)
EXTENDS Naturals, FiniteSets, Sequences, SequencesExt

CONSTANTS
    None,
    LegibleCrons,  \* crons of five fields of digits and * / , - ?
    FiringCrons,   \* crons CronTrigger.from_crontab accepts
    DefaultCron,   \* DomainWatcher.default_schedule
    Domain,        \* normalised domain names
    Normalised,    \* DomainName(text).value of every text, or None: it raises
    NamesIn        \* the placeholders of every well-formed template

ASSUME CronAssumption == DefaultCron \in FiringCrons

Distinct(s) == Cardinality(ToSet(s)) = Len(s)

Descending(s) == \A i \in 1 .. Len(s) - 1 : s[i + 1] < s[i]

Field(s, F(_)) == [i \in DOMAIN s |-> F(s[i])]

---------------------------------------------------------------------------
(* loader.py                                                               *)

(* resolve_config_path: --config and DOMAIN_WATCHER_CONFIG name one place  *)
(* each, and no other is tried; else the first default that exists.        *)
Sought(flag) ==
    IF flag = "default" THEN <<"cwd", "etc", "xdg">> ELSE <<flag>>

ResolveConfigPath(flag, files) ==
    LET sought == Sought(flag)
        found  == {i \in DOMAIN sought : files[sought[i]] # None}
    IN IF found = {} THEN None
       ELSE sought[CHOOSE i \in found : \A j \in found : i <= j]

(* _interpolate_string: a variable that is set wins over the default, also *)
(* when it is set to the empty string.                                     *)
Text(t)       == [var |-> None, text |-> t]
Ref(v, t)     == [var |-> v, text |-> t]
Resolves(leaf, env) ==
    leaf.var = None \/ leaf.var \in DOMAIN env \/ leaf.text # None
Interpolated(leaf, env) ==
    IF leaf.var # None /\ leaf.var \in DOMAIN env THEN env[leaf.var] ELSE leaf.text

InterpolateEnv(file, env) ==
    [file EXCEPT !.notifiers =
        [i \in DOMAIN file.notifiers |->
            [file.notifiers[i] EXCEPT !.settings =
                [k \in DOMAIN file.notifiers[i].settings |->
                    Interpolated(file.notifiers[i].settings[k], env)]]]]

EnvResolves(file, env) ==
    \A i \in DOMAIN file.notifiers :
        \A k \in DOMAIN file.notifiers[i].settings :
            Resolves(file.notifiers[i].settings[k], env)

---------------------------------------------------------------------------
(* schema.py                                                               *)

Setting(s, key) == IF key \in DOMAIN s THEN s[key] ELSE ""

Placeholders == {"domain", "expires_at", "threshold", "severity", "cycle_id"}

ValidTemplate(t) == t \in DOMAIN NamesIn /\ NamesIn[t] \subseteq Placeholders

NotifierConfig(nc) ==
    nc.type = "webhook" =>
        /\ "body_template" \in DOMAIN nc.settings
        /\ ValidTemplate(nc.settings["body_template"])
        /\ Setting(nc.settings, "url") # ""

Thresholds(s) == s # <<>> /\ Descending(s)

WhoisRule(r) == r.groups = 1 /\ (r.format = "custom" <=> r.strptime)

LlmFallback(fb) == fb.enabled => fb.suggester # None

ValidCron(text) == text \in LegibleCrons

DomainEntry(d) ==
    /\ ValidCron(d.cron)
    /\ d.channels # <<>>
    /\ d.thresholds # None => Thresholds(d.thresholds)

(* Config._references_resolve: the names are compared as they are written. *)
ReferencesResolve(cfg) ==
    /\ Distinct(Field(cfg.checkers, LAMBDA c : c.id))
    /\ Distinct(Field(cfg.notifiers, LAMBDA n : n.id))
    /\ Distinct(Field(cfg.domains, LAMBDA d : d.name))
    /\ \A d \in ToSet(cfg.domains) :
          /\ \E c \in ToSet(cfg.checkers) : c.id = d.checker
          /\ \A ch \in ToSet(d.channels) : \E n \in ToSet(cfg.notifiers) : n.id = ch

ValidConfig(cfg) ==
    /\ \A n \in ToSet(cfg.notifiers) : NotifierConfig(n)
    /\ Thresholds(cfg.thresholds)
    /\ \A r \in ToSet(cfg.whois) : WhoisRule(r)
    /\ Distinct(Field(cfg.whois, LAMBDA r : r.tld))
    /\ LlmFallback(cfg.fallback)
    /\ \A d \in ToSet(cfg.domains) : DomainEntry(d)
    /\ ReferencesResolve(cfg)

(* load_config: None stands for the ConfigError.                           *)
LoadConfig(file, env) ==
    IF /\ file # None /\ file.yaml = "mapping"
       /\ EnvResolves(file, env)
       /\ ValidConfig(InterpolateEnv(file, env))
    THEN InterpolateEnv(file, env)
    ELSE None

---------------------------------------------------------------------------
(* composition.py                                                          *)

(* _build_checker: _coerce_seconds takes numbers and texts like "30s",     *)
(* _factory_script wants a command.                                        *)
CheckerBuilds(cc) ==
    /\ cc.type \in {"rdap", "whois", "script"}
    /\ cc.timeout \in {"number", "duration"}
    /\ cc.type = "script" => cc.command

(* __post_init__ of the four notifiers on what the factories hand over.    *)
IsUrl(t) == t = "http"

(* `security` sums up use_starttls, use_tls and allow_insecure: "both" and *)
(* "none" are the two combinations that raise.                             *)
EmailNotifier(s) ==
    /\ \A k \in {"smtp_host", "from_addr", "to_addrs"} : Setting(s, k) # ""
    /\ Setting(s, "security") \in {"", "starttls", "tls", "insecure"}

TelegramNotifier(s) ==
    /\ \A k \in {"bot_token", "chat_id"} : Setting(s, k) # ""
    /\ Setting(s, "parse_mode") \in {"", "HTML", "MarkdownV2"}

DiscordNotifier(s) == IsUrl(Setting(s, "webhook_url"))

WebhookNotifier(s) ==
    /\ IsUrl(Setting(s, "url"))
    /\ Setting(s, "method") \in {"", "POST", "PUT", "PATCH"}
    /\ ValidTemplate(s["body_template"])

NotifierBuilds(nc) ==
    \/ nc.type = "email"    /\ EmailNotifier(nc.settings)
    \/ nc.type = "telegram" /\ TelegramNotifier(nc.settings)
    \/ nc.type = "discord"  /\ DiscordNotifier(nc.settings)
    \/ nc.type = "webhook"  /\ WebhookNotifier(nc.settings)

IdAlias_OnlyCheckers(entry) ==
    [id      |-> IF entry.type \in {"rdap", "whois", "script"} THEN entry.id ELSE entry.type,
     adapter |-> entry.type]

(* _IdAlias: an adapter goes by the id of its entry, not by that of its    *)
(* class.                                                                  *)
IdAlias(entry) == [id |-> entry.id, adapter |-> entry.type]

(* Registry.register of every adapter: an id that is taken raises.         *)
Registers(entries) ==
    Distinct(Field(entries, LAMBDA e : IdAlias(e).id))

Registry(entries) ==
    [id \in {IdAlias(e).id : e \in ToSet(entries)} |->
        (CHOOSE e \in ToSet(entries) : IdAlias(e).id = id).type]

(* _build_parsing_service and _to_parse_rule.                              *)
ParsingServiceBuilds(cfg) ==
    cfg.fallback.enabled =>
        cfg.fallback.suggester = "litellm" /\ cfg.fallback.model # ""

(* _build_domain; `last` is last_check.                                    *)
BuildDomain(d) ==
    [name |-> Normalised[d.name], cron |-> d.cron, checker |-> d.checker,
     channels |-> d.channels, last |-> 0]

(* The aclose hooks in the order in which compose_from_config lists them:  *)
(* the clients that checkers and notifiers own, the session of an SQL      *)
(* state_db, the metrics server.                                           *)
AcloseHooks(cfg) ==
    LET clients(entries, types) ==
            [i \in 1..Cardinality({j \in DOMAIN entries : entries[j].type \in types}) |->
                "client"]
    IN clients(cfg.checkers, {"rdap"})
       \o clients(cfg.notifiers, {"telegram", "discord", "webhook"})
       \o <<"session">>
       \o (IF cfg.metrics THEN <<"metrics">> ELSE <<>>)

(* compose_from_config; None stands for any exception that leaves it.      *)
Composes(cfg) ==
    /\ ParsingServiceBuilds(cfg)
    /\ \A c \in ToSet(cfg.checkers) : CheckerBuilds(c)
    /\ \A n \in ToSet(cfg.notifiers) : NotifierBuilds(n)
    /\ Registers(cfg.checkers)
    /\ Registers(cfg.notifiers)
    /\ \A d \in ToSet(cfg.domains) :
          /\ Normalised[d.name] # None
          /\ d.checker \in DOMAIN Registry(cfg.checkers)
          /\ \A ch \in ToSet(d.channels) : \E n \in ToSet(cfg.notifiers) : n.id = ch

ComposeFromConfig(cfg) ==
    IF ~Composes(cfg) THEN None
    ELSE [checkers  |-> Registry(cfg.checkers),
          notifiers |-> Registry(cfg.notifiers),
          channels  |-> {n.id : n \in ToSet(cfg.notifiers)},
          initial   |-> [i \in DOMAIN cfg.domains |-> BuildDomain(cfg.domains[i])],
          learns    |-> cfg.fallback.enabled,
          hooks     |-> AcloseHooks(cfg)]
============================================================================
