--------------------------- MODULE MCLifecycle ---------------------------
(* Instances of Lifecycle for TLC: files a few edits away from a good one. *)
EXTENDS Lifecycle

CONSTANTS p1, p2, d1, d2

Names == [Text1 |-> d1, Text1Upper |-> d1, Text2 |-> d2, Bad |-> None]

Templates == [Fields |-> {"domain", "cycle_id"}, Stray |-> {"host"}]

Rdap(id)    == [id |-> id, type |-> "rdap", timeout |-> "number", command |-> FALSE]
Script(id)  == [id |-> id, type |-> "script", timeout |-> "duration", command |-> TRUE]
Telegram(id) ==
    [id |-> id, type |-> "telegram",
     settings |-> [bot_token |-> Ref("TOKEN", None), chat_id |-> Text("ops")]]
Webhook(id, t) ==
    [id |-> id, type |-> "webhook",
     settings |-> [url |-> Text("http"), body_template |-> Text(t)]]
Email(id) ==
    [id |-> id, type |-> "email",
     settings |-> [smtp_host |-> Ref("MX", "mx"), from_addr |-> Text("dw"),
                   to_addrs |-> Text("ops"), security |-> Text("starttls")]]

Entry(n, c, chs, cron) ==
    [name |-> n, checker |-> c, channels |-> chs, cron |-> cron, thresholds |-> None]

NoFallback == [enabled |-> FALSE, suggester |-> None, model |-> ""]
Litellm    == [enabled |-> TRUE, suggester |-> "litellm", model |-> "m"]

Good ==
    [yaml       |-> "mapping",
     checkers   |-> <<Rdap("primary"), Script("script")>>,
     notifiers  |-> <<Telegram("ops"), Email("mail")>>,
     thresholds |-> <<30, 7, 1>>,
     whois      |-> <<[tld |-> "io", groups |-> 1, format |-> "custom", strptime |-> TRUE]>>,
     fallback   |-> NoFallback,
     domains    |-> <<Entry("Text1", "primary", <<"ops">>, "daily")>>,
     metrics    |-> FALSE]

(* One domain written twice, a channel listed twice, everything optional   *)
(* in use.                                                                 *)
Rich ==
    [Good EXCEPT
        !.notifiers = @ \o <<Webhook("hook", "Fields")>>,
        !.fallback = Litellm, !.metrics = TRUE,
        !.domains = <<Entry("Text1", "primary", <<"ops">>, "daily"),
                      [Entry("Text1Upper", "script", <<"hook", "hook">>, "hourly") EXCEPT
                            !.thresholds = <<7, 1>>]>>]

(* Passes the schema, fails in ApsScheduler.start.                         *)
Ninety9 == [Good EXCEPT !.domains =
               <<Entry("Text1", "primary", <<"ops">>, "daily"),
                 Entry("Text2", "primary", <<"ops">>, "99 * * * *")>>]

(* Refused by the loader, the schema or the composition.                   *)
Refused ==
    {[Good EXCEPT !.yaml = "broken"],
     [Good EXCEPT !.thresholds = <<1, 7>>],
     [Good EXCEPT !.domains[1].channels = <<"absent">>],
     [Good EXCEPT !.domains[1].name = "Bad"],
     [Good EXCEPT !.notifiers = @ \o <<Webhook("hook", "Stray")>>],
     [Good EXCEPT !.notifiers[2].settings.security = Text("none")],
     [Good EXCEPT !.checkers[2].command = FALSE]}

At(file) == [place \in Place |-> IF place \in DOMAIN file THEN file[place] ELSE None]

\* Three files to launch from, or a single one that nothing launches from.
Elsewhere == {At([cli |-> Ninety9, env |-> Rich, etc |-> Good])}
             \cup {At([cwd |-> f]) : f \in Refused}
OneFile   == {At([xdg |-> Rich])}

Token   == [TOKEN |-> "secret"]
Envs    == {Token}
AllEnvs == {Token, [TOKEN |-> ""], [TOKEN |-> "secret", MX |-> ""], [MX |-> "mx2"]}

AskBoth == {[name |-> "Text1", checker |-> None],
            [name |-> "Text2", checker |-> "script"],
            [name |-> "Text1", checker |-> "absent"],
            [name |-> "Bad", checker |-> None]}
============================================================================
