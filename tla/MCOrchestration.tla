--------------------------- MODULE MCOrchestration --------------------------
(***************************************************************************)
(* Instances of Orchestration.  The projects blog and shop have names of    *)
(* their own; oldblog derives the same name as blog, News the same as news; *)
(* docs is no Laravel project.  Requests are named after the sites they may *)
(* register.                                                                *)
(***************************************************************************)
EXTENDS Orchestration

MCRoots == {"blog", "shop", "oldblog", "docs", "news", "News"}
MCNameOf == [r \in MCRoots |-> CASE r = "oldblog" -> "blog"
                                  [] r = "News" -> "news" [] OTHER -> r]
MCDomainOf == [n \in {"blog", "shop", "docs", "news"} |->
                 IF n = "blog" THEN "blog.test" ELSE "shop.test"]
MCDetect == [b \in {"php82", "php83"} |-> IF b = "php82" THEN "8.2" ELSE "8.3"]
MCService == [v \in {"8.2", "8.3"} |-> IF v = "8.2" THEN "fpm82" ELSE "fpm83"]

\* The blog has been activated before, with PHP 8.3.
Blog == [id |-> "s0", root |-> "blog", domain |-> "blog.test", php |-> "8.3"]
NoSitesYet == {{}}
NoneOrOne == {{}, {Blog}}

MCRuntimes ==
    [runtimes |-> {[version |-> "8.3", binary |-> "php83", service |-> "fpm83"],
                   [version |-> "8.2", binary |-> "php82", service |-> "fpm82"]},
     default |-> "8.3"]

Activate(root, domain, v) ==
    [op |-> "activate", root |-> root, domain |-> domain, php |-> v]
UpdateSite(i, root, domain, v) ==
    [op |-> "update", id |-> i, root |-> root, domain |-> domain, php |-> v]
Switch(i, v) == [op |-> "switch", id |-> i, php |-> v]
Onboard(b) == [op |-> "onboard", version |-> Unset, binary |-> b, service |-> Unset]
Package(b) == [op |-> "package", version |-> Unset, binary |-> b, service |-> Unset]
Default(v) == [op |-> "default", php |-> v]

\* One of each kind, so that every step and every refusal happens.
AllJobs ==
    {Activate("blog", Unset, "8.2"), Activate("oldblog", "shop.test", Unset),
     Activate("docs", Unset, Unset), Activate("shop", Unset, Unset),
     UpdateSite("s0", Unset, "shop.test", Unset), UpdateSite("s0", "oldblog", Unset, Unset),
     UpdateSite("s0", "shop", Unset, "8.2"), UpdateSite("s0", Unset, Unset, Unset),
     UpdateSite("s0", "docs", Unset, Unset),
     Switch("s0", "8.2"), Switch("s0", "8.3"),
     Onboard("php82"), Onboard("php83"), Package("php82"), Default("8.2")}
\* Two activations, and an update and a switch of the site that the first one
\* is registering.
RaceJobs ==
    {Activate("blog", Unset, Unset), Activate("shop", Unset, Unset),
     UpdateSite("q1", Unset, "shop.test", Unset), Switch("q1", "8.2")}
OneActivation == {Activate("blog", Unset, Unset)}
TwoActivations == {Activate("blog", Unset, Unset), Activate("shop", Unset, Unset)}
=============================================================================
