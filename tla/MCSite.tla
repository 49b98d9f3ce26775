------------------------------- MODULE MCSite -------------------------------
(***************************************************************************)
(* An application with a login controller, pages under a prefix, a REST    *)
(* interface, a SOAP service and pages at the root, with rules that        *)
(* overlap.                                                                *)
(***************************************************************************)
EXTENDS Site

Mount(path, method, does, name) ==
    [path |-> path, method |-> method, does |-> does, page |-> name]
Controller(kind, prefix, mounts) ==
    [call |-> "add_controller", kind |-> kind, prefix |-> prefix, mounts |-> mounts]
Rule(pattern, roles) == [call |-> "add_rule", pattern |-> pattern, roles |-> roles]

People == [scott |-> [password |-> "tiger", roles |-> {"admin"}],
           ann   |-> [password |-> "lion", roles |-> {"editor"}],
           guest |-> [password |-> "cat", roles |-> {}]]

Application == <<
    Rule(<<"/", "app", "/", "*", "*">>, {"admin"}),
    Controller("login", <<"/">>, <<>>),
    Controller("html", <<"app">>,
        << Mount(<<"list">>, "GET", "page", "list"),
           Mount(<<"*">>, "UNDEFINED", "page", "any"),
           Mount(<<"fault">>, "GET", "throw", "fault") >>),
    Rule(<<"/", "api", "/", "*", "*", "/", "edit">>, {"admin", "editor"}),
    Controller("rest", <<"/", "/", "api">>,
        << Mount(<<"item", "/", "{}">>, "GET", "page", "item"),
           Mount(<<"item", "/", "{}", "/", "edit">>, "GET", "status", "edit"),
           Mount(<<"item", "/", "{}">>, "DELETE", "throw", "delete") >>),
    Controller("soap", <<"ws">>, << Mount(<<>>, "POST", "page", "action") >>),
    Rule(<<"/", "*", "*">>, {}),
    Controller("html", <<>>,
        << Mount(<<"index">>, "GET", "page", "index"),
           Mount(<<"fault">>, "POST", "throw", "fault") >>) >>

Requested ==
    { Login, <<"/", "logout">>, <<"/", "app", "/", "list">>, <<"/", "app", "/", "x">>,
      <<"/", "app", "le">>, <<"/", "app", "/", "x", "/", "list">>,
      <<"/", "api", "/", "item", "/", "x">>, <<"/", "api", "/", "item", "/", "x", "/", "edit">>,
      <<"/", "ws">>, <<"/", "index">>, <<"/", "fault">>, <<"/">> }

\* The theorems about sites apply to this one.
ASSUME SiteAsUsual == AsUsual /\ RulesAsGiven /\ MountsAsGiven
=============================================================================
