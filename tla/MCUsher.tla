------------------------------- MODULE MCUsher -------------------------------
EXTENDS Usher

Deployment(host, siteHost, name) == [host |-> host, siteHost |-> siteHost, name |-> name]

Config(ds, isMono, cap) == [deployments |-> ds, mono |-> isMono, maxBody |-> cap, rest |-> TRUE]

One == <<Deployment("API", "site", "d")>>

\* A deployment with a site, in mono mode or not, and two; one host twice, mono with
\* two, a name twice, a bad host, a bad cap, none.
MCConfigs ==
  {Config(One, FALSE, <<1>>), Config(One, TRUE, <<0>>),
   Config(<<Deployment("api", "", "d"), Deployment("site", "", "e")>>, FALSE, << >>),
   Config(<<Deployment("api", "API", "d")>>, FALSE, << >>),
   Config(<<Deployment("api", "", "d"), Deployment("site", "", "e")>>, TRUE, << >>),
   Config(<<Deployment("api", "", "d"), Deployment("site", "", "d")>>, FALSE, << >>),
   Config(<<Deployment("api", "no/host", "d")>>, FALSE, << >>),
   Config(One, FALSE, <<-1>>), Config(<< >>, FALSE, << >>)}

LiveConfigs == {Config(One, FALSE, << >>)}

MCUrls == [d |-> {"u", "v"}, e |-> {"w"}]
LiveUrls == [d |-> {"u", "v"}]

Words == {"", "api", "API", "site", "no/host", "10.0.0.1", "usher", "healthz", "readyz", "metrics",
          "Instance", "instance", "http", "x", "..", "."}

MCLower == [w \in Words |-> CASE w = "API" -> "api" [] w = "Instance" -> "instance" [] OTHER -> w]

Host(base, port, dot) == [base |-> base, port |-> port, dot |-> dot]

Plain(host, path) ==
  [host |-> host, path |-> path, method |-> "POST", version |-> 0, length |-> 1, body |-> 1]

Api == Plain(Host("API", TRUE, TRUE), <<"api">>)

MCRequests ==
  {Api, [Api EXCEPT !.body = 2, !.length = -1], [Api EXCEPT !.length = 2], [Api EXCEPT !.version = 2],
   [Api EXCEPT !.method = "TRACE"], [Api EXCEPT !.path = <<"x", "..", "Instance", "x">>],
   [Api EXCEPT !.path = <<"metrics", "">>],
   Plain(Host("site", FALSE, FALSE), <<"http">>),
   Plain(Host("10.0.0.1", TRUE, FALSE), <<"x">>),
   [Plain(Host("10.0.0.1", TRUE, FALSE), readyzPath) EXCEPT !.method = "GET"],
   Plain(Host("10.0.0.1", TRUE, FALSE), healthzPath)}

LiveRequests == {Api}
==============================================================================
