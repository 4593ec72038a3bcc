---------------------------- MODULE MCActiveScan ----------------------------
(***************************************************************************)
(* Two domains and a few pages for TLC: a page on the host asked for, one  *)
(* that a redirect took elsewhere, with and without scripts.               *)
(***************************************************************************)
EXTENDS ActiveScan

H(d, ls) == [domain |-> d, labels |-> ls]
Own == H("own", <<>>)
Other == H("other", <<>>)
Own_www == H("own", <<"www">>)

MCInputs ==
  {[scheme |-> "none", host |-> Own, path |-> FALSE],
   [scheme |-> "http", host |-> Own, path |-> TRUE],
   [scheme |-> "https", host |-> Own_www, path |-> FALSE]}

Script(src, host, lib, integrity) == [src |-> src, host |-> host, lib |-> lib, integrity |-> integrity]

Scripts ==
  <<Script("inline", Own, NoLib, FALSE), Script("relative", Own, "jquery", FALSE),
    Script("absolute", Other, "jquery", FALSE), Script("absolute", Other, NoLib, TRUE)>>

Secrets == <<[pattern |-> "aws", head |-> "AKIA", rest |-> 1],
             [pattern |-> "aws", head |-> "AKIA", rest |-> 2],
             [pattern |-> "gcp", head |-> "AIza", rest |-> 1]>>

Page(https, host, tags) ==
  [finalUrl |-> [https |-> https, host |-> host, path |-> FALSE],
   headers |-> {"HSTS", "CSP"}, tags |-> tags, secrets |-> Secrets]

MCPages == {Page(TRUE, Own, Scripts), Page(FALSE, Own, <<>>), Page(TRUE, Other, Scripts)}

MCCerts == {[validTo |-> "past", authorized |-> FALSE, weak |-> TRUE],
            [validTo |-> "missing", authorized |-> TRUE, weak |-> FALSE]}

Name(h, plain) == [host |-> h, plain |-> plain]

\* Nothing; names of the word list, of the root and of others; several new ones.
MCPayloads ==
  {<<Name(Own_www, TRUE), Name(Own, TRUE), Name(Other, TRUE), Name(H("other", <<"www">>), TRUE)>>,
   <<Name(H("own", <<"api">>), FALSE), Name(H("own", <<"www", "api">>), TRUE),
     Name(H("own", <<"www", "api">>), TRUE), Name(H("own", <<"git">>), TRUE)>>}

MCWordlist == <<"www", "api">>
=============================================================================
