---------------------------- MODULE MCCompanySites -----------------------------
(* Two candidate sites: a small one whose pages may be those of the company, of
   a dealer or not readable, with a document route, an archive and a guessed
   subdomain; and a mirror of it that only says something in a browser, which
   a row may spell in its own way.                                            *)
EXTENDS CompanySites

MCHome == [A |-> "a", B |-> "b", b0 |-> "b", C |-> "c"]
MCKeyOf == [A |-> "A", B |-> "B", b0 |-> "B", C |-> "C"]
At(host, path, depth, nr) == [host |-> host, path |-> path, depth |-> depth, nr |-> nr]
MCUrl == [a |-> At("a", "/", 0, 1), acon |-> At("a", "/contacts/", 1, 2),
          aprod |-> At("a", "/catalog/", 1, 3), adeep |-> At("a", "/catalog/", 4, 4),
          apdf |-> At("a", "/c.pdf", 1, 5), acat |-> At("catalog.a", "/", 0, 6),
          b |-> At("b", "/", 0, 7), c |-> At("c", "/", 0, 8)]
MCFamilyOrder == <<"company/about", "contacts", "production/products", "docs/certificates">>
F(x) == [i \in ToSet(MCFamilyOrder) |-> x[CHOOSE k \in 1 .. 4 : MCFamilyOrder[k] = i]]
MCWeight == F(<<96, 100, 93, 88>>)
MCFamilyLimit == F(<<2, 1, 2, 1>>)
MCDepthLimit == F(<<2, 2, 3, 4>>)
MCPathLimit == F(<<1, 1, 1, 2>>)
MCBonus == [homepage |-> 1, menu |-> 3, internal_links |-> 1, documents |-> 2,
            site_probe |-> 1, common_subdomain |-> 1] @@ [r \in {"sitemap.xml"} |-> 2]
Link(page, url, region, family, score) ==
  [page |-> page, url |-> url, region |-> region, family |-> family, score |-> score]
MCLinks == {Link("a", "acon", "menu", "contacts", 3),
            Link("a", "aprod", "menu", "production/products", 3),
            Link("aprod", "apdf", "documents", "docs/certificates", 2),
            Link("a", "adeep", "sitemap.xml", "production/products", 1),
            Link("b", "b", "site_probe", "contacts", 1)}
MCGuessed == [A |-> [f \in {"production/products"} |->
                       Link("a", "acat", "common_subdomain", "production/products", 2)],
              B |-> <<>>, b0 |-> <<>>, C |-> <<>>]
MCGroups == <<[families |-> <<"company/about">>, required |-> TRUE],
              [families |-> <<"contacts">>, required |-> TRUE],
              [families |-> <<"production/products">>, required |-> FALSE]>>
Probe(status, spa, text) ==
  [status |-> status, html |-> TRUE, spa |-> spa, legacy |-> FALSE, text |-> text, links |-> 3]
MCProbes == {Probe("success", FALSE, 400), Probe("success", TRUE, 0),
             Probe("success", TRUE, 600), Probe("http_403", FALSE, 0)}

Company == [industrial |-> 300, product |-> 300]
Dealer == [dealer |-> 600]
Answer(got, status, file, text, signals, links, inBrowser) ==
  [got |-> got, status |-> status, file |-> file, text |-> text, signals |-> signals,
   overlap |-> FALSE, links |-> links, browser |-> inBrowser]
Ours(links) == Answer(TRUE, "success", "", "ours", Company, links, FALSE)
Shell == Answer(TRUE, "success", "", "", <<>>, <<>>, FALSE)
Gone == Answer(FALSE, "request_error", "", "", <<>>, <<>>, FALSE)
MCServe == [c |-> {Shell}, a |-> {Ours(<<"apdf", "azip", "adup">>), Gone},
            acon |-> {Gone, Answer(TRUE, "success", "", "sells", Dealer, <<"azip">>, FALSE)},
            aprod |-> {Answer(TRUE, "success", "", "goods", Company, <<>>, FALSE)},
            adeep |-> {Gone}, acat |-> {Ours(<<>>), Shell},
            apdf |-> {Answer(TRUE, "success", "pdf", "", <<>>, <<>>, FALSE)},
            b |-> {Shell, Answer(TRUE, "success", "", "ours", Company, <<"adup">>, TRUE),
                  Answer(TRUE, "success", "", "ours", Company, <<>>, FALSE)}]
MCFile == [apdf |-> "pdf", adup |-> "pdf", azip |-> "zip"]
Item(sum, size, format, members) ==
  [sum |-> sum, size |-> size, format |-> format, members |-> members, readable |-> TRUE]
MCContent == [pdf |-> Item("p", 1, "pdf", <<>>), txt |-> Item("t", 1, "exe", <<>>),
              zip |-> Item("z", 2, "zip", <<"unsafe", "pdf", "txt", "zip">>)]
MCType == [apdf |-> "pdf", adup |-> "pdf", azip |-> "archive"]
MCSignalCap == [industrial |-> 350, product |-> 450, okved |-> 350, generic |-> 150,
                dealer |-> 550, portal |-> 650, marketplace |-> 700, reseller |-> 550,
                unrelated |-> 800]
MCSectionOf == F(<<"about", "contacts", "products", "documents">>)
Text(points, strong, family, title) ==
  [points |-> points, strong |-> strong, family |-> family, date |-> "", title |-> title]
MCLead == [ours |-> Text(600, FALSE, "", "home"), goods |-> Text(450, TRUE, "", "home"),
           sells |-> Text(800, TRUE, "direct_sale", "sale"),
           p |-> Text(250, FALSE, "", "pdf"), t |-> Text(0, FALSE, "", "txt")]

Claim(source, kind, value, domain) ==
  [source |-> source, kind |-> kind, value |-> value, domain |-> domain]
Known == [site |-> "", claims |-> <<Claim("s1", "website", "A", "A"), Claim("s2", "website", "A", "A"),
                                    Claim("s1", "email", "m", "B")>>]
Spelled == [site |-> "b0", claims |-> <<Claim(Input, "website", "B", "B")>>]
Row == [site |-> "C", claims |-> <<Claim(Input, "website", "C", "C"),
                                   Claim("s1", "website", "B", "B"), Claim("s2", "website", "B", "B"),
                                   Claim("s1", "phone", "2", ""), Claim("s2", "phone", "2", "")>>]
MCCompanies == {Known, Spelled, Row}
MCDryRuns == {<<"A", "B">>}
MCOverlap == [A |-> 1, B |-> 1, C |-> 0]
MCDomainOrder == <<"A", "B", "C">>
Page(status, final, inn, hard) ==
  [status |-> status, final |-> final, home |-> <<>>, names |-> 200, inn |-> inn,
   phones |-> {"1"}, emails |-> {}, title |-> TRUE, form |-> 400, trade |-> 600, hard |-> hard]
NoFront == Page("error", "", "", {})
MCFrontPage == [A |-> {Page("success", "A", "own", {}), Page("success", "B", "own", {}), NoFront},
            B |-> {Page("success", "B", "none", {}), Page("success", "B", "none", {"domain_parking"})},
                C |-> {Page("success", "C", "none", {"domain_parking"})}]
MCExtra == [A |-> {}, B |-> {Page("success", "B", "own", {})}, C |-> {}]
MCGeoSignals == {[matched |-> FALSE, bucket |-> ""], [matched |-> TRUE, bucket |-> "outside"]}
Reply(parsed, refusal, cut, text, word) ==
  [lost |-> FALSE, counted |-> TRUE, parsed |-> parsed, refusal |-> refusal, cut |-> cut,
   text |-> text, word |-> word]
Word(belongs, label, confidence) ==
  [belongs |-> belongs, label |-> label, confidence |-> confidence]
Nothing == Word(FALSE, "", 0)
MCAnswers == {Reply("object", FALSE, "", "", Word(TRUE, "likely_relevant", 900)),
              Reply("none", FALSE, "", "json", Word(FALSE, "irrelevant", 700)),
              Reply("none", FALSE, "max_output_tokens", "broken", Nothing),
              Reply("none", TRUE, "", "", Nothing),
              [Reply("none", FALSE, "", "", Nothing) EXCEPT !.lost = TRUE]}
=============================================================================
