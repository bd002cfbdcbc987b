----------------------------- MODULE MCBrowser -----------------------------
EXTENDS Browser
MCOutbounds == <<[tag |-> "y", type |-> <<"xray", "proxy", "vless", "Config">>],
                 [tag |-> "d", type |-> <<"xray", "proxy", "Freedom", "Config">>],
                 [tag |-> "", type |-> <<>>],
                 [tag |-> "x", type |-> <<"proxy", "vmess">>]>>
MCObserved == <<"y", "d", "x">>
MCTagOrder == <<"d", "x", "y">>
MCToLower(s) == IF s = "Freedom" THEN "freedom" ELSE s
MCTagBytes(tag) == IF tag = "long" THEN 257 ELSE Len(tag)
MCPlain(tag) == tag # "a b"
Up(n) == [alive |-> TRUE, delay |-> n]
MCFirst == {[y |-> Up(0), d |-> Up(1), x |-> Up(2)]}
MCFinds == [y |-> {Up(1), Up(2)}, d |-> {}, x |-> {}]
=============================================================================
