--------------------------- MODULE MCSessionOptions ---------------------------
EXTENDS SessionOptions, TLC

CONSTANTS alice, bob, mate, xfce, rescue, gone, en, de, us, fr

Exists == ("session" :> {mate, xfce, rescue}) @@ ("language" :> {en, de}) @@ ("layout" :> {us, fr})
Defaults == ("session" :> mate) @@ ("language" :> en) @@ ("layout" :> us)
Known == ("session" :> <<mate, xfce, rescue>>) @@ ("language" :> <<en>>) @@ ("layout" :> <<us>>)
Stored ==
  (alice :> (("session" :> {gone}) @@ ("language" :> {de}) @@ ("layout" :> {fr})))
  @@ (bob :> (("session" :> {xfce}) @@ ("language" :> {NoName}) @@ ("layout" :> {NoName})))
==============================================================================
