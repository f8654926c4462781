---------------------------- MODULE MCPropertiesd ---------------------------
EXTENDS Propertiesd, TLC

CONSTANTS density, locale, plain, v1, v2, c1, c2

Keys == {"ro.sf.lcd_density", "user.locale", "plain", "empty", "dots"}
Paths ==
  ("ro.sf.lcd_density" :> density) @@
  ("user.locale" :> locale) @@ ("plain" :> plain) @@ ("empty" :> "empty") @@ ("dots" :> "nothing")
Initials == density :> v1
=============================================================================
