----------------------------- MODULE MCEMSSyslog -----------------------------
(***************************************************************************)
(* An instance of EMSSyslog: each kind of frame getTelegramm tells apart.  *)
(***************************************************************************)
EXTENDS EMSSyslog, Bitwise

\* BitXor is the operator of Java.
ASSUME BitXorIsBitwise == \A a, b \in Byte : BitXor(a, b) = a ^^ b

Stamps == <<4, 3, 2, 1, 4, 3, 2, 1>>
WithCrc(b) == Append(b, buderusEmsCrc(b))
Frame(bus) == [stamps |-> Stamps, bus |-> bus]

Good    == Frame(WithCrc(<<8, 0, 24, 0, 130, 7>>))
BadCrc  == Frame(<<8, 0, 24, 0, 130, 7, 1>>)
Poll    == Frame(<<137>>)
Lone    == Frame(<<>>)
Has1A   == Frame(WithCrc(<<8, 0, 26, 0, 50, 9>>))       \* UBASollwerte is type 26
HasE5   == Frame(WithCrc(<<16, 0, 229, 0, 50, 9>>))
Slow    == Frame(WithCrc(<<8, 0, 25, 0, 1, 2>>))
LooksV2 == [Good EXCEPT !.stamps = <<85, 170, 2, 1, 4, 3, 2, 1>>]

Kinds == {Good, BadCrc, Poll, Lone, Has1A, HasE5, Slow, LooksV2}

\* Any two of them, and what becomes of a third.
MCStreams == {<<f, g, h>> : f \in Kinds, g \in Kinds, h \in {Good, Has1A}}
=============================================================================
