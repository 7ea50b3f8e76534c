---------------------------- MODULE MCDevicePass ----------------------------
(***************************************************************************)
(* One rep of two runtimes, the first one split: the second of its two     *)
(* cases has a launch of its own.                                          *)
(***************************************************************************)
EXTENDS DevicePass

CONSTANTS zwasm, pulley, fib, xmrs

MCRuntimes == <<zwasm, pulley>>
MCSplit == {zwasm}
MCSplitOnly == <<zwasm>>
MCCatalog == <<fib, xmrs>>
MCHeavy == <<{xmrs}>>
=============================================================================
