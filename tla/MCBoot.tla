-------------------------------- MODULE MCBoot --------------------------------
(* Up to two disks: made by the builder, empty, or full of something else.   *)
EXTENDS Boot

SomeDisks ==
  {<<>>, <<"blank">>, <<"formatted", "formatted">>, <<"blank", "formatted">>,
   <<"garbage", "formatted">>}
=============================================================================
