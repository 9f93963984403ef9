------------------------------ MODULE MCWriter ------------------------------
(* Short messages for Ch10Writer, with all widths of checksum and filler. *)
EXTENDS WriteReadBack

M(sec, csdw, data, chksum) == [sec |-> sec, csdw |-> csdw, data |-> data, chksum |-> chksum]

MCMessages ==
  {M(FALSE, <<>>, <<>>, 0), M(FALSE, <<7, 7, 7, 7>>, <<7>>, 2), M(TRUE, <<>>, <<6, 5, 7>>, 1),
   M(FALSE, <<3>>, <<2>>, 4), M(FALSE, <<1, 2, 3, 7>>, <<5, 4, 1>>, 4)}

=============================================================================
