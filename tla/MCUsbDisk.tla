----------------------------- MODULE MCUsbDisk ------------------------------
(* Instances of UsbDisk for TLC.  The configurations: a disk; a disk among  *)
(* two other interfaces, which fills the bytes asked for; a disk one cannot *)
(* write to; two disks; two halves of one; an interface with an alternate   *)
(* setting; and those that are not readable: a keyboard, whose endpoint     *)
(* follows a descriptor of 9 bytes, a disk behind one, and a disk that ends *)
(* past the bytes asked for.  The last device has no configuration.         *)
EXTENDS UsbDisk

In(at, num)  == [at |-> at, in |-> TRUE, num |-> num]
Out(at, num) == [at |-> at, in |-> FALSE, num |-> num]
Inter(at, bbb, num, endps) ==
    [at |-> at, bbb |-> bbb, num |-> num, num_endp |-> Cardinality(endps), endps |-> endps]
Bulk(at, num, endps) == Inter(at, TRUE, num, endps)
Other(at, num, endps) == Inter(at, FALSE, num, endps)
Conf(total, num_inter, inters) ==
    [num_config |-> 1, total |-> total, num_inter |-> num_inter, inters |-> inters]

Disk == Conf(32, 1, {Bulk(9, 1, {In(18, 1), Out(25, 2)})})
Among == Conf(64, 3, {Other(9, 1, {In(18, 3)}), Bulk(25, 2, {Out(34, 1), In(41, 2)}),
                      Other(48, 3, {In(57, 4)})})
OneWay == Conf(32, 1, {Bulk(9, 1, {In(18, 1), In(25, 2)})})
Disks == Conf(55, 2, {Bulk(9, 1, {In(18, 1), Out(25, 1)}), Bulk(32, 2, {Out(41, 3), In(48, 2)})})
Halves == Conf(41, 2, {Bulk(9, 1, {In(18, 1)}), Bulk(25, 2, {Out(34, 2)})})
Alternate == Conf(55, 1, {Bulk(9, 1, {In(18, 1), Out(25, 2)}), Other(32, 2, {In(41, 3), Out(48, 3)})})
Keys == Conf(34, 1, {Other(9, 1, {In(27, 1)})})
KeysAndDisk == Conf(57, 2, {Other(9, 1, {In(27, 3)}), Bulk(34, 2, {In(43, 1), Out(50, 2)})})
Long == Conf(71, 3, {Bulk(9, 1, {In(18, 1), Out(25, 2)}), Other(32, 2, {In(41, 3), Out(48, 3)}),
                     Bulk(55, 3, {In(64, 4)})})
Nothing == [Conf(0, 0, {}) EXCEPT !.num_config = 0]

MCDevices == {Disk, Among, OneWay, Disks, Halves, Alternate, Keys, KeysAndDisk, Long, Nothing}
MCJunk == [bbb : BOOLEAN, num : {9}, num_endp : {2}, in : BOOLEAN]
MCOne == <<{1, 2}>>
MCApart == <<{1}, {2}>>
MCDisk == {Disk}
=============================================================================
