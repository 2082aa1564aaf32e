---------------------------- MODULE MessageHead ----------------------------
(***************************************************************************)
(* The codec of the game server (MessageHead::Parse and Pack in            *)
(* Server/Server/AppManager.cpp), and the sizes of the protocol buffers    *)
(* that pass through it.  A message is a head of two 16-bit numbers, the   *)
(* length of the whole message and the command, and a body.  Both take the *)
(* lengths of their callers, which are 32 bits wide, as uint16.  A body is *)
(* its length; that of a reply depends on the name and the vocation in it.  *)
(***************************************************************************)
EXTENDS Naturals

U16 == 65536    \* 2^16
HeadLen == 4    \* sizeof(len) + sizeof(cmd)

\* Wrong variant of the test: the whole length is looked at.
Parses_Wide(length) == length > HeadLen

\* Parse accepts a chunk of this length.
Parses(length) == length % U16 > HeadLen

\* The length Pack writes into the head, and gives the message that is sent.
Total(bodyLen) == (HeadLen + (bodyLen % U16)) % U16

\* The number of bytes Pack writes, of Total + 1 allocated.
Written(bodyLen) == HeadLen + (bodyLen % U16)

\* The first byte of the message is the low byte of its length.
FirstByte(bodyLen) == Total(bodyLen) % 256

-----------------------------------------------------------------------------
(* Protocol buffers.  All fields are optional.  A name is its length, 0 if  *)
(* the request leaves it out: one it gives as empty has a 0 in it, where    *)
(* the conversion of char* to std::string ends the body.                    *)

VarintLen(n) == IF n < 128 THEN 1 ELSE IF n < 16384 THEN 2 ELSE 3
StringField(n) == 1 + VarintLen(n) + n
NameField(n) == IF n = 0 THEN 0 ELSE StringField(n)

\* A vocation is any uint32, which HandleCreateRole copies into an int32.  It
\* stands for the length of its varint there: 1 to 5 bytes, 10 from 2^31 on,
\* where the int32 is negative; or 0 if the request leaves it out (vocation 0).
VocationLens == 0..5 \cup {10}
VocationField(v) == IF v = 0 THEN 0 ELSE IF v = 10 THEN 6 ELSE 1 + v
CareerField(v) == IF v = 0 THEN 2 ELSE 1 + v

\* The fields of a request that its handler reads; it may have others.
LoginLen(n) == NameField(n)                            \* CRequestLogin
CreateRoleLen(n, v) == VocationField(v) + NameField(n) \* CGCSendCreateRole
SelectRoleLen == 0                                     \* CGCAskSelectRole

LoginRetLen(n) == StringField(n)         \* CRequestLoginRet: _userName
RoleCreateRetLen == 2                    \* CGCSendCreateRoleRet: _result
\* CGSNotifyRoleBaseInfo: the name, the vocation, and 20 small fields.
RoleListLen(n, v) == 47 + StringField(n) + CareerField(v)
ChangeSceneLen == 24                     \* CGSNotifyChangeScene: 6 fields
=============================================================================
