SPECIFICATION Spec
INVARIANTS
    ZsetIsRef HashIsRef SetIsRef ListIsRef StringIsRef SetOpAnswers
    DictIsSet ZiplistIsList HllIsRegisters
