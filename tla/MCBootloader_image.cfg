SPECIFICATION Spec
CONSTANTS
    Magic = {good, bad}
    EXPECTED_MAGIC = good
    Byte <- MCByte
    Crc <- MCCrc
    Image <- MCImage
    PowerUp <- MCPowerUp
    crc32 <- MCcrc32
    MAX_PAYLOAD_SIZE = 12
    StackOffset = 8
    Size = {0, 4, 8, 12, 16}
    Glitch = FALSE
INVARIANTS TypeOK JumpOnlyVerified
PROPERTIES BootRefinement
